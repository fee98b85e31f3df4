--------------------------- MODULE MCReceivePath ---------------------------
(* The receive path for TLC.  A behaviour is about one of its parts: the   *)
(* chunks of ChunkReassembler, as MCChunkReassembler has them, or frames   *)
(* or commands in CameraStore, as in MCCameraStore.  The other part stays  *)
(* in its initial state.                                                   *)
EXTENDS MCChunkReassembler, MCCameraStore

pathVars == <<vars, storeVars, about>>

PathInit == Init /\ StoreInit /\ about \in {"chunks", "frames", "commands"}

Chunks == about = "chunks" /\ UNCHANGED <<storeVars, about>>
Store  == about # "chunks" /\ UNCHANGED vars

PathNext == (Next /\ Chunks) \/ (MCStoreNext /\ Store)

PathSpec == /\ PathInit /\ [][PathNext]_pathVars
            /\ WF_pathVars(tick /\ Chunks) /\ WF_pathVars(onBinaryRefused /\ Chunks)
=============================================================================
