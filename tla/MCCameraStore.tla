--------------------------- MODULE MCCameraStore ---------------------------
(* Instances of CameraStore.  A behaviour is about frames or about the     *)
(* commands of the main thread, which meet in the roster only.  Where it   *)
(* is about frames, one server at most is discovered again, and one frame  *)
(* at most is a capture.                                                   *)
EXTENDS CameraStore

VARIABLE about

Captured == Cardinality(DOMAIN captures) + Cardinality({s \in Server :
              net[s].pc \in {"found", "publish"} /\ net[s].kind = "capture"})

OnFrames == /\ main' = Idle
            /\ Cardinality({s \in Server : discoveries'[s] > 1}) <= 1
            /\ Captured' <= 1

MCStoreInit == StoreInit /\ about \in {"frames", "commands"}
MCStoreNext == /\ StoreNext /\ UNCHANGED about
               /\ IF about = "frames" THEN OnFrames ELSE frames' = 0
MCStoreSpec == MCStoreInit /\ [][MCStoreNext]_<<storeVars, about>>
=============================================================================
