----------------------------- MODULE FrameLease -----------------------------
(***************************************************************************)
(* What the frame pool promises to the threads that share it, without the  *)
(* mechanism: every buffer is idle, being written by one network thread,   *)
(* or shown to any number of readers, and the three never overlap.         *)
(*                                                                         *)
(* FramePool implements this specification (FramePool!Lease).              *)
(***************************************************************************)
CONSTANTS Buf,      \* the frame buffers of the process
          Observer  \* the threads that read published frames

VARIABLES phase,    \* phase[b]: who may touch the bytes of b
          readers   \* readers[b]: the observers reading b now

Phase == {"idle", "writing", "shown"}

Init == /\ phase   = [b \in Buf |-> "idle"]
        /\ readers = [b \in Buf |-> {}]

(* A buffer is lent for writing only while nobody reads it, and nobody     *)
(* reads it until its frame is shown.                                      *)
LendOrWrite(b) == /\ phase[b] \in {"idle", "writing"}
                  /\ phase'[b] = "writing"
                  /\ readers[b] = {}
                  /\ readers'[b] = {}

(* A whole frame is shown; readers may come and go while it is.            *)
ShowOrRead(b) == /\ phase[b] \in {"writing", "shown"}
                 /\ phase'[b] = "shown"
                 /\ phase[b] = "writing" => readers'[b] = {}

(* The last reference goes away: back to the pool or to the heap.          *)
Retire(b) == /\ phase'[b] = "idle"
             /\ readers'[b] = {}

(* One step of a thread may move several buffers: publishing a frame shows *)
(* it and retires the one it replaces.                                     *)
Next == /\ phase'   \in [Buf -> Phase]
        /\ readers' \in [Buf -> SUBSET Observer]
        /\ \A b \in Buf : LendOrWrite(b) \/ ShowOrRead(b) \/ Retire(b)

Spec == Init /\ [][Next]_<<phase, readers>>
=============================================================================
