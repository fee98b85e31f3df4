--------------------------- MODULE MCCaptureSaver ---------------------------
(* Instances of CaptureSaver.  A behaviour is about one of two things: the *)
(* threads, where both servers capture at any moment and flush is called,  *)
(* or the file names, which the worker alone gives: there one server makes *)
(* longer series of captures, of both kinds and of some of its cameras,    *)
(* and the next capture, start_cameras or switching of saving waits until  *)
(* the worker is done.                                                     *)
EXTENDS CaptureSaver

CONSTANTS s1, s2, c1, c2

VARIABLE about
MCVars == <<vars, about>>

TwoCams  == {c1, c2}
OneShot  == {{c1}}
SomeShot == {{c1}, {c1, c2}}
TwoKinds == {"trigger", "stack"}

Nothing == /\ queue = <<>> /\ ~busy
           /\ \A n \in Server : inbox[n] = {} /\ sender[n].pc = "idle"

Threads == /\ \A n \in Server : \A f \in inbox'[n] :
                f.kind = "trigger" /\ f.cam = c1 /\ f.capture_id = 1 /\ f.frame_id = 1
           /\ \A n \in Server : shots'[n].total <= 1

Names == /\ shots' # shots => Nothing /\ shots'[s2] = shots[s2]
         /\ \A f \in inbox'[s1] : f.kind = "stack" => f.cam = c1
         /\ enabled' # enabled => Nothing
         /\ Cardinality({f \in DOMAIN state' : state'[f] \in {"Failed", "NotSaved"}}) <= 1
         /\ flusher'.calls = 0 /\ dtor' = "alive"

(* One server without the restrictions.                                    *)
OverwriteSpec == Init /\ about = "names" /\ [][Next /\ UNCHANGED about]_MCVars

MCInit == Init /\ about \in {"threads", "names"}
MCNext == /\ Next /\ UNCHANGED about
          /\ IF about = "threads" THEN Threads ELSE Names

MCSpec == /\ MCInit /\ [][MCNext]_MCVars
          /\ WF_vars(SaveStep) /\ WF_vars(WorkerStep)
          /\ WF_vars(FlushStep) /\ WF_vars(DtorStep)
=============================================================================
