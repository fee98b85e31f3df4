--------------------------- MODULE ClientCapture ---------------------------
(***************************************************************************)
(* Client::runCapture of client/Client.cpp and the callbacks it meets: one *)
(* thread calls triggerCapture or stackCapture again and again, the        *)
(* network thread of each server reports results, refusals and frames.  A  *)
(* critical section of capture_mu_ is one step, the request to each server *)
(* is one step.                                                            *)
(*                                                                         *)
(* The bookkeeping of each WebSocketClient is kept here as far as          *)
(* captureInProgress shows it (module CaptureProtocol has it in full); it  *)
(* is updated before the callback runs, with nothing locked in between.    *)
(* External: the servers, which answer each request once.                  *)
(***************************************************************************)
EXTENDS Integers, FiniteSets

CONSTANTS
  Server,
  Kind,         \* capture kinds used
  NFrames,      \* the numbers of frames a result may announce
  MayRefuse,    \* whether servers refuse
  MayTimeOut,   \* whether a call may reach its deadline
  MaxCall,      \* bound: calls
  MaxConn       \* bound: connections per server

ASSUME ClientAssumption ==
  /\ NFrames \subseteq Nat /\ MayRefuse \in BOOLEAN /\ MayTimeOut \in BOOLEAN
  /\ MaxCall \in Nat /\ MaxConn \in Nat

VARIABLES
  connected,    \* per server
  conns,        \* per server, connections so far
  progress,     \* per server, what its WebSocketClient has outstanding:
                \* [phase, call, left]
  callback,     \* per server, the callback its network thread is about to make
  pending,      \* capture_pending_: server -> PendingServer, with the calls
                \* its frames belong to (from)
  active, kind, \* capture_active_ and capture_kind_
  caller        \* the calling thread: [pc, call, kind, todo, sent, complete]

vars == <<connected, conns, progress, callback, pending, active, kind, caller>>

None  == [type |-> "none", call |-> 0, kind |-> "trigger", n |-> 0]
Clear == [phase |-> "none", call |-> 0, kind |-> "trigger", left |-> 0]
PendingServer == [acked |-> FALSE, id |-> 0, expected |-> 0, frames |-> 0,
                  refused |-> FALSE, done |-> FALSE, from |-> {}]

(* MultiServerManager::anyCaptureInProgress.                               *)
anyCaptureInProgress == \E s \in Server : connected[s] /\ progress[s].phase # "none"

-----------------------------------------------------------------------------
(* External: connections.  Close and Open reset the bookkeeping.           *)
disconnect(s) ==
  /\ connected[s] /\ callback[s] = None
  /\ connected' = [connected EXCEPT ![s] = FALSE]
  /\ progress' = [progress EXCEPT ![s] = Clear]
  /\ UNCHANGED <<conns, callback, pending, active, kind, caller>>

connect(s) ==
  /\ ~connected[s] /\ conns[s] < MaxConn
  /\ connected' = [connected EXCEPT ![s] = TRUE]
  /\ conns' = [conns EXCEPT ![s] = @ + 1]
  /\ progress' = [progress EXCEPT ![s] = Clear]
  /\ UNCHANGED <<callback, pending, active, kind, caller>>

(* External: the answers, as WebSocketClient notes them.                   *)
arrives(s, type, n, after) ==
  /\ callback' = [callback EXCEPT ![s] =
                    [type |-> type, call |-> progress[s].call, kind |-> progress[s].kind, n |-> n]]
  /\ progress' = [progress EXCEPT ![s] = after]
  /\ UNCHANGED <<connected, conns, pending, active, kind, caller>>

refusalArrives(s) ==
  /\ MayRefuse /\ callback[s] = None /\ progress[s].phase = "requested"
  /\ arrives(s, "refusal", 0, Clear)

resultArrives(s, n) ==
  /\ callback[s] = None /\ progress[s].phase = "requested"
  /\ arrives(s, "result", n,
             IF n = 0 THEN Clear ELSE [progress[s] EXCEPT !.phase = "receiving", !.left = n])

frameArrives(s) ==
  /\ callback[s] = None /\ progress[s].phase = "receiving"
  /\ arrives(s, "frame", 0,
             IF progress[s].left = 1 THEN Clear ELSE [progress[s] EXCEPT !.left = @ - 1])

-----------------------------------------------------------------------------
(* The three callbacks.  They drop what the current call does not wait     *)
(* for: no call, another kind, a server it did not arm, or an answer that  *)
(* is already there.                                                       *)
awaited(s) == active /\ callback[s].kind = kind /\ s \in DOMAIN pending

takes(s, p) ==
  /\ pending' = [pending EXCEPT ![s] = p]
  /\ callback' = [callback EXCEPT ![s] = None]
  /\ UNCHANGED <<connected, conns, progress, active, kind, caller>>

drops(s) ==
  /\ callback' = [callback EXCEPT ![s] = None]
  /\ UNCHANGED <<connected, conns, progress, pending, active, kind, caller>>

doneOnAck(n) == TRUE
doneAtOnce(n) == n = 0

ackedWith(p, id, n) == [p EXCEPT !.acked = TRUE, !.id = id, !.expected = n,
                                 !.done = doneAtOnce(n)]

onCaptureResult(s) ==
  /\ callback[s].type = "result"
  /\ IF awaited(s) /\ ~pending[s].acked
     THEN takes(s, ackedWith(pending[s], callback[s].call, callback[s].n))
     ELSE drops(s)

onCaptureRefused(s) ==
  /\ callback[s].type = "refusal"
  /\ IF awaited(s) /\ ~pending[s].acked
     THEN takes(s, [pending[s] EXCEPT !.refused = TRUE, !.done = TRUE])
     ELSE drops(s)

onCaptureFrame(s) ==
  /\ callback[s].type = "frame"
  /\ IF /\ awaited(s) /\ pending[s].acked /\ ~pending[s].done
        /\ callback[s].call = pending[s].id
     THEN takes(s, [pending[s] EXCEPT !.frames = @ + 1, !.from = @ \cup {callback[s].call},
                                      !.done = pending[s].frames + 1 >= pending[s].expected])
     ELSE drops(s)

-----------------------------------------------------------------------------
(* runCapture.                                                             *)
call(k) ==
  /\ caller.pc = "idle" /\ caller.call < MaxCall
  /\ caller' = [pc |-> "wait", call |-> caller.call + 1, kind |-> k, todo |-> Server,
                sent |-> {}, complete |-> FALSE]
  /\ UNCHANGED <<connected, conns, progress, callback, pending, active, kind>>

(* waitUntil(!anyCaptureInProgress()), or its timeout.                     *)
clearAtOnce == TRUE
clearToArm  == ~anyCaptureInProgress

waitForEarlier ==
  /\ caller.pc = "wait"
  /\ \/ clearToArm /\ caller' = [caller EXCEPT !.pc = "arm"]
     \/ ~clearToArm /\ MayTimeOut /\ caller' = [caller EXCEPT !.pc = "returned"]
  /\ UNCHANGED <<connected, conns, progress, callback, pending, active, kind>>

arm ==
  /\ caller.pc = "arm"
  /\ pending' = [s \in {t \in Server : connected[t]} |-> PendingServer]
  /\ kind' = caller.kind /\ active' = TRUE
  /\ caller' = [caller EXCEPT !.pc = "send"]
  /\ UNCHANGED <<connected, conns, progress, callback>>

(* triggerCaptureAll / stackCaptureAll, one server after the other; stacks *)
(* only to the servers configured with raw, which here are all.            *)
send(s) ==
  /\ caller.pc = "send" /\ s \in caller.todo
  /\ caller' = [caller EXCEPT !.todo = @ \ {s},
                              !.sent = IF connected[s] THEN @ \cup {s} ELSE @]
  /\ progress' = IF connected[s]
                 THEN [progress EXCEPT ![s] = [phase |-> "requested", call |-> caller.call,
                                               kind |-> caller.kind, left |-> 0]]
                 ELSE progress
  /\ UNCHANGED <<connected, conns, callback, pending, active, kind>>

(* Servers that were armed but not sent to are taken out.                  *)
prune ==
  /\ caller.pc = "send" /\ caller.todo = {}
  /\ pending' = [s \in DOMAIN pending \cap caller.sent |-> pending[s]]
  /\ caller' = [caller EXCEPT !.pc = IF pending' = <<>> THEN "collect" ELSE "waitDone"]
  /\ UNCHANGED <<connected, conns, progress, callback, active, kind>>

(* capture_cv_.wait_until, and what is moved out in the same critical      *)
(* section; what `pending' was is kept until the caller is done with it.   *)
AllDone == \A s \in DOMAIN pending : pending[s].done

waitDone ==
  /\ caller.pc = "waitDone"
  /\ AllDone \/ MayTimeOut
  /\ active' = FALSE
  /\ caller' = [caller EXCEPT !.pc = "returned",
                  !.complete = AllDone /\ \A s \in DOMAIN pending : ~pending[s].refused]
  /\ UNCHANGED <<connected, conns, progress, callback, pending, kind>>

collectNothing ==
  /\ caller.pc = "collect"
  /\ active' = FALSE
  /\ caller' = [caller EXCEPT !.pc = "returned"]
  /\ UNCHANGED <<connected, conns, progress, callback, pending, kind>>

again ==
  /\ caller.pc = "returned"
  /\ caller' = [caller EXCEPT !.pc = "idle"]
  /\ pending' = <<>>
  /\ UNCHANGED <<connected, conns, progress, callback, active, kind>>

-----------------------------------------------------------------------------
Init ==
  /\ connected = [s \in Server |-> TRUE] /\ conns = [s \in Server |-> 1]
  /\ progress = [s \in Server |-> Clear] /\ callback = [s \in Server |-> None]
  /\ pending = <<>> /\ active = FALSE /\ kind = "trigger"
  /\ caller = [pc |-> "idle", call |-> 0, kind |-> "trigger", todo |-> {}, sent |-> {},
               complete |-> FALSE]

Next ==
  \/ \E s \in Server :
       \/ disconnect(s) \/ connect(s)
       \/ refusalArrives(s) \/ (\E n \in NFrames : resultArrives(s, n)) \/ frameArrives(s)
       \/ onCaptureResult(s) \/ onCaptureRefused(s) \/ onCaptureFrame(s)
       \/ send(s)
  \/ \E k \in Kind : call(k)
  \/ waitForEarlier \/ arm \/ prune \/ waitDone \/ collectNothing \/ again

Spec == Init /\ [][Next]_vars

-----------------------------------------------------------------------------
(* Types; frames kept never exceed the frames announced.                   *)
TypeOK ==
  /\ connected \in [Server -> BOOLEAN] /\ active \in BOOLEAN
  /\ DOMAIN pending \subseteq Server
  /\ \A s \in DOMAIN pending :
       /\ pending[s].frames \in 0..pending[s].expected
       /\ pending[s].from \subseteq 1..MaxCall
  /\ \A s \in Server : /\ progress[s].phase \in {"none", "requested", "receiving"}
                       /\ callback[s].type \in {"none", "result", "refusal", "frame"}
  /\ caller.pc \in {"idle", "wait", "arm", "send", "waitDone", "collect", "returned"}
  /\ caller.call \in 0..MaxCall /\ caller.sent \subseteq Server

(* A call returns its own frames: no frame of an earlier call, one that    *)
(* timed out or was answered late, is taken for this one's ("a late result *)
(* of it could be taken for this one's; let it finish first",              *)
(* Client.cpp:239).  The wait of runCapture ends when the bookkeeping of   *)
(* WebSocketClient is clear, before the last callback has run, so this is  *)
(* all it gives: a late refusal or a result without frames still slips in. *)
OwnFrames == \A s \in DOMAIN pending : pending[s].from \subseteq {caller.call}

(* Server s has delivered all of this call, and has nothing of it left.    *)
Delivered(s) ==
  /\ pending[s].acked /\ pending[s].frames = pending[s].expected
  /\ ~(progress[s].phase # "none" /\ progress[s].call = caller.call)

(* What was taken for s's answer is the result of an earlier call, and one *)
(* without frames: it was noted, so that the wait ended, before its        *)
(* callback ran.                                                           *)
TakenLate(s) ==
  pending[s].acked /\ pending[s].id # caller.call /\ pending[s].expected = 0

(* `complete' is said only of a call that got everything it waited for:    *)
(* each server it armed and sent to has acked this request and all the     *)
(* frames of it are in the outcome, none still on their way.  The one way  *)
(* round it is a late result without frames.                               *)
CompleteMeansDelivered ==
  (caller.pc = "returned" /\ caller.complete)
    => caller.sent # {} /\ \A s \in DOMAIN pending : Delivered(s) \/ TakenLate(s)
=============================================================================
