-------------------------- MODULE CaptureProtocol --------------------------
(***************************************************************************)
(* The capture bookkeeping of net/WebSocketClient.cpp: requests recorded   *)
(* by the thread that calls triggerCapture / stackCapture, and acks,       *)
(* refusals, frames, Open and Close handled by the connection's network    *)
(* thread.  Every critical section of meta_mu_ is one step; what happens   *)
(* between two of them (the load of connected_, ws_.send) is a step of its *)
(* own.                                                                    *)
(*                                                                         *)
(* External: the socket, a FIFO in each direction that loses its contents  *)
(* when it drops, and the server as the comments of WebSocketClient        *)
(* describe it.  It runs one capture of either kind at a time and answers  *)
(* the others with an error, sends a capture's result before its frames,   *)
(* one frame per entry of the result, and forgets a capture when its       *)
(* commander disconnects.                                                  *)
(***************************************************************************)
EXTENDS Integers, Sequences, FiniteSets, SequencesExt

CONSTANTS
  Kind,        \* the capture kinds the caller uses
  Cam,         \* the server's cameras
  IdMod,       \* 2^16: a frame carries the low bits of its capture's id
  MaxRequest,  \* bound: capture requests of one behaviour
  MaxConn      \* bound: connections of one behaviour

ASSUME CaptureAssumption ==
  /\ Kind # {} /\ Kind \subseteq {"trigger", "stack"} /\ IsFiniteSet(Cam)
  /\ IdMod \in Nat \ {0} /\ MaxRequest \in Nat /\ MaxConn \in Nat

VARIABLES
  connected,         \* connected_
  capture_requests,  \* kinds requested and neither acked nor refused
  capture_acked,     \* the acked capture: flag, kind, id, the cameras of its
  capture_kind,      \* entries and the number of frames received
  capture_id,
  capture_entries,
  capture_received,
  caller,            \* where the calling thread is in sendCaptureRequest
  net,               \* where the network thread is in onMessage
  up,                \* the socket is open
  toServer, toClient,
  server,            \* the server's capture
  asked, conns,      \* requests and connections so far
  lost               \* a request is with the server on this connection whose
                     \* record resetCaptures has cleared

capture == <<capture_requests, capture_acked, capture_kind, capture_id,
             capture_entries, capture_received>>
socket  == <<up, toServer, toClient, conns>>
vars    == <<connected, capture, caller, net, socket, server, asked, lost>>

Free == [state |-> "free", kind |-> "trigger", id |-> 0, left |-> {}]
Idle == [pc |-> "idle", kind |-> "trigger", recorded |-> FALSE]

(* captureProgress().in_progress.                                          *)
receiving  == capture_acked /\ capture_received < Cardinality(capture_entries)
InProgress == receiving \/ capture_requests # <<>>

(* What the server still owes an answer or a frame for.                    *)
Outstanding ==
  \/ toServer # <<>>
  \/ server.state # "free"
  \/ toClient # <<>>

-----------------------------------------------------------------------------
(* The caller decides to capture.  Client::runCapture and the panel's      *)
(* buttons wait until captureProgress says that nothing is under way; a    *)
(* direct user of WebSocketClient, as the e2e tests, may overlap a capture *)
(* of the same kind.  Nobody mixes kinds: a refusal, matched to the oldest *)
(* request, would then be booked on the wrong one.                         *)
decideAtOnce(k) ==
  /\ caller.pc = "idle" /\ asked < MaxRequest
  /\ asked' = asked + 1
  /\ caller' = [pc |-> "decided", kind |-> k, recorded |-> FALSE]
  /\ UNCHANGED <<connected, capture, net, socket, server, lost>>
decide(k) ==
  /\ caller.pc = "idle" /\ asked < MaxRequest
  /\ \/ ~InProgress
     \/ {capture_requests[i] : i \in DOMAIN capture_requests}
          \cup (IF receiving THEN {capture_kind} ELSE {}) = {k}
  /\ asked' = asked + 1
  /\ caller' = [pc |-> "decided", kind |-> k, recorded |-> FALSE]
  /\ UNCHANGED <<connected, capture, net, socket, server, lost>>

(* sendCaptureRequest: the request is recorded first.                      *)
noteCaptureRequested ==
  /\ caller.pc = "decided"
  /\ capture_requests' = Append(capture_requests, caller.kind)
  /\ caller' = [caller EXCEPT !.pc = "noted", !.recorded = TRUE]
  /\ UNCHANGED <<connected, capture_acked, capture_kind, capture_id, capture_entries,
                 capture_received, net, socket, server, asked, lost>>

(* sendCommand: the load of connected_ ...                                 *)
sendCommandCheck ==
  /\ caller.pc = "noted"
  /\ caller' = [caller EXCEPT !.pc = IF connected THEN "send" ELSE "undo"]
  /\ UNCHANGED <<connected, capture, net, socket, server, asked, lost>>

(* ... and ws_.send, which fails when the socket is not open.              *)
sendCommandSend ==
  /\ caller.pc = "send"
  /\ IF up
     THEN /\ toServer' = Append(toServer, caller.kind)
          /\ lost' = (lost \/ ~caller.recorded)
          /\ caller' = Idle
     ELSE /\ caller' = [caller EXCEPT !.pc = "undo"]
          /\ UNCHANGED <<toServer, lost>>
  /\ UNCHANGED <<connected, capture, net, up, toClient, conns, server, asked>>

(* A request that was not sent is taken back: the newest of its kind.      *)
undoNothing(reqs, k) == reqs
withoutNewest(reqs, k) ==
  LET at == {i \in 1..Len(reqs) : reqs[i] = k}
  IN  IF at = {} THEN reqs
      ELSE RemoveAt(reqs, CHOOSE i \in at : \A j \in at : j <= i)

undoRequest ==
  /\ caller.pc = "undo"
  /\ capture_requests' = withoutNewest(capture_requests, caller.kind)
  /\ caller' = Idle
  /\ UNCHANGED <<connected, capture_acked, capture_kind, capture_id, capture_entries,
                 capture_received, net, socket, server, asked, lost>>

-----------------------------------------------------------------------------
(* External: the server.                                                   *)
serverAccepts ==
  /\ up /\ toServer # <<>> /\ server.state = "free"
  /\ toServer' = Tail(toServer)
  /\ server' = [state |-> "taking", kind |-> Head(toServer),
                id |-> server.id + 1, left |-> {}]
  /\ UNCHANGED <<connected, capture, caller, net, up, toClient, conns, asked, lost>>

(* An overlapping request is always refused, another one may be (cameras   *)
(* not running, no raw stream).                                            *)
serverRefuses ==
  /\ up /\ toServer # <<>>
  /\ toServer' = Tail(toServer)
  /\ toClient' = Append(toClient, [type |-> "refusal", kind |-> Head(toServer),
                                   id |-> 0, cams |-> {}])
  /\ UNCHANGED <<connected, capture, caller, net, up, conns, server, asked, lost>>

(* The result names the cameras S whose frames follow: a cancelled trigger *)
(* has the ones that made it, a stack the ones without an error.           *)
serverResult(S) ==
  /\ up /\ server.state = "taking"
  /\ toClient' = Append(toClient, [type |-> "result", kind |-> server.kind,
                                   id |-> server.id, cams |-> S])
  /\ server' = [server EXCEPT !.state = IF S = {} THEN "free" ELSE "sending",
                              !.left = S]
  /\ UNCHANGED <<connected, capture, caller, net, up, toServer, conns, asked, lost>>

serverFrame(c) ==
  /\ up /\ server.state = "sending" /\ c \in server.left
  /\ toClient' = Append(toClient, [type |-> "frame", kind |-> server.kind,
                                   id |-> server.id % IdMod, cams |-> {c}])
  /\ server' = [server EXCEPT !.left = @ \ {c},
                              !.state = IF server.left = {c} THEN "free" ELSE @]
  /\ UNCHANGED <<connected, capture, caller, net, up, toServer, conns, asked, lost>>

(* External: the connection.  ixwebsocket calls the handler of a new state *)
(* before it reads another message.                                        *)
socketOpens ==
  /\ ~up /\ net = "idle" /\ conns < MaxConn
  /\ up' = TRUE /\ conns' = conns + 1 /\ net' = "open"
  /\ UNCHANGED <<connected, capture, caller, toServer, toClient, server, asked, lost>>

socketDrops ==
  /\ up /\ net = "idle"
  /\ up' = FALSE /\ net' = "close"
  /\ toServer' = <<>> /\ toClient' = <<>>
  /\ server' = [Free EXCEPT !.id = server.id]
  /\ lost' = FALSE
  /\ UNCHANGED <<connected, capture, caller, conns, asked>>

-----------------------------------------------------------------------------
(* onMessage, Open and Close: connected_ is stored first, the bookkeeping  *)
(* reset next.                                                             *)
storeConnected ==
  /\ net \in {"open", "close"}
  /\ connected' = (net = "open")
  /\ net' = "reset"
  /\ UNCHANGED <<capture, caller, socket, server, asked, lost>>

resetKeepsRequests ==
  /\ capture_acked' = FALSE /\ capture_entries' = {} /\ capture_received' = 0
  /\ UNCHANGED <<capture_requests, capture_kind, capture_id>>
clearCaptures ==
  /\ capture_requests' = <<>>
  /\ capture_acked' = FALSE /\ capture_entries' = {} /\ capture_received' = 0
  /\ UNCHANGED <<capture_kind, capture_id>>

resetCaptures ==
  /\ net = "reset" /\ net' = "idle"
  /\ clearCaptures
  /\ lost' = Outstanding
  /\ caller' = [caller EXCEPT !.recorded = FALSE]
  /\ UNCHANGED <<connected, socket, server, asked>>

(* handleText, trigger_result and stack_result, and noteCaptureAcked.      *)
noteCaptureAcked(k, i, cams) ==
  /\ capture_requests' = LET at == SelectInSeq(capture_requests, LAMBDA r : r = k)
                         IN  IF at = 0 THEN capture_requests
                             ELSE RemoveAt(capture_requests, at)
  /\ capture_acked' = TRUE /\ capture_kind' = k /\ capture_id' = i
  /\ capture_entries' = cams /\ capture_received' = 0

receives(type) ==
  /\ net = "idle" /\ up /\ toClient # <<>> /\ Head(toClient).type = type
  /\ toClient' = Tail(toClient)
  /\ UNCHANGED <<connected, caller, net, up, toServer, conns, server, asked, lost>>

handleResult ==
  /\ receives("result")
  /\ LET m == Head(toClient) IN noteCaptureAcked(m.kind, m.id, m.cams)

(* handleText, error: a refusal is taken for the oldest request.           *)
refusedOldest == capture_requests' = IF capture_requests = <<>> THEN <<>>
                                     ELSE Tail(capture_requests)

handleError ==
  /\ receives("refusal")
  /\ refusedOldest
  /\ UNCHANGED <<capture_acked, capture_kind, capture_id, capture_entries,
                 capture_received>>

(* onAssembled of a capture frame: matched to the acked capture by kind    *)
(* and the low bits of its id.                                             *)
matchedUncast(m) ==
  /\ capture_acked /\ m.kind = capture_kind /\ m.id = capture_id
  /\ capture_received < Cardinality(capture_entries)
matched(m) ==
  /\ capture_acked /\ m.kind = capture_kind /\ m.id = capture_id % IdMod
  /\ capture_received < Cardinality(capture_entries)

onAssembled ==
  /\ receives("frame")
  /\ capture_received' = IF matched(Head(toClient)) THEN capture_received + 1
                         ELSE capture_received
  /\ UNCHANGED <<capture_requests, capture_acked, capture_kind, capture_id,
                 capture_entries>>

-----------------------------------------------------------------------------
Init ==
  /\ connected = FALSE
  /\ capture_requests = <<>> /\ capture_acked = FALSE
  /\ capture_kind = "trigger" /\ capture_id = 0
  /\ capture_entries = {} /\ capture_received = 0
  /\ caller = Idle /\ net = "idle"
  /\ up = FALSE /\ toServer = <<>> /\ toClient = <<>>
  /\ server = Free /\ asked = 0 /\ conns = 0 /\ lost = FALSE

CallerStep == noteCaptureRequested \/ sendCommandCheck \/ sendCommandSend \/ undoRequest
ServerStep == \/ serverAccepts \/ serverRefuses
              \/ \E S \in SUBSET Cam : serverResult(S)
              \/ \E c \in Cam : serverFrame(c)
NetStep    == storeConnected \/ resetCaptures \/ handleResult \/ handleError \/ onAssembled

Next == \/ \E k \in Kind : decide(k)
        \/ CallerStep
        \/ ServerStep
        \/ socketOpens
        \/ socketDrops
        \/ NetStep

Spec == Init /\ [][Next]_vars

(* A call runs to its end, the network thread keeps handling what arrives  *)
(* and the server answers; requests and connections need not happen.       *)
FairSpec == Spec /\ WF_vars(CallerStep) /\ WF_vars(ServerStep) /\ WF_vars(NetStep)

-----------------------------------------------------------------------------
KindT   == {"trigger", "stack"}
Message == [type : {"result", "refusal", "frame"}, kind : KindT,
            id : Nat, cams : SUBSET Cam]

(* Types; in particular capture_received never passes the number of        *)
(* entries, on which the unsigned arithmetic of the panel's progress bar   *)
(* relies.                                                                 *)
TypeOK ==
  /\ connected \in BOOLEAN /\ up \in BOOLEAN /\ lost \in BOOLEAN
  /\ capture_requests \in Seq(KindT)
  /\ capture_acked \in BOOLEAN /\ capture_kind \in KindT
  /\ capture_id \in Nat /\ capture_entries \in SUBSET Cam
  /\ capture_received \in 0..Cardinality(capture_entries)
  /\ caller \in [pc : {"idle", "decided", "noted", "send", "undo"}, kind : KindT,
                 recorded : BOOLEAN]
  /\ net \in {"idle", "open", "close", "reset"}
  /\ toServer \in Seq(KindT) /\ toClient \in Seq(Message)
  /\ server \in [state : {"free", "taking", "sending"}, kind : KindT,
                 id : Nat, left : SUBSET Cam]
  /\ asked \in 0..MaxRequest /\ conns \in 0..MaxConn

(* captureProgress() says in progress as long as the server owes an answer *)
(* or a frame on this connection ("in progress from the moment it is       *)
(* requested until its last frame has arrived (or the server refused it)", *)
(* WebSocketClient.hpp:150), whatever requests overlap and however acks,   *)
(* refusals and frames interleave with them, as long as no request crossed *)
(* a resetCaptures.                                                        *)
InProgressWhileOutstanding == (Outstanding /\ ~lost) => InProgress

(* captureProgress() does not stay in progress on its own: when the server *)
(* owes nothing and neither thread is inside a handler, no record is left  *)
(* that only a reconnect could clear.                                      *)
NothingLeftBehind ==
  (~Outstanding /\ caller.pc = "idle" /\ net = "idle") => ~InProgress

(* A capture is in progress exactly as long as the server owes something.  *)
InProgressIffOutstanding == InProgressWhileOutstanding /\ NothingLeftBehind

(* Every capture frame finds the result that announced it: when the        *)
(* network thread is about to handle it, the acked capture is the frame's, *)
(* wants one more, and has an entry for its camera.                        *)
FrameFindsItsResult ==
  (net = "idle" /\ toClient # <<>> /\ Head(toClient).type = "frame")
    => /\ matched(Head(toClient))
       /\ Head(toClient).cams \subseteq capture_entries

(* A refusal is reported with the kind of the request the server refused   *)
(* (on_capture_refused_, which Client matches by kind), when the caller    *)
(* does not mix kinds and no record was lost.                              *)
RefusalNamesItsRequest ==
  (net = "idle" /\ ~lost /\ toClient # <<>> /\ Head(toClient).type = "refusal")
    => capture_requests # <<>> /\ Head(capture_requests) = Head(toClient).kind

(* A capture ends: the caller's wait for ~anyCaptureInProgress is not      *)
(* forever when the server answers.                                        *)
CaptureEnds == InProgress ~> ~InProgress

=============================================================================
