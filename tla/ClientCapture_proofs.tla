------------------------ MODULE ClientCapture_proofs ------------------------
(***************************************************************************)
(* Proofs about runCapture (ClientCapture), for every set of servers, any  *)
(* number of calls, connections and frames.                                *)
(*                                                                         *)
(* Neither property is inductive.  What a call collects is its own only    *)
(* because of what the wait at its start leaves behind: from then on each  *)
(* capture a server has under way is the call's, and a callback that was   *)
(* on its way already can only be the last of an earlier capture, whose    *)
(* result has no frames to come.                                           *)
(***************************************************************************)
EXTENDS ClientCapture, TLAPS

Kinds == Kind \cup {"trigger"}
Armed == {"send", "waitDone", "collect"}

Progress == [phase : {"none", "requested", "receiving"}, call : Nat, kind : Kinds, left : Nat]
Callback == [type : {"none", "result", "refusal", "frame"}, call : Nat, kind : Kinds, n : Nat]
Entry    == [acked : BOOLEAN, id : Nat, expected : Nat, frames : Nat, refused : BOOLEAN,
             done : BOOLEAN, from : SUBSET Nat]

TypeInv ==
  /\ connected \in [Server -> BOOLEAN]
  /\ progress \in [Server -> Progress] /\ callback \in [Server -> Callback]
  /\ DOMAIN pending \subseteq Server /\ pending \in [DOMAIN pending -> Entry]
  /\ active \in BOOLEAN /\ kind \in Kinds
  /\ caller \in [pc : {"idle", "wait", "arm", "returned"} \cup Armed, call : Nat, kind : Kinds,
                 todo : SUBSET Server, sent : SUBSET Server, complete : BOOLEAN]

(* A result with frames to come keeps its server in progress until its     *)
(* callback has run.                                                       *)
Answering(s) ==
  /\ callback[s].type = "result" /\ callback[s].n > 0
       => /\ progress[s].phase = "receiving" /\ progress[s].call = callback[s].call
          /\ progress[s].left = callback[s].n
  /\ progress[s].phase = "receiving" => progress[s].left > 0
  /\ progress[s].phase # "none" => connected[s]

(* What the wait of runCapture leaves to the call.                         *)
Ours(s) ==
  /\ caller.pc = "arm" => progress[s].phase = "none"
  /\ caller.pc = "send" /\ s \in caller.todo => progress[s].phase = "none"
  /\ caller.pc \in Armed /\ progress[s].phase # "none"
       => progress[s].call = caller.call /\ progress[s].kind = caller.kind

Armament ==
  /\ active <=> caller.pc \in Armed
  /\ active => kind = caller.kind
  /\ caller.pc \in {"idle", "wait", "arm"} => DOMAIN pending = {}

Booked(p) ==
  /\ p.from \subseteq {caller.call}
  /\ p.acked /\ ~p.done => p.id = caller.call
  /\ ~p.acked => p.frames = 0 /\ (p.done => p.refused)
  /\ p.acked => p.frames <= p.expected /\ (p.done <=> p.frames = p.expected)

OwnInv ==
  /\ TypeInv
  /\ \A s \in Server : Answering(s) /\ Ours(s)
  /\ Armament
  /\ \A s \in DOMAIN pending : Booked(pending[s])

LEMMA OwnInvInit == Init => OwnInv
<1> SUFFICES ASSUME Init PROVE OwnInv
  OBVIOUS
<1>0. DOMAIN pending = {} /\ pending \in [DOMAIN pending -> Entry]
  BY DEF Init
<1>1. TypeInv
  BY <1>0 DEF Init, TypeInv, Progress, Callback, Clear, None, Kinds, Armed
<1>2. \A s \in Server : Answering(s) /\ Ours(s)
  BY DEF Init, Answering, Ours, Clear, None, Armed
<1>3. Armament /\ DOMAIN pending = {}
  BY <1>0 DEF Init, Armament, Armed
<1>4. QED
  BY <1>1, <1>2, <1>3 DEF OwnInv

(* A step that leaves the calling thread and what it collects alone.       *)
LEMMA NetworkStep ==
  ASSUME OwnInv, TypeInv', UNCHANGED <<pending, active, kind, caller>>,
         NEW s \in Server, Answering(s)', Ours(s)',
         \A t \in Server \ {s} : /\ connected'[t] = connected[t] /\ progress'[t] = progress[t]
                                 /\ callback'[t] = callback[t]
  PROVE  OwnInv'
<1>1. \A t \in Server \ {s} : (Answering(t) /\ Ours(t))'
  BY DEF OwnInv, Answering, Ours
<1>2. Armament' /\ \A t \in DOMAIN pending' : Booked(pending[t])'
  BY DEF OwnInv, Armament, Booked
<1>3. QED
  BY <1>1, <1>2 DEF OwnInv

LEMMA ConnectionKeeps ==
  ASSUME OwnInv, NEW s \in Server, disconnect(s) \/ connect(s)
  PROVE  OwnInv'
<1>1. UNCHANGED <<callback, pending, active, kind, caller>>
      /\ progress' = [progress EXCEPT ![s] = Clear]
      /\ \E b \in BOOLEAN : connected' = [connected EXCEPT ![s] = b]
  BY DEF disconnect, connect
<1>2. TypeInv'
  BY <1>1 DEF OwnInv, TypeInv, Progress, Clear, Kinds
<1>3. progress'[s] = Clear
  BY <1>1 DEF OwnInv, TypeInv
<1>4. ~(callback[s].type = "result" /\ callback[s].n > 0)
  <2>1. CASE disconnect(s)
    BY <2>1 DEF disconnect, None
  <2>2. CASE connect(s)
    <3>1. ~connected[s]
      BY <2>2 DEF connect
    <3>2. progress[s].phase = "none"
      BY <3>1 DEF OwnInv, Answering
    <3>3. QED
      BY <3>2 DEF OwnInv, Answering
  <2>3. QED
    BY <2>1, <2>2
<1>5. Answering(s)' /\ Ours(s)'
  BY <1>1, <1>3, <1>4 DEF Answering, Ours, Clear
<1>6. \A t \in Server \ {s} : /\ connected'[t] = connected[t] /\ progress'[t] = progress[t]
                              /\ callback'[t] = callback[t]
  BY <1>1 DEF OwnInv, TypeInv
<1>7. QED
  BY <1>1, <1>2, <1>5, <1>6, NetworkStep

(* An answer arrives, and leaves `after' of the server's bookkeeping.      *)
LEMMA ArrivalStep ==
  ASSUME OwnInv, NEW s \in Server, NEW type \in {"result", "refusal", "frame"}, NEW n \in Nat,
         NEW after \in Progress, arrives(s, type, n, after), progress[s].phase # "none",
         after.phase = "receiving" => after.left > 0,
         type = "result" /\ n > 0 => after.phase = "receiving" /\ after.left = n,
         after.phase # "none" => after.call = progress[s].call /\ after.kind = progress[s].kind
  PROVE  OwnInv'
<1>. DEFINE cb == [type |-> type, call |-> progress[s].call, kind |-> progress[s].kind, n |-> n]
<1>2. /\ callback' = [callback EXCEPT ![s] = cb]
      /\ progress' = [progress EXCEPT ![s] = after]
      /\ UNCHANGED <<connected, conns, pending, active, kind, caller>>
  BY DEF arrives
<1>3. progress[s] \in Progress
  BY DEF OwnInv, TypeInv
<1>4. cb \in Callback
  BY <1>3 DEF Progress, Callback
<1>5. cb.type = type /\ cb.n = n /\ cb.call = progress[s].call
  OBVIOUS
<1>. HIDE DEF cb
<1>6. progress'[s] = after /\ callback'[s] = cb
  BY <1>2 DEF OwnInv, TypeInv
<1>7. TypeInv'
  BY <1>2, <1>4 DEF OwnInv, TypeInv
<1>8. Answering(s)'
  <2>1. connected'[s]
    BY <1>2 DEF OwnInv, Answering
  <2>2. QED
    BY <1>5, <1>6, <2>1 DEF Answering
<1>9. Ours(s)'
  BY <1>2, <1>6 DEF OwnInv, Ours
<1>10. \A t \in Server \ {s} : /\ connected'[t] = connected[t] /\ progress'[t] = progress[t]
                               /\ callback'[t] = callback[t]
  BY <1>2 DEF OwnInv, TypeInv
<1>11. QED
  BY <1>2, <1>7, <1>8, <1>9, <1>10, NetworkStep

LEMMA ArrivalKeeps ==
  ASSUME OwnInv, NEW s \in Server,
         refusalArrives(s) \/ (\E n \in NFrames : resultArrives(s, n)) \/ frameArrives(s)
  PROVE  OwnInv'
<1>1. /\ progress[s] \in Progress
      /\ progress[s].phase = "receiving" => progress[s].left > 0
  BY DEF OwnInv, TypeInv, Answering
<1>2. Clear \in Progress /\ Clear.phase = "none"
  BY DEF Clear, Progress, Kinds
<1>3. CASE refusalArrives(s)
  <2>1. arrives(s, "refusal", 0, Clear) /\ progress[s].phase = "requested"
    BY <1>3 DEF refusalArrives
  <2>2. QED
    BY <1>2, <2>1, ArrivalStep
<1>4. ASSUME NEW n \in NFrames, resultArrives(s, n)
      PROVE  OwnInv'
  <2>. DEFINE after == [progress[s] EXCEPT !.phase = "receiving", !.left = n]
  <2>1. n \in Nat
    BY ClientAssumption
  <2>2. arrives(s, "result", n, IF n = 0 THEN Clear ELSE after) /\ progress[s].phase = "requested"
    BY <1>4 DEF resultArrives
  <2>3. /\ after \in Progress /\ after.phase = "receiving" /\ after.left = n
        /\ after.call = progress[s].call /\ after.kind = progress[s].kind
    BY <1>1, <2>1 DEF Progress
  <2>. HIDE DEF after
  <2>4. CASE n = 0
    <3>1. arrives(s, "result", 0, Clear)
      BY <2>2, <2>4
    <3>2. QED
      BY <1>2, <2>2, <3>1, ArrivalStep
  <2>5. CASE n # 0
    <3>1. arrives(s, "result", n, after)
      BY <2>2, <2>5
    <3>2. n > 0
      BY <2>1, <2>5
    <3>3. QED
      BY <2>1, <2>2, <2>3, <3>1, <3>2, ArrivalStep
  <2>6. QED
    BY <2>4, <2>5
<1>5. CASE frameArrives(s)
  <2>. DEFINE after == [progress[s] EXCEPT !.left = @ - 1]
  <2>1. arrives(s, "frame", 0, IF progress[s].left = 1 THEN Clear ELSE after)
        /\ progress[s].phase = "receiving"
    BY <1>5 DEF frameArrives
  <2>2. CASE progress[s].left = 1
    <3>1. arrives(s, "frame", 0, Clear)
      BY <2>1, <2>2
    <3>2. QED
      BY <1>2, <2>1, <3>1, ArrivalStep
  <2>3. CASE progress[s].left # 1
    <3>1. arrives(s, "frame", 0, after)
      BY <2>1, <2>3
    <3>2. /\ after \in Progress /\ after.phase = "receiving" /\ after.left > 0
          /\ after.call = progress[s].call /\ after.kind = progress[s].kind
      BY <1>1, <2>1, <2>3 DEF Progress
    <3>. HIDE DEF after
    <3>3. QED
      BY <2>1, <3>1, <3>2, ArrivalStep
  <2>4. QED
    BY <2>2, <2>3
<1>6. QED
  BY <1>3, <1>4, <1>5

(* A callback that leaves p of a server's entry.                           *)
LEMMA CallbackStep ==
  ASSUME OwnInv, NEW s \in Server, callback[s].type # "none",
         \/ drops(s)
         \/ /\ s \in DOMAIN pending
            /\ \E p \in Entry : takes(s, p) /\ Booked(p)
  PROVE  OwnInv'
<1>1. /\ callback' = [callback EXCEPT ![s] = None]
      /\ UNCHANGED <<connected, conns, progress, active, kind, caller>>
  BY DEF drops, takes
<1>2. None \in Callback /\ None.type = "none"
  BY DEF None, Callback, Kinds
<1>3. callback' \in [Server -> Callback] /\ callback'[s] = None
      /\ \A t \in Server \ {s} : callback'[t] = callback[t]
  BY <1>1, <1>2 DEF OwnInv, TypeInv
<1>4. /\ DOMAIN pending' = DOMAIN pending
      /\ pending' \in [DOMAIN pending -> Entry]
      /\ \A t \in DOMAIN pending : Booked(pending'[t])
  <2>1. CASE drops(s)
    BY <2>1 DEF drops, OwnInv, TypeInv
  <2>2. ASSUME s \in DOMAIN pending, NEW p \in Entry, takes(s, p), Booked(p)
        PROVE  <1>4
    <3>1. pending' = [pending EXCEPT ![s] = p]
      BY <2>2 DEF takes
    <3>2. QED
      BY <2>2, <3>1 DEF OwnInv, TypeInv
  <2>3. QED
    BY <2>1, <2>2
<1>5. TypeInv'
  BY <1>1, <1>3, <1>4 DEF OwnInv, TypeInv
<1>6. \A t \in Server : (Answering(t) /\ Ours(t))'
  BY <1>1, <1>2, <1>3 DEF OwnInv, Answering, Ours
<1>7. Armament'
  BY <1>1, <1>4 DEF OwnInv, Armament
<1>8. \A t \in DOMAIN pending' : Booked(pending[t])'
  BY <1>1, <1>4 DEF Booked
<1>9. QED
  BY <1>5, <1>6, <1>7, <1>8 DEF OwnInv

LEMMA EntryWith ==
  ASSUME NEW p \in Entry, NEW n \in Nat, NEW F \in SUBSET Nat, NEW b \in BOOLEAN
  PROVE  [p EXCEPT !.frames = n, !.from = F, !.done = b] \in Entry
BY DEF Entry

LEMMA CallbackKeeps ==
  ASSUME OwnInv, NEW s \in Server,
         onCaptureResult(s) \/ onCaptureRefused(s) \/ onCaptureFrame(s)
  PROVE  OwnInv'
<1>1. callback[s] \in Callback /\ Answering(s) /\ Ours(s)
  BY DEF OwnInv, TypeInv
<1>2. ASSUME awaited(s)
      PROVE  /\ s \in DOMAIN pending /\ pending[s] \in Entry /\ Booked(pending[s])
             /\ caller.pc \in Armed /\ caller.call \in Nat
  BY <1>2 DEF awaited, OwnInv, TypeInv, Armament
<1>. DEFINE p == pending[s]
<1>3. CASE onCaptureResult(s)
  <2>. DEFINE q == ackedWith(p, callback[s].call, callback[s].n)
  <2>1. callback[s].type = "result"
        /\ IF awaited(s) /\ ~p.acked THEN takes(s, q) ELSE drops(s)
    BY <1>3 DEF onCaptureResult
  <2>2. ASSUME awaited(s), ~p.acked
        PROVE  q \in Entry /\ Booked(q)
    <3>1. /\ q.acked /\ q.id = callback[s].call /\ q.expected = callback[s].n
          /\ (q.done <=> callback[s].n = 0) /\ q.from = p.from /\ q.frames = p.frames
          /\ q \in Entry
      BY <1>1, <1>2, <2>2 DEF ackedWith, doneAtOnce, Entry, Callback
    <3>. HIDE DEF q
    <3>2. callback[s].n \in Nat
      BY <1>1 DEF Callback
    <3>3. p.frames = 0 /\ p.from \subseteq {caller.call}
      BY <1>2, <2>2 DEF Booked
    <3>4. callback[s].n > 0 => callback[s].call = caller.call
      BY <1>1, <1>2, <2>1, <2>2 DEF Answering, Ours
    <3>5. QED
      BY <3>1, <3>2, <3>3, <3>4 DEF Booked
  <2>3. QED
    BY <1>2, <2>1, <2>2, CallbackStep
<1>4. CASE onCaptureRefused(s)
  <2>. DEFINE q == [p EXCEPT !.refused = TRUE, !.done = TRUE]
  <2>1. callback[s].type = "refusal"
        /\ IF awaited(s) /\ ~p.acked THEN takes(s, q) ELSE drops(s)
    BY <1>4 DEF onCaptureRefused
  <2>2. ASSUME awaited(s), ~p.acked
        PROVE  q \in Entry /\ Booked(q)
    <3>1. /\ ~q.acked /\ q.refused /\ q.from = p.from /\ q.frames = p.frames
          /\ q \in Entry
      BY <1>2, <2>2 DEF Entry
    <3>. HIDE DEF q
    <3>2. QED
      BY <1>2, <2>2, <3>1 DEF Booked
  <2>3. QED
    BY <1>2, <2>1, <2>2, CallbackStep
<1>5. CASE onCaptureFrame(s)
  <2>. DEFINE last == p.frames + 1 >= p.expected
              q == [p EXCEPT !.frames = @ + 1, !.from = @ \cup {callback[s].call}, !.done = last]
  <2>1. callback[s].type = "frame"
        /\ IF awaited(s) /\ p.acked /\ ~p.done /\ callback[s].call = p.id
           THEN takes(s, q) ELSE drops(s)
    BY <1>5 DEF onCaptureFrame
  <2>2. ASSUME awaited(s), p.acked, ~p.done, callback[s].call = p.id
        PROVE  q \in Entry /\ Booked(q)
    <3>0. callback[s].call \in Nat /\ p \in Entry
      BY <1>1, <1>2, <2>2 DEF Callback
    <3>a. last \in BOOLEAN /\ (last <=> p.frames + 1 >= p.expected)
      OBVIOUS
    <3>. HIDE DEF last
    <3>1. /\ q.acked /\ q.id = p.id /\ q.from = p.from \cup {callback[s].call}
          /\ q.frames = p.frames + 1 /\ q.expected = p.expected
          /\ q.done = last /\ p.frames \in Nat /\ p.expected \in Nat
      BY <2>2, <3>0 DEF Entry
    <3>2. q \in Entry
      <4>1. p.from \cup {callback[s].call} \in SUBSET Nat /\ p.frames + 1 \in Nat
        BY <3>0 DEF Entry
      <4>2. QED
        BY <3>0, <3>a, <4>1, EntryWith
    <3>3. p.id = caller.call /\ p.from \subseteq {caller.call} /\ p.frames <= p.expected
          /\ p.frames # p.expected
      BY <1>2, <2>2 DEF Booked
    <3>. HIDE DEF q
    <3>4. q.frames <= q.expected /\ (q.done <=> q.frames = q.expected)
      BY <3>1, <3>3, <3>a
    <3>5. q.from \subseteq {caller.call}
      BY <2>2, <3>1, <3>3
    <3>6. QED
      BY <3>1, <3>2, <3>3, <3>4, <3>5 DEF Booked
  <2>3. QED
    BY <1>2, <2>1, <2>2, CallbackStep
<1>6. QED
  BY <1>3, <1>4, <1>5

(* The calling thread.                                                     *)
LEMMA CallerKeeps ==
  ASSUME OwnInv,
         \/ \E k \in Kind : call(k)
         \/ waitForEarlier \/ arm \/ prune \/ waitDone \/ collectNothing \/ again
         \/ \E s \in Server : send(s)
  PROVE  OwnInv'
<1>0. caller.call \in Nat /\ caller.call + 1 \in Nat
  BY DEF OwnInv, TypeInv
<1>1. ASSUME NEW k \in Kind, call(k)
      PROVE  OwnInv'
  <2>1. /\ caller' = [pc |-> "wait", call |-> caller.call + 1, kind |-> k, todo |-> Server,
                      sent |-> {}, complete |-> FALSE]
        /\ UNCHANGED <<connected, conns, progress, callback, pending, active, kind>>
        /\ caller.pc = "idle"
    BY <1>1 DEF call
  <2>2. TypeInv'
    BY <1>0, <2>1 DEF OwnInv, TypeInv, Kinds
  <2>3. caller'.pc = "wait"
    BY <2>1
  <2>4. DOMAIN pending = {} /\ ~active
    BY <2>1 DEF OwnInv, Armament, Armed
  <2>5. Armament' /\ \A s \in Server : (Answering(s) /\ Ours(s))'
    BY <2>1, <2>3, <2>4 DEF OwnInv, Armament, Answering, Ours, Armed
  <2>6. QED
    BY <2>1, <2>2, <2>4, <2>5 DEF OwnInv
<1>2. CASE waitForEarlier
  <2>1. UNCHANGED <<connected, conns, progress, callback, pending, active, kind>>
        /\ caller.pc = "wait"
    BY <1>2 DEF waitForEarlier
  <2>2. PICK pc \in {"arm", "returned"} :
          caller' = [caller EXCEPT !.pc = pc] /\ (pc = "arm" => clearToArm)
    BY <1>2 DEF waitForEarlier
  <2>3. TypeInv'
    BY <2>1, <2>2 DEF OwnInv, TypeInv
  <2>4. caller'.pc = pc
    BY <2>2 DEF OwnInv, TypeInv
  <2>5. DOMAIN pending = {} /\ ~active
    BY <2>1 DEF OwnInv, Armament, Armed
  <2>6. pc = "arm" => \A s \in Server : progress[s].phase = "none"
    BY <2>2 DEF clearToArm, anyCaptureInProgress, OwnInv, Answering
  <2>7. Armament' /\ \A s \in Server : (Answering(s) /\ Ours(s))'
    BY <2>1, <2>4, <2>5, <2>6 DEF OwnInv, Armament, Answering, Ours, Armed
  <2>8. QED
    BY <2>1, <2>3, <2>5, <2>7 DEF OwnInv
<1>3. CASE arm
  <2>1. /\ caller.pc = "arm" /\ caller' = [caller EXCEPT !.pc = "send"]
        /\ kind' = caller.kind /\ active' = TRUE
        /\ pending' = [s \in {t \in Server : connected[t]} |-> PendingServer]
        /\ UNCHANGED <<connected, conns, progress, callback>>
    BY <1>3 DEF arm
  <2>2. PendingServer \in Entry
    BY DEF PendingServer, Entry
  <2>3. /\ caller'.pc = "send" /\ caller'.kind = caller.kind /\ caller'.call = caller.call
        /\ caller.kind \in Kinds
        /\ caller' \in [pc : {"idle", "wait", "arm", "returned"} \cup Armed, call : Nat,
                        kind : Kinds, todo : SUBSET Server, sent : SUBSET Server,
                        complete : BOOLEAN]
    BY <2>1 DEF OwnInv, TypeInv, Armed
  <2>4. TypeInv'
    BY <2>1, <2>2, <2>3 DEF OwnInv, TypeInv
  <2>5. \A s \in Server : progress[s].phase = "none"
    BY <2>1 DEF OwnInv, Ours
  <2>6. \A s \in Server : (Answering(s) /\ Ours(s))'
    BY <2>1, <2>3, <2>5 DEF OwnInv, Answering, Ours, Armed
  <2>7. Armament'
    BY <2>1, <2>3 DEF Armament, Armed
  <2>8. \A s \in DOMAIN pending' : Booked(pending[s])'
    BY <2>1 DEF Booked, PendingServer
  <2>9. QED
    BY <2>4, <2>6, <2>7, <2>8 DEF OwnInv
<1>4. ASSUME NEW s \in Server, send(s)
      PROVE  OwnInv'
  <2>. DEFINE r == [phase |-> "requested", call |-> caller.call, kind |-> caller.kind, left |-> 0]
              sent == IF connected[s] THEN caller.sent \cup {s} ELSE caller.sent
  <2>1. /\ caller.pc = "send" /\ s \in caller.todo
        /\ caller' = [caller EXCEPT !.todo = @ \ {s}, !.sent = sent]
        /\ progress' = IF connected[s] THEN [progress EXCEPT ![s] = r] ELSE progress
        /\ UNCHANGED <<connected, conns, callback, pending, active, kind>>
    BY <1>4 DEF send
  <2>2. r \in Progress /\ r.phase = "requested" /\ r.call = caller.call /\ r.kind = caller.kind
    BY DEF OwnInv, TypeInv, Progress
  <2>3. sent \in SUBSET Server
    BY DEF OwnInv, TypeInv
  <2>. HIDE DEF r, sent
  <2>4. /\ caller'.pc = "send" /\ caller'.call = caller.call /\ caller'.kind = caller.kind
        /\ caller'.todo = caller.todo \ {s}
    BY <2>1 DEF OwnInv, TypeInv
  <2>5. TypeInv'
    BY <2>1, <2>2, <2>3 DEF OwnInv, TypeInv
  <2>6. \A t \in Server \ {s} : progress'[t] = progress[t]
    BY <2>1 DEF OwnInv, TypeInv
  <2>7. progress'[s] = IF connected[s] THEN r ELSE progress[s]
    BY <2>1 DEF OwnInv, TypeInv
  <2>8. progress[s].phase = "none"
    BY <2>1 DEF OwnInv, Ours
  <2>9. (Answering(s) /\ Ours(s))'
    BY <2>1, <2>2, <2>4, <2>7, <2>8 DEF OwnInv, Answering, Ours, Armed
  <2>10. \A t \in Server \ {s} : (Answering(t) /\ Ours(t))'
    BY <2>1, <2>4, <2>6 DEF OwnInv, Answering, Ours, Armed
  <2>11. Armament' /\ \A t \in DOMAIN pending' : Booked(pending[t])'
    BY <2>1, <2>4 DEF OwnInv, Armament, Booked
  <2>12. QED
    BY <2>5, <2>9, <2>10, <2>11 DEF OwnInv
<1>5. CASE prune
  <2>. DEFINE pc == IF pending' = <<>> THEN "collect" ELSE "waitDone"
  <2>1. /\ caller.pc = "send" /\ caller' = [caller EXCEPT !.pc = pc]
        /\ pending' = [s \in DOMAIN pending \cap caller.sent |-> pending[s]]
        /\ UNCHANGED <<connected, conns, progress, callback, active, kind>>
    BY <1>5 DEF prune
  <2>2. pc \in {"collect", "waitDone"}
    OBVIOUS
  <2>. HIDE DEF pc
  <2>3. caller'.pc = pc /\ caller'.call = caller.call /\ caller'.kind = caller.kind
    BY <2>1 DEF OwnInv, TypeInv
  <2>4. TypeInv'
    BY <2>1, <2>2 DEF OwnInv, TypeInv, Armed
  <2>5. \A s \in Server : (Answering(s) /\ Ours(s))'
    BY <2>1, <2>2, <2>3 DEF OwnInv, Answering, Ours, Armed
  <2>6. Armament'
    BY <2>1, <2>2, <2>3 DEF OwnInv, Armament, Armed
  <2>7. \A s \in DOMAIN pending' : Booked(pending[s])'
    BY <2>1, <2>3 DEF OwnInv, Booked
  <2>8. QED
    BY <2>4, <2>5, <2>6, <2>7 DEF OwnInv
<1>6. CASE waitDone \/ collectNothing
  <2>1. /\ caller.pc \in Armed /\ active' = FALSE
        /\ \E b \in BOOLEAN : caller' = [caller EXCEPT !.pc = "returned", !.complete = b]
        /\ UNCHANGED <<connected, conns, progress, callback, pending, kind>>
    <3>1. CASE waitDone
      <4>. DEFINE b == AllDone /\ \A s \in DOMAIN pending : ~pending[s].refused
      <4>1. caller' = [caller EXCEPT !.pc = "returned", !.complete = b]
        BY <3>1 DEF waitDone
      <4>2. b \in BOOLEAN
        BY DEF AllDone
      <4>. HIDE DEF b
      <4>3. QED
        BY <3>1, <4>1, <4>2 DEF waitDone, Armed
    <3>2. CASE collectNothing
      <4>1. caller' = [caller EXCEPT !.pc = "returned"] /\ caller.complete \in BOOLEAN
        BY <3>2 DEF collectNothing, OwnInv, TypeInv
      <4>2. caller' = [caller EXCEPT !.pc = "returned", !.complete = caller.complete]
        BY <4>1 DEF OwnInv, TypeInv
      <4>3. QED
        BY <3>2, <4>1, <4>2 DEF collectNothing, Armed
    <3>3. QED
      BY <1>6, <3>1, <3>2
  <2>2. caller'.pc = "returned" /\ caller'.call = caller.call
    BY <2>1 DEF OwnInv, TypeInv
  <2>3. TypeInv'
    BY <2>1 DEF OwnInv, TypeInv
  <2>4. \A s \in Server : (Answering(s) /\ Ours(s))'
    BY <2>1, <2>2 DEF OwnInv, Answering, Ours, Armed
  <2>5. Armament' /\ \A s \in DOMAIN pending' : Booked(pending[s])'
    BY <2>1, <2>2 DEF OwnInv, Armament, Booked, Armed
  <2>6. QED
    BY <2>3, <2>4, <2>5 DEF OwnInv
<1>7. CASE again
  <2>1. /\ caller.pc = "returned" /\ caller' = [caller EXCEPT !.pc = "idle"] /\ pending' = <<>>
        /\ UNCHANGED <<connected, conns, progress, callback, active, kind>>
    BY <1>7 DEF again
  <2>2. DOMAIN pending' = {} /\ pending' \in [DOMAIN pending' -> Entry]
    BY <2>1
  <2>3. caller'.pc = "idle"
    BY <2>1 DEF OwnInv, TypeInv
  <2>4. TypeInv'
    BY <2>1, <2>2 DEF OwnInv, TypeInv
  <2>5. ~active
    BY <2>1 DEF OwnInv, Armament, Armed
  <2>6. Armament' /\ \A s \in Server : (Answering(s) /\ Ours(s))'
    BY <2>1, <2>2, <2>3, <2>5 DEF OwnInv, Armament, Answering, Ours, Armed
  <2>7. QED
    BY <2>2, <2>4, <2>6 DEF OwnInv
<1>8. QED
  BY <1>1, <1>2, <1>3, <1>4, <1>5, <1>6, <1>7

LEMMA OwnInvStep == OwnInv /\ [Next]_vars => OwnInv'
<1> SUFFICES ASSUME OwnInv, [Next]_vars PROVE OwnInv'
  OBVIOUS
<1>1. CASE UNCHANGED vars
  BY <1>1 DEF vars, OwnInv, TypeInv, Answering, Ours, Armament, Booked
<1>2. CASE Next
  BY <1>2, ConnectionKeeps, ArrivalKeeps, CallbackKeeps, CallerKeeps DEF Next
<1>3. QED
  BY <1>1, <1>2

(* A call returns its own frames, however many calls before it timed out   *)
(* and whatever their servers answer late (Client.cpp:237-243).            *)
THEOREM CallsKeepApart == Spec => []OwnFrames
<1>1. OwnInv => OwnFrames
  BY DEF OwnInv, OwnFrames, Booked
<1>2. QED
  BY <1>1, OwnInvInit, OwnInvStep, PTL DEF Spec

-----------------------------------------------------------------------------
(* What a complete outcome rests on: from the ack on, the frames taken,    *)
(* the one about to be taken and the ones still to come are those the ack  *)
(* announced, until the connection drops.  An ack without frames that is   *)
(* of an earlier call tells itself by its id: the calls are numbered, and  *)
(* what a server is about to be asked is the newest.                       *)
Latest(s) ==
  IF caller.pc \in {"wait", "arm"} \/ (caller.pc = "send" /\ s \in caller.todo)
  THEN caller.call - 1 ELSE caller.call

Numbered(s) == progress[s].call <= Latest(s) /\ callback[s].call <= Latest(s)

Following(s) ==
  /\ callback[s].type = "result" /\ callback[s].n = 0 /\ progress[s].phase # "none"
       => callback[s].call # progress[s].call
  /\ progress[s].phase = "receiving" /\ callback[s].type # "none"
       => /\ callback[s].type # "refusal"
          /\ callback[s].call = progress[s].call /\ callback[s].kind = progress[s].kind

InHand(s) == IF callback[s].type = "frame" THEN 1 ELSE 0

Underway(s) ==
  \/ progress[s].phase = "none"
  \/ /\ progress[s].phase = "receiving" /\ callback[s].type # "result"
     /\ pending[s].frames + progress[s].left + InHand(s) = pending[s].expected

Counted(s) ==
  caller.pc \in Armed /\ pending[s].acked /\ ~TakenLate(s)
    => Underway(s) /\ ~(caller.pc = "send" /\ s \in caller.todo)

Reported ==
  /\ caller.pc \in {"wait", "arm"} \cup Armed => ~caller.complete
  /\ caller.pc = "waitDone" => caller.sent # {}

DeliverInv ==
  /\ OwnInv
  /\ \A s \in Server : Following(s) /\ Numbered(s)
  /\ \A s \in DOMAIN pending : Counted(s)
  /\ Reported
  /\ CompleteMeansDelivered

LEMMA DeliverInvInit == Init => DeliverInv
<1> SUFFICES ASSUME Init PROVE DeliverInv
  OBVIOUS
<1>1. DOMAIN pending = {} /\ caller.pc = "idle"
  BY DEF Init
<1>2. \A s \in Server : Following(s) /\ Numbered(s)
  BY DEF Init, Following, Numbered, Latest, None, Clear
<1>3. Reported /\ CompleteMeansDelivered
  BY <1>1 DEF Reported, CompleteMeansDelivered, Armed
<1>4. QED
  BY <1>1, <1>2, <1>3, OwnInvInit DEF DeliverInv

(* A step of the network that leaves the calling thread alone.             *)
LEMMA DeliverNetworkStep ==
  ASSUME DeliverInv, OwnInv', UNCHANGED <<pending, caller>>,
         NEW s \in Server, Following(s)', Numbered(s)', s \in DOMAIN pending => Counted(s)',
         progress'[s].phase # "none"
           => progress[s].phase # "none" /\ progress'[s].call = progress[s].call,
         \A t \in Server \ {s} : progress'[t] = progress[t] /\ callback'[t] = callback[t]
  PROVE  DeliverInv'
<1>1. \A t \in Server \ {s} : (Following(t) /\ Numbered(t))'
  BY DEF DeliverInv, Following, Numbered, Latest
<1>2. DOMAIN pending \subseteq Server
  BY DEF DeliverInv, OwnInv, TypeInv
<1>3. \A t \in DOMAIN pending \ {s} : Counted(t)'
  BY <1>2 DEF DeliverInv, Counted, Underway, InHand, TakenLate
<1>4. Reported'
  BY DEF DeliverInv, Reported
<1>5. \A t \in DOMAIN pending :
        (Delivered(t) => Delivered(t)') /\ (TakenLate(t) => TakenLate(t)')
  BY <1>2 DEF Delivered, TakenLate
<1>6. CompleteMeansDelivered'
  BY <1>5 DEF DeliverInv, CompleteMeansDelivered
<1>7. QED
  BY <1>1, <1>3, <1>4, <1>6 DEF DeliverInv

LEMMA DeliverConnection ==
  ASSUME DeliverInv, OwnInv', NEW s \in Server, disconnect(s) \/ connect(s)
  PROVE  DeliverInv'
<1>1. UNCHANGED <<callback, pending, active, kind, caller>>
      /\ progress' = [progress EXCEPT ![s] = Clear]
  BY DEF disconnect, connect
<1>2. progress'[s] = Clear /\ \A t \in Server \ {s} : progress'[t] = progress[t]
  BY <1>1 DEF DeliverInv, OwnInv, TypeInv
<1>3. Clear.phase = "none" /\ Clear.call = 0
  BY DEF Clear
<1>0. Numbered(s) /\ progress[s].call \in Nat /\ caller.call \in Nat
  BY DEF DeliverInv, OwnInv, TypeInv, Progress
<1>4. Following(s)' /\ Numbered(s)'
  <2>1. Following(s)'
    BY <1>1, <1>2, <1>3 DEF Following
  <2>2. 0 <= Latest(s)
    BY <1>0 DEF Numbered, Latest
  <2>3. Latest(s)' = Latest(s)
    BY <1>1 DEF Latest
  <2>4. QED
    BY <1>0, <1>1, <1>2, <1>3, <2>1, <2>2, <2>3 DEF Numbered
<1>5. s \in DOMAIN pending => Counted(s)'
  BY <1>1, <1>2, <1>3 DEF DeliverInv, Counted, Underway, TakenLate
<1>6. QED
  BY <1>1, <1>2, <1>3, <1>4, <1>5, DeliverNetworkStep

LEMMA DeliverArrival ==
  ASSUME DeliverInv, OwnInv', NEW s \in Server,
         refusalArrives(s) \/ (\E n \in NFrames : resultArrives(s, n)) \/ frameArrives(s)
  PROVE  DeliverInv'
<1>1. /\ progress[s] \in Progress
      /\ progress[s].phase = "receiving" => progress[s].left > 0
  BY DEF DeliverInv, OwnInv, TypeInv, Answering
<1>2. s \in DOMAIN pending => pending[s] \in Entry
  BY DEF DeliverInv, OwnInv, TypeInv
<1>3. ASSUME NEW type, NEW n, NEW after, arrives(s, type, n, after)
      PROVE  /\ callback'[s].type = type /\ callback'[s].n = n
             /\ callback'[s].call = progress[s].call /\ callback'[s].kind = progress[s].kind
             /\ progress'[s] = after
             /\ UNCHANGED <<pending, caller>>
             /\ \A t \in Server \ {s} : progress'[t] = progress[t] /\ callback'[t] = callback[t]
  BY <1>3 DEF arrives, DeliverInv, OwnInv, TypeInv
<1>4. Clear.phase = "none" /\ Clear.call = 0
  BY DEF Clear
<1>9. ASSUME NEW type, NEW n, NEW after, arrives(s, type, n, after),
             after.call \in {0, progress[s].call}
      PROVE  Numbered(s)'
  <2>1. Numbered(s) /\ progress[s].call \in Nat /\ caller.call \in Nat
    BY DEF DeliverInv, OwnInv, TypeInv, Progress
  <2>2. 0 <= Latest(s)
    BY <2>1 DEF Numbered, Latest
  <2>3. Latest(s)' = Latest(s)
    BY <1>3, <1>9 DEF Latest
  <2>4. QED
    BY <1>3, <1>9, <2>1, <2>2, <2>3 DEF Numbered
<1>5. CASE refusalArrives(s)
  <2>1. arrives(s, "refusal", 0, Clear) /\ progress[s].phase = "requested"
    BY <1>5 DEF refusalArrives
  <2>2. Following(s)' /\ (s \in DOMAIN pending => Counted(s)')
    BY <1>3, <1>4, <2>1 DEF DeliverInv, Following, Counted, Underway, TakenLate
  <2>3. QED
    BY <1>3, <1>4, <1>9, <2>1, <2>2, DeliverNetworkStep
<1>6. ASSUME NEW n \in NFrames, resultArrives(s, n)
      PROVE  DeliverInv'
  <2>. DEFINE after == IF n = 0 THEN Clear
                       ELSE [progress[s] EXCEPT !.phase = "receiving", !.left = n]
  <2>1. n \in Nat
    BY ClientAssumption
  <2>2. arrives(s, "result", n, after) /\ progress[s].phase = "requested"
    BY <1>6, <2>1 DEF resultArrives
  <2>3. \/ n = 0 /\ after.phase = "none" /\ after.call = 0
        \/ /\ n # 0 /\ after.phase = "receiving" /\ after.call = progress[s].call
           /\ after.kind = progress[s].kind
    BY <1>1, <1>4, <2>1 DEF Progress
  <2>. HIDE DEF after
  <2>4. Following(s)'
    BY <1>3, <2>1, <2>2, <2>3 DEF Following
  <2>5. s \in DOMAIN pending => Counted(s)'
    BY <1>3, <2>2 DEF DeliverInv, Counted, Underway, TakenLate
  <2>6. QED
    BY <1>3, <1>9, <2>2, <2>3, <2>4, <2>5, DeliverNetworkStep
<1>7. CASE frameArrives(s)
  <2>. DEFINE after == IF progress[s].left = 1 THEN Clear ELSE [progress[s] EXCEPT !.left = @ - 1]
  <2>1. arrives(s, "frame", 0, after) /\ progress[s].phase = "receiving" /\ callback[s] = None
    BY <1>7 DEF frameArrives
  <2>2. \/ after.phase = "none" /\ after.call = 0
        \/ /\ after.phase = "receiving" /\ after.call = progress[s].call
           /\ after.kind = progress[s].kind /\ after.left = progress[s].left - 1
    BY <1>1, <1>4, <2>1 DEF Progress
  <2>. HIDE DEF after
  <2>3. callback[s].type = "none"
    BY <2>1 DEF None
  <2>4. Following(s)'
    BY <1>3, <2>1, <2>2 DEF Following
  <2>5. s \in DOMAIN pending => Counted(s)'
    <3>1. SUFFICES ASSUME s \in DOMAIN pending, caller'.pc \in Armed, pending'[s].acked,
                          ~TakenLate(s)'
                   PROVE  Underway(s)' /\ ~(caller'.pc = "send" /\ s \in caller'.todo)
      BY DEF Counted
    <3>2. Underway(s) /\ ~(caller.pc = "send" /\ s \in caller.todo)
      BY <1>3, <2>1, <3>1 DEF DeliverInv, Counted, TakenLate
    <3>3. pending[s].frames + progress[s].left + 0 = pending[s].expected
      BY <2>1, <2>3, <3>2 DEF Underway, InHand
    <3>4. pending[s].frames \in Nat /\ pending[s].expected \in Nat /\ progress[s].left \in Nat
      BY <1>1, <1>2, <3>1 DEF Progress, Entry
    <3>5. pending[s].frames + (progress[s].left - 1) + 1 = pending[s].expected
      BY <3>3, <3>4
    <3>6. callback'[s].type = "frame" /\ progress'[s] = after /\ pending' = pending
      BY <1>3, <2>1
    <3>7. InHand(s)' = 1
      BY <3>6 DEF InHand
    <3>8. Underway(s)'
      BY <2>2, <3>5, <3>6, <3>7 DEF Underway
    <3>9. QED
      BY <1>3, <2>1, <3>2, <3>8
  <2>6. QED
    BY <1>3, <1>9, <2>1, <2>2, <2>4, <2>5, DeliverNetworkStep
<1>8. QED
  BY <1>5, <1>6, <1>7

(* A callback the call takes or drops: what it has to leave behind.        *)
LEMMA DeliverCallback ==
  ASSUME DeliverInv, OwnInv', NEW s \in Server,
         drops(s) \/ (s \in DOMAIN pending /\ active /\ \E p : takes(s, p)),
         s \in DOMAIN pending => Counted(s)'
  PROVE  DeliverInv'
<1>1. /\ callback' = [callback EXCEPT ![s] = None]
      /\ UNCHANGED <<connected, conns, progress, active, kind, caller>>
  BY DEF drops, takes
<1>2. None.type = "none" /\ None.call = 0
  BY DEF None
<1>3. callback'[s] = None /\ \A t \in Server \ {s} : callback'[t] = callback[t]
  BY <1>1 DEF DeliverInv, OwnInv, TypeInv
<1>4. \A t \in Server : (Following(t) /\ Numbered(t))'
  <2>1. \A t \in Server : Following(t)'
    BY <1>1, <1>2, <1>3 DEF DeliverInv, Following
  <2>2. ASSUME NEW t \in Server PROVE Numbered(t)'
    <3>1. Numbered(t) /\ progress[t].call \in Nat /\ caller.call \in Nat
      BY DEF DeliverInv, OwnInv, TypeInv, Progress
    <3>2. 0 <= Latest(t)
      BY <3>1 DEF Numbered, Latest
    <3>3. Latest(t)' = Latest(t) /\ progress'[t].call = progress[t].call
      BY <1>1 DEF Latest
    <3>4. callback'[t].call \in {0, callback[t].call}
      BY <1>2, <1>3
    <3>5. QED
      BY <3>1, <3>2, <3>3, <3>4 DEF Numbered
  <2>3. QED
    BY <2>1, <2>2
<1>5. DOMAIN pending' = DOMAIN pending /\ \A t \in DOMAIN pending \ {s} : pending'[t] = pending[t]
  BY DEF drops, takes
<1>6. \A t \in DOMAIN pending' : Counted(t)'
  BY <1>1, <1>3, <1>5 DEF DeliverInv, OwnInv, TypeInv, Counted, Underway, InHand, TakenLate
<1>7. Reported'
  BY <1>1 DEF DeliverInv, Reported
<1>8. CompleteMeansDelivered'
  <2>1. CASE drops(s)
    BY <1>1, <2>1 DEF drops, DeliverInv, CompleteMeansDelivered, Delivered, TakenLate
  <2>2. CASE active
    <3>1. caller.pc # "returned"
      BY <2>2 DEF DeliverInv, OwnInv, Armament, Armed
    <3>2. QED
      BY <1>1, <3>1 DEF CompleteMeansDelivered
  <2>3. QED
    BY <2>1, <2>2
<1>9. QED
  BY <1>4, <1>6, <1>7, <1>8 DEF DeliverInv

LEMMA DeliverCallbacks ==
  ASSUME DeliverInv, OwnInv', NEW s \in Server,
         onCaptureResult(s) \/ onCaptureRefused(s) \/ onCaptureFrame(s)
  PROVE  DeliverInv'
<1>1. /\ callback[s] \in Callback /\ progress[s] \in Progress
      /\ Answering(s) /\ Ours(s) /\ Following(s)
  BY DEF DeliverInv, OwnInv, TypeInv
<1>2. ASSUME s \in DOMAIN pending, caller.pc \in Armed
      PROVE  /\ pending[s] \in Entry /\ Booked(pending[s]) /\ Counted(s) /\ active
             /\ kind = caller.kind
  BY <1>2 DEF DeliverInv, OwnInv, TypeInv, Armament
<1>3. awaited(s) => s \in DOMAIN pending /\ active /\ caller.pc \in Armed
  BY DEF awaited, DeliverInv, OwnInv, Armament
<1>. DEFINE p == pending[s]
<1>4. ASSUME NEW q, takes(s, q), s \in DOMAIN pending
      PROVE  /\ pending'[s] = q /\ callback'[s] = None /\ UNCHANGED <<progress, caller>>
  BY <1>4 DEF takes, DeliverInv, OwnInv, TypeInv
<1>5. drops(s) => callback'[s] = None /\ UNCHANGED <<progress, caller, pending>>
  BY DEF drops, DeliverInv, OwnInv, TypeInv
<1>6. None.type = "none"
  BY DEF None
<1>7. CASE onCaptureResult(s)
  <2>. DEFINE q == ackedWith(p, callback[s].call, callback[s].n)
  <2>1. callback[s].type = "result"
        /\ IF awaited(s) /\ ~p.acked THEN takes(s, q) ELSE drops(s)
    BY <1>7 DEF onCaptureResult
  <2>2. callback[s].n \in Nat
    BY <1>1 DEF Callback
  <2>3. callback[s].n > 0 => progress[s].phase = "receiving" /\ progress[s].left = callback[s].n
    BY <1>1, <2>1 DEF Answering
  <2>4. CASE awaited(s) /\ ~p.acked
    <3>1. p \in Entry /\ p.frames = 0
      BY <1>2, <1>3, <2>4 DEF Booked
    <3>2. q.frames = 0 /\ q.expected = callback[s].n /\ q.id = callback[s].call /\ q.acked
      BY <1>1, <3>1 DEF ackedWith, doneAtOnce, Entry
    <3>. HIDE DEF q
    <3>3. takes(s, q) /\ pending'[s] = q /\ callback'[s] = None /\ UNCHANGED <<progress, caller>>
      BY <1>3, <1>4, <2>1, <2>4
    <3>4. Counted(s)'
      <4>1. CASE callback[s].n > 0
        <5>1. Underway(s)'
          BY <1>6, <2>2, <2>3, <3>2, <3>3, <4>1 DEF Underway, InHand
        <5>2. ~(caller'.pc = "send" /\ s \in caller'.todo)
          BY <1>1, <2>3, <3>3, <4>1 DEF Ours
        <5>3. QED
          BY <5>1, <5>2 DEF Counted
      <4>2. CASE callback[s].n = 0 /\ callback[s].call = caller.call
        <5>1. progress[s].phase = "none"
          BY <1>1, <1>3, <2>1, <2>4, <4>2 DEF Following, Ours
        <5>2. callback[s].call <= Latest(s) /\ caller.call \in Nat
          BY DEF DeliverInv, Numbered, OwnInv, TypeInv
        <5>3. ~(caller.pc = "send" /\ s \in caller.todo)
          BY <4>2, <5>2 DEF Latest
        <5>4. QED
          BY <3>3, <5>1, <5>3 DEF Counted, Underway
      <4>3. CASE callback[s].n = 0 /\ callback[s].call # caller.call
        BY <3>2, <3>3, <4>3 DEF Counted, TakenLate
      <4>4. QED
        BY <2>2, <4>1, <4>2, <4>3
    <3>5. QED
      BY <1>3, <2>4, <3>3, <3>4, DeliverCallback
  <2>5. CASE ~(awaited(s) /\ ~p.acked)
    <3>1. drops(s) /\ callback'[s] = None /\ UNCHANGED <<progress, caller, pending>>
      BY <1>5, <2>1, <2>5
    <3>2. s \in DOMAIN pending => Counted(s)'
      BY <1>2, <2>1, <3>1 DEF Counted, Underway, TakenLate
    <3>3. QED
      BY <3>1, <3>2, DeliverCallback
  <2>6. QED
    BY <2>4, <2>5
<1>8. CASE onCaptureRefused(s)
  <2>. DEFINE q == [p EXCEPT !.refused = TRUE, !.done = TRUE]
  <2>1. callback[s].type = "refusal"
        /\ IF awaited(s) /\ ~p.acked THEN takes(s, q) ELSE drops(s)
    BY <1>8 DEF onCaptureRefused
  <2>2. progress[s].phase # "receiving"
    BY <1>1, <2>1 DEF Following
  <2>3. CASE awaited(s) /\ ~p.acked
    <3>1. p \in Entry
      BY <1>2, <1>3, <2>3
    <3>2. ~q.acked
      BY <2>3, <3>1 DEF Entry
    <3>. HIDE DEF q
    <3>3. takes(s, q) /\ pending'[s] = q
      BY <1>3, <1>4, <2>1, <2>3
    <3>4. QED
      BY <1>3, <2>3, <3>2, <3>3, DeliverCallback DEF Counted
  <2>4. CASE ~(awaited(s) /\ ~p.acked)
    <3>1. drops(s) /\ callback'[s] = None /\ UNCHANGED <<progress, caller, pending>>
      BY <1>5, <2>1, <2>4
    <3>2. s \in DOMAIN pending => Counted(s)'
      BY <1>2, <2>1, <2>2, <3>1 DEF Counted, Underway, TakenLate
    <3>3. QED
      BY <3>1, <3>2, DeliverCallback
  <2>5. QED
    BY <2>3, <2>4
<1>9. CASE onCaptureFrame(s)
  <2>. DEFINE q == [p EXCEPT !.frames = @ + 1, !.from = @ \cup {callback[s].call},
                             !.done = p.frames + 1 >= p.expected]
              T == awaited(s) /\ p.acked /\ ~p.done /\ callback[s].call = p.id
  <2>1. callback[s].type = "frame" /\ IF T THEN takes(s, q) ELSE drops(s)
    BY <1>9 DEF onCaptureFrame
  <2>2. InHand(s) = 1
    BY <2>1 DEF InHand
  <2>3. CASE T
    <3>1. p \in Entry /\ Counted(s) /\ p.acked /\ caller.pc \in Armed /\ ~TakenLate(s)
      BY <1>2, <1>3, <2>3 DEF Booked, TakenLate
    <3>2. q.frames = p.frames + 1 /\ q.expected = p.expected
          /\ p.frames \in Nat /\ p.expected \in Nat
      BY <3>1 DEF Entry
    <3>. HIDE DEF q
    <3>3. takes(s, q) /\ pending'[s] = q /\ callback'[s] = None /\ UNCHANGED <<progress, caller>>
      BY <1>3, <1>4, <2>1, <2>3
    <3>4. Underway(s) /\ ~(caller.pc = "send" /\ s \in caller.todo)
      BY <3>1 DEF Counted
    <3>5. progress[s].left \in Nat
      BY <1>1 DEF Progress
    <3>6. InHand(s)' = 0 /\ callback'[s].type # "result"
      BY <1>6, <3>3 DEF InHand
    <3>7. Underway(s)'
      BY <2>2, <3>2, <3>3, <3>4, <3>5, <3>6 DEF Underway
    <3>8. QED
      BY <1>3, <2>3, <3>3, <3>4, <3>7, DeliverCallback DEF Counted
  <2>4. CASE ~T
    <3>1. drops(s) /\ callback'[s] = None /\ UNCHANGED <<progress, caller, pending>>
      BY <1>5, <2>1, <2>4
    <3>2. s \in DOMAIN pending => Counted(s)'
      <4>1. SUFFICES ASSUME s \in DOMAIN pending, caller.pc \in Armed, p.acked,
                            ~TakenLate(s), progress[s].phase # "none"
                     PROVE  FALSE
        BY <1>2, <3>1 DEF Counted, Underway, TakenLate
      <4>2. p \in Entry /\ Booked(p) /\ Underway(s) /\ active /\ kind = caller.kind
        BY <1>2, <4>1 DEF Counted
      <4>3. /\ progress[s].phase = "receiving"
            /\ p.frames + progress[s].left + 1 = p.expected
        BY <2>2, <4>1, <4>2 DEF Underway
      <4>4. p.frames \in Nat /\ p.expected \in Nat /\ progress[s].left \in Nat
        BY <1>1, <4>2 DEF Entry, Progress
      <4>5. p.frames # p.expected
        BY <4>3, <4>4
      <4>6. ~p.done /\ p.id = caller.call
        BY <4>1, <4>2, <4>5 DEF Booked
      <4>7. callback[s].call = caller.call /\ callback[s].kind = caller.kind
        BY <1>1, <2>1, <4>1, <4>3 DEF Following, Ours
      <4>8. QED
        BY <2>4, <4>1, <4>2, <4>6, <4>7 DEF awaited
    <3>3. QED
      BY <3>1, <3>2, DeliverCallback
  <2>5. QED
    BY <2>3, <2>4
<1>10. QED
  BY <1>7, <1>8, <1>9

(* The newest number a server may have seen only grows.                    *)
LEMMA LatestGrows ==
  ASSUME DeliverInv, NEW s \in Server,
         \/ \E k \in Kind : call(k)
         \/ waitForEarlier \/ arm \/ prune \/ waitDone \/ collectNothing \/ again
         \/ \E t \in Server : send(t)
  PROVE  Latest(s) <= Latest(s)'
<1>1. caller.call \in Nat /\ TypeInv
  BY DEF DeliverInv, OwnInv, TypeInv
<1>2. ASSUME NEW k \in Kind, call(k) PROVE Latest(s) <= Latest(s)'
  <2>1. caller.pc = "idle" /\ caller'.pc = "wait" /\ caller'.call = caller.call + 1
    BY <1>2 DEF call
  <2>2. Latest(s) = caller.call /\ Latest(s)' = caller'.call - 1
    BY <2>1 DEF Latest
  <2>3. QED
    BY <1>1, <2>1, <2>2
<1>3. CASE waitForEarlier \/ arm \/ prune \/ waitDone \/ collectNothing \/ again
  <2>1. caller'.call = caller.call /\ caller'.todo = caller.todo
    BY <1>1, <1>3
       DEF waitForEarlier, arm, prune, waitDone, collectNothing, again, TypeInv
  <2>2. CASE waitForEarlier
    <3>1. caller.pc = "wait"
      BY <2>2 DEF waitForEarlier
    <3>2. QED
      BY <1>1, <2>1, <3>1 DEF Latest
  <2>3. CASE arm
    <3>1. caller.pc = "arm"
      BY <2>3 DEF arm
    <3>2. QED
      BY <1>1, <2>1, <3>1 DEF Latest
  <2>4. CASE prune \/ waitDone \/ collectNothing \/ again
    <3>1. caller'.pc \in {"collect", "waitDone", "returned", "idle"}
      BY <1>1, <2>4 DEF prune, waitDone, collectNothing, again, TypeInv
    <3>2. QED
      BY <1>1, <2>1, <3>1 DEF Latest
  <2>5. QED
    BY <1>3, <2>2, <2>3, <2>4
<1>4. ASSUME NEW t \in Server, send(t) PROVE Latest(s) <= Latest(s)'
  <2>1. /\ caller.pc = "send" /\ caller'.pc = "send" /\ caller'.call = caller.call
        /\ caller'.todo = caller.todo \ {t}
    BY <1>1, <1>4 DEF send, TypeInv
  <2>2. QED
    BY <1>1, <2>1 DEF Latest
<1>5. QED
  BY <1>2, <1>3, <1>4

LEMMA DeliverCaller ==
  ASSUME DeliverInv, OwnInv',
         \/ \E k \in Kind : call(k)
         \/ waitForEarlier \/ arm \/ prune \/ waitDone \/ collectNothing \/ again
         \/ \E s \in Server : send(s)
  PROVE  DeliverInv'
<1>0. OwnInv /\ TypeInv /\ Armament /\ DOMAIN pending \subseteq Server
  BY DEF DeliverInv, OwnInv, TypeInv
<1>11. \A s \in Server :
         /\ progress[s].call \in Int /\ callback[s].call \in Int /\ caller.call \in Int
         /\ Numbered(s) /\ Latest(s) \in Int /\ Latest(s)' \in Int /\ Latest(s) <= Latest(s)'
  <2>1. \A s \in Server : progress[s].call \in Int /\ callback[s].call \in Int
    BY <1>0 DEF TypeInv, Progress, Callback
  <2>2. caller.call \in Int /\ caller'.call \in Int
    BY <1>0 DEF OwnInv, TypeInv
  <2>3. \A s \in Server : Latest(s) \in Int /\ Latest(s)' \in Int
    BY <2>2 DEF Latest
  <2>4. QED
    BY <2>1, <2>2, <2>3, LatestGrows DEF DeliverInv
<1>1. ASSUME UNCHANGED <<progress, callback>>
      PROVE  \A s \in Server : (Following(s) /\ Numbered(s))'
  BY <1>1, <1>11 DEF DeliverInv, Following, Numbered
<1>2. ASSUME NEW k \in Kind, call(k)
      PROVE  DeliverInv'
  <2>1. /\ caller.pc = "idle" /\ caller'.pc = "wait" /\ caller'.complete = FALSE
        /\ UNCHANGED <<progress, callback, pending>>
    BY <1>2 DEF call
  <2>2. DOMAIN pending' = {}
    BY <1>0, <2>1 DEF Armament
  <2>3. Reported' /\ CompleteMeansDelivered'
    BY <2>1 DEF Reported, CompleteMeansDelivered, Armed
  <2>4. QED
    BY <1>1, <2>1, <2>2, <2>3 DEF DeliverInv
<1>3. CASE waitForEarlier
  <2>1. /\ caller.pc = "wait" /\ caller'.pc \in {"arm", "returned"}
        /\ caller'.complete = caller.complete /\ UNCHANGED <<progress, callback, pending>>
    BY <1>0, <1>3 DEF waitForEarlier, TypeInv
  <2>2. DOMAIN pending' = {} /\ ~caller.complete
    BY <1>0, <2>1 DEF Armament, DeliverInv, Reported
  <2>3. Reported' /\ CompleteMeansDelivered'
    BY <2>1, <2>2 DEF Reported, CompleteMeansDelivered, Armed
  <2>4. QED
    BY <1>1, <2>1, <2>2, <2>3 DEF DeliverInv
<1>4. CASE arm
  <2>1. /\ caller.pc = "arm" /\ caller'.pc = "send" /\ caller'.complete = caller.complete
        /\ pending' = [s \in {t \in Server : connected[t]} |-> PendingServer]
        /\ UNCHANGED <<progress, callback>>
    BY <1>0, <1>4 DEF arm, TypeInv
  <2>2. \A s \in DOMAIN pending' : Counted(s)'
    BY <2>1 DEF Counted, PendingServer
  <2>3. Reported' /\ CompleteMeansDelivered'
    BY <2>1 DEF DeliverInv, Reported, CompleteMeansDelivered, Armed
  <2>4. QED
    BY <1>1, <2>1, <2>2, <2>3 DEF DeliverInv
<1>5. ASSUME NEW s \in Server, send(s)
      PROVE  DeliverInv'
  <2>1. /\ caller.pc = "send" /\ s \in caller.todo
        /\ UNCHANGED <<connected, conns, callback, pending, active, kind>>
        /\ \A t \in Server \ {s} : progress'[t] = progress[t]
        /\ progress'[s].phase \in {"requested", progress[s].phase}
    BY <1>0, <1>5 DEF send, TypeInv
  <2>2. caller'.pc = "send" /\ caller'.todo = caller.todo \ {s}
        /\ caller'.complete = caller.complete
    BY <1>0, <1>5 DEF send, TypeInv
  <2>3. progress[s].phase = "none"
    BY <1>0, <2>1 DEF OwnInv, Ours
  <2>10. caller'.call = caller.call /\ progress'[s].call \in {caller.call, progress[s].call}
         /\ (progress'[s].phase # "none" => progress'[s].call = caller.call)
    BY <1>0, <1>5, <2>3 DEF send, TypeInv
  <2>11. Latest(s) = caller.call - 1 /\ Latest(s)' = caller.call
    BY <2>1, <2>2, <2>10 DEF Latest
  <2>4. \A t \in Server : (Following(t) /\ Numbered(t))'
    <3>1. callback[s].call # caller.call
      BY <1>11, <2>11 DEF Numbered
    <3>2. Following(s)'
      BY <2>1, <2>3, <2>10, <3>1 DEF DeliverInv, Following, OwnInv, Ours
    <3>3. Numbered(s)'
      BY <1>11, <2>1, <2>10, <2>11 DEF Numbered
    <3>4. \A t \in Server \ {s} : (Following(t) /\ Numbered(t))'
      BY <1>11, <2>1 DEF DeliverInv, Following, Numbered
    <3>5. QED
      BY <3>2, <3>3, <3>4
  <2>5. \A t \in DOMAIN pending : t # s => Counted(t)'
    BY <1>0, <2>1, <2>2, <2>10 DEF DeliverInv, Counted, Underway, InHand, Armed, TakenLate
  <2>6. s \in DOMAIN pending => ~pending[s].acked \/ TakenLate(s)
    BY <2>1 DEF DeliverInv, Counted, Armed
  <2>7. \A t \in DOMAIN pending' : Counted(t)'
    BY <2>1, <2>5, <2>6, <2>10 DEF Counted, TakenLate
  <2>8. Reported' /\ CompleteMeansDelivered'
    BY <2>1, <2>2 DEF DeliverInv, Reported, CompleteMeansDelivered, Armed
  <2>9. QED
    BY <2>4, <2>7, <2>8 DEF DeliverInv
<1>6. CASE prune
  <2>1. /\ caller.pc = "send" /\ caller.todo = {}
        /\ caller'.pc \in {"collect", "waitDone"}
        /\ caller'.pc = "waitDone" => pending' # <<>>
        /\ caller'.complete = caller.complete /\ caller'.sent = caller.sent
        /\ caller'.call = caller.call
        /\ pending' = [s \in DOMAIN pending \cap caller.sent |-> pending[s]]
        /\ UNCHANGED <<progress, callback>>
    BY <1>0, <1>6 DEF prune, TypeInv
  <2>2. DOMAIN pending' = {} => pending' = <<>>
    BY <2>1
  <2>3. \A s \in DOMAIN pending' : Counted(s)'
    BY <1>0, <2>1 DEF DeliverInv, Counted, Underway, InHand, Armed, TakenLate
  <2>4. Reported' /\ CompleteMeansDelivered'
    BY <2>1, <2>2 DEF DeliverInv, Reported, CompleteMeansDelivered, Armed
  <2>5. QED
    BY <1>1, <2>1, <2>3, <2>4 DEF DeliverInv
<1>7. CASE waitDone
  <2>. DEFINE b == AllDone /\ \A s \in DOMAIN pending : ~pending[s].refused
  <2>1. /\ caller.pc = "waitDone" /\ caller' = [caller EXCEPT !.pc = "returned", !.complete = b]
        /\ UNCHANGED <<progress, callback, pending>>
    BY <1>7 DEF waitDone
  <2>2. b \in BOOLEAN /\ (b <=> \A s \in DOMAIN pending : pending[s].done /\ ~pending[s].refused)
    BY DEF AllDone
  <2>. HIDE DEF b
  <2>3. /\ caller'.pc = "returned" /\ caller'.complete = b
        /\ caller'.sent = caller.sent /\ caller'.call = caller.call
    BY <1>0, <2>1 DEF TypeInv
  <2>4. \A s \in DOMAIN pending :
          pending[s].done /\ ~pending[s].refused => Delivered(s)' \/ TakenLate(s)'
    <3>1. SUFFICES ASSUME NEW s \in DOMAIN pending, pending[s].done, ~pending[s].refused,
                          ~TakenLate(s)
                   PROVE  Delivered(s)'
      BY <2>1, <2>3 DEF TakenLate
    <3>2. /\ Booked(pending[s]) /\ Counted(s) /\ pending[s] \in Entry
          /\ progress[s] \in Progress /\ Answering(s)
      BY <1>0, <3>1 DEF DeliverInv, OwnInv, TypeInv
    <3>3. pending[s].acked /\ pending[s].frames = pending[s].expected
      BY <3>1, <3>2 DEF Booked
    <3>4. Underway(s)
      BY <2>1, <3>1, <3>2, <3>3 DEF Counted, Armed
    <3>5. progress[s].phase = "none"
      <4>1. SUFFICES ASSUME progress[s].phase # "none" PROVE FALSE
        OBVIOUS
      <4>2. /\ progress[s].phase = "receiving"
            /\ pending[s].frames + progress[s].left + InHand(s) = pending[s].expected
        BY <3>4, <4>1 DEF Underway
      <4>3. InHand(s) \in Nat /\ pending[s].frames \in Nat /\ progress[s].left \in Nat
        BY <3>2 DEF InHand, Entry, Progress
      <4>4. progress[s].left > 0
        BY <3>2, <4>2 DEF Answering
      <4>5. QED
        BY <3>3, <4>2, <4>3, <4>4
    <3>6. QED
      BY <2>1, <3>3, <3>5 DEF Delivered
  <2>5. caller.sent # {}
    BY <2>1 DEF DeliverInv, Reported
  <2>6. Reported' /\ CompleteMeansDelivered'
    BY <2>1, <2>2, <2>3, <2>4, <2>5 DEF Reported, CompleteMeansDelivered, Armed
  <2>7. \A s \in DOMAIN pending' : Counted(s)'
    BY <2>3 DEF Counted, Armed
  <2>8. QED
    BY <1>1, <2>1, <2>6, <2>7 DEF DeliverInv
<1>8. CASE collectNothing
  <2>1. /\ caller.pc = "collect" /\ caller'.pc = "returned" /\ caller'.complete = caller.complete
        /\ UNCHANGED <<progress, callback, pending>>
    BY <1>0, <1>8 DEF collectNothing, TypeInv
  <2>2. ~caller.complete
    BY <2>1 DEF DeliverInv, Reported, Armed
  <2>3. Reported' /\ CompleteMeansDelivered' /\ \A s \in DOMAIN pending' : Counted(s)'
    BY <2>1, <2>2 DEF Reported, CompleteMeansDelivered, Counted, Armed
  <2>4. QED
    BY <1>1, <2>1, <2>3 DEF DeliverInv
<1>9. CASE again
  <2>1. caller'.pc = "idle" /\ UNCHANGED <<progress, callback>>
    BY <1>0, <1>9 DEF again, TypeInv
  <2>2. Reported' /\ CompleteMeansDelivered' /\ \A s \in DOMAIN pending' : Counted(s)'
    BY <2>1 DEF Reported, CompleteMeansDelivered, Counted, Armed
  <2>3. QED
    BY <1>1, <2>1, <2>2 DEF DeliverInv
<1>10. QED
  BY <1>2, <1>3, <1>4, <1>5, <1>6, <1>7, <1>8, <1>9

LEMMA DeliverInvStep == DeliverInv /\ [Next]_vars => DeliverInv'
<1> SUFFICES ASSUME DeliverInv, [Next]_vars PROVE DeliverInv'
  OBVIOUS
<1>1. OwnInv'
  BY OwnInvStep DEF DeliverInv
<1>2. CASE UNCHANGED vars
  BY <1>1, <1>2 DEF vars, DeliverInv, Following, Numbered, Latest, Counted, Underway, InHand,
                    Reported, CompleteMeansDelivered, Delivered, TakenLate
<1>3. CASE Next
  BY <1>1, <1>3, DeliverConnection, DeliverArrival, DeliverCallbacks, DeliverCaller DEF Next
<1>4. QED
  BY <1>2, <1>3

(* `complete' is said only of a call that has every frame it waited for    *)
(* (Client.cpp:256-290), whatever number of frames the results announce,   *)
(* none included: but for a late result without frames of an earlier call, *)
(* the one thing that can be taken for this call's ack.                    *)
THEOREM CompleteIsEverything == Spec => []CompleteMeansDelivered
<1>1. DeliverInv => CompleteMeansDelivered
  BY DEF DeliverInv
<1>2. QED
  BY <1>1, DeliverInvInit, DeliverInvStep, PTL DEF Spec
=============================================================================
