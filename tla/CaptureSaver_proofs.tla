------------------------ MODULE CaptureSaver_proofs -------------------------
(***************************************************************************)
(* Proofs about the capture saver (CaptureSaver), for every set of servers *)
(* and cameras and any number of captures, runs and flushes: status()      *)
(* accounts for every frame, what flush and the destructor waited for is   *)
(* settled, and a saved frame loses a file only to a later run's capture.  *)
(*                                                                         *)
(* The first two rest on where a frame is: about to be pushed by the       *)
(* network thread of its server, in the queue, with the worker, or         *)
(* settled; and on no frame being handed to save() twice, which follows    *)
(* from how the servers number their captures.  The third rests on the     *)
(* order in which the worker gets the frames of a server.                  *)
(***************************************************************************)
EXTENDS CaptureSaver, FiniteSetTheorems, SequenceTheorems, TLAPS

(* Frames without the bounds of the instances.                             *)
AnyFrame == [server : Server, kind : Kind, capture_id : Nat, cam : Cam, frame_id : Nat,
             run : Nat, image : BOOLEAN]

Elements(q) == {q[i] : i \in DOMAIN q}
Distinct(q) == \A i, j \in DOMAIN q : q[i] = q[j] => i = j

LEMMA AppendElements ==
  ASSUME NEW S, NEW q \in Seq(S), NEW x \in S
  PROVE  /\ Append(q, x) \in Seq(S) /\ Len(Append(q, x)) = Len(q) + 1
         /\ Elements(Append(q, x)) = Elements(q) \cup {x}
         /\ Distinct(q) /\ x \notin Elements(q) => Distinct(Append(q, x))
<1>1. /\ Append(q, x) \in Seq(S) /\ Len(Append(q, x)) = Len(q) + 1
      /\ \A i \in 1..Len(q) : Append(q, x)[i] = q[i]
      /\ Append(q, x)[Len(q) + 1] = x
  BY AppendProperties
<1>2. DOMAIN q = 1..Len(q) /\ DOMAIN Append(q, x) = 1..(Len(q) + 1) /\ Len(q) \in Nat
  BY <1>1, LenProperties
<1>3. \A i \in DOMAIN Append(q, x) : i \in DOMAIN q \/ i = Len(q) + 1
  BY <1>2
<1>4. Elements(Append(q, x)) = Elements(q) \cup {x}
  <2>1. ASSUME NEW y \in Elements(Append(q, x)) PROVE y \in Elements(q) \cup {x}
    BY <1>1, <1>2, <1>3 DEF Elements
  <2>2. ASSUME NEW y \in Elements(q) \cup {x} PROVE y \in Elements(Append(q, x))
    BY <1>1, <1>2 DEF Elements
  <2>3. QED
    BY <2>1, <2>2
<1>5. ASSUME Distinct(q), x \notin Elements(q) PROVE Distinct(Append(q, x))
  BY <1>1, <1>2, <1>3, <1>5 DEF Distinct, Elements
<1>6. QED
  BY <1>1, <1>4, <1>5

LEMMA TailElements ==
  ASSUME NEW S, NEW q \in Seq(S), q # <<>>
  PROVE  /\ Tail(q) \in Seq(S) /\ Head(q) \in S /\ Len(Tail(q)) = Len(q) - 1
         /\ Elements(q) = Elements(Tail(q)) \cup {Head(q)}
         /\ Distinct(q) => Distinct(Tail(q))
<1>1. /\ Tail(q) \in Seq(S) /\ Head(q) \in S /\ Head(q) = q[1] /\ Len(Tail(q)) = Len(q) - 1
      /\ \A i \in 1..Len(Tail(q)) : Tail(q)[i] = q[i + 1]
  BY HeadTailProperties
<1>2. /\ DOMAIN q = 1..Len(q) /\ DOMAIN Tail(q) = 1..(Len(q) - 1)
      /\ Len(q) \in Nat /\ Len(q) > 0
  BY <1>1, LenProperties, EmptySeq
<1>3. Elements(q) = Elements(Tail(q)) \cup {Head(q)}
  <2>1. ASSUME NEW i \in DOMAIN q PROVE q[i] \in Elements(Tail(q)) \cup {Head(q)}
    <3>1. i = 1 \/ (i - 1 \in DOMAIN Tail(q) /\ Tail(q)[i - 1] = q[i])
      BY <1>1, <1>2
    <3>2. QED
      BY <1>1, <3>1 DEF Elements
  <2>2. ASSUME NEW i \in DOMAIN Tail(q) PROVE Tail(q)[i] \in Elements(q)
    <3>1. i + 1 \in DOMAIN q /\ Tail(q)[i] = q[i + 1]
      BY <1>1, <1>2
    <3>2. QED
      BY <3>1 DEF Elements
  <2>3. Head(q) \in Elements(q)
    BY <1>1, <1>2 DEF Elements
  <2>4. QED
    BY <2>1, <2>2, <2>3 DEF Elements
<1>4. ASSUME Distinct(q) PROVE Distinct(Tail(q))
  <2>1. \A i \in DOMAIN Tail(q) : i + 1 \in DOMAIN q /\ Tail(q)[i] = q[i + 1]
    BY <1>1, <1>2
  <2>2. SUFFICES ASSUME NEW i \in DOMAIN Tail(q), NEW j \in DOMAIN Tail(q),
                        Tail(q)[i] = Tail(q)[j]
                 PROVE  i = j
    BY DEF Distinct
  <2>3. i + 1 = j + 1
    BY <1>4, <2>1, <2>2 DEF Distinct
  <2>4. QED
    BY <1>2, <2>3
<1>5. QED
  BY <1>1, <1>3, <1>4

LEMMA HeadLeaves ==
  ASSUME NEW S, NEW q \in Seq(S), q # <<>>, Distinct(q)
  PROVE  Head(q) \notin Elements(Tail(q))
<1>1. /\ Len(q) \in Nat /\ Len(q) # 0 /\ DOMAIN q = 1..Len(q)
      /\ DOMAIN Tail(q) = 1..(Len(q) - 1) /\ Head(q) = q[1]
      /\ \A i \in DOMAIN Tail(q) : Tail(q)[i] = q[i + 1]
  BY HeadTailProperties, LenProperties, EmptySeq
<1>2. \A i \in DOMAIN Tail(q) : i + 1 \in DOMAIN q /\ 1 \in DOMAIN q /\ i + 1 # 1
  BY <1>1
<1>3. QED
  BY <1>1, <1>2 DEF Distinct, Elements

-----------------------------------------------------------------------------
Pushing == {n \in Server : sender[n].pc = "push"}
Working == worker.pc \in {"write", "saved", "failed"}
Busy    == IF busy THEN 1 ELSE 0

SaverTypeInv ==
  /\ busy \in BOOLEAN /\ stop \in BOOLEAN /\ pending \in Nat /\ done \in Nat
  /\ queue \in Seq(AnyFrame)
  /\ DOMAIN state \subseteq AnyFrame /\ state \in [DOMAIN state -> SaveState]
  /\ worker \in [pc : {"check", "asleep", "write", "saved", "failed", "count", "notify", "gone"},
                 job : AnyFrame \cup {NoFrame}]
  /\ sender \in [Server -> [pc : {"idle", "push", "notify"}, frame : AnyFrame \cup {NoFrame}]]
  /\ flusher \in [pc : {"idle", "check", "asleep", "returned"}, owed : SUBSET AnyFrame,
                  calls : Nat]
  /\ dtor \in {"alive", "notify", "join", "destroyed"}
  /\ shots \in [Server -> [run : Nat, total : Nat, last : Nat, ids : [Kind -> Nat]]]
  /\ inbox \in [Server -> SUBSET AnyFrame]

(* The frames handed over so far are of earlier runs or of captures that   *)
(* were counted.                                                           *)
Numbered(f) ==
  LET t == shots[f.server]
  IN  \/ f.run < t.run
      \/ f.run = t.run /\ f.capture_id <= t.ids[f.kind]

Fresh ==
  /\ \A f \in DOMAIN state : Numbered(f)
  /\ \A n \in Server : \A f \in inbox[n] :
       f.server = n /\ f \notin DOMAIN state /\ Numbered(f)

(* Where a frame that was taken on is until it is settled.                 *)
Placed ==
  /\ \A n \in Pushing : /\ sender[n].frame \in Accepted /\ sender[n].frame.server = n
                        /\ sender[n].frame \notin Elements(queue)
  /\ Elements(queue) \subseteq Accepted /\ Distinct(queue)
  /\ Working => worker.job \in Accepted
  /\ \A f \in Accepted : \/ Settled(f)
                         \/ f \in Elements(queue)
                         \/ Working /\ worker.job = f
                         \/ \E n \in Pushing : sender[n].frame = f

Counts ==
  /\ busy <=> Working \/ worker.pc = "count"
  /\ pending = Len(queue) + Busy
  /\ IsFiniteSet(Accepted)
  /\ Cardinality(Accepted) = done + pending + Cardinality(Pushing)

Owed ==
  /\ flusher.pc # "idle" =>
       /\ flusher.owed \subseteq Accepted
       /\ \A n \in Pushing : sender[n].frame \notin flusher.owed
  /\ FlushWaitsForWrites

Leaving ==
  /\ stop <=> dtor # "alive"
  /\ stop => \A n \in Server : sender[n].pc = "idle" /\ inbox[n] = {}
  /\ worker.pc = "gone" => stop /\ queue = <<>>
  /\ dtor = "destroyed" => worker.pc = "gone"

SaverInv == SaverTypeInv /\ Fresh /\ Placed /\ Counts /\ Owed /\ Leaving

LEMMA PushingFinite == IsFiniteSet(Pushing) /\ Cardinality(Pushing) \in Nat
BY FS_Subset, FS_CardinalityType, SaverAssumption DEF Pushing

LEMMA SaverInvInit == Init => SaverInv
<1> SUFFICES ASSUME Init PROVE SaverInv
  OBVIOUS
<1>1. /\ DOMAIN state = {} /\ state \in [DOMAIN state -> SaveState]
      /\ queue \in Seq(AnyFrame) /\ Len(queue) = 0 /\ DOMAIN queue = {}
  BY DEF Init
<1>2. Accepted = {} /\ Elements(queue) = {} /\ Pushing = {}
  BY <1>1 DEF Init, Accepted, Elements, Pushing
<1>3. \A n \in Server : FirstShot(1) \in [run : Nat, total : Nat, last : Nat, ids : [Kind -> Nat]]
  BY DEF FirstShot
<1>4. SaverTypeInv
  BY <1>1, <1>3 DEF Init, SaverTypeInv
<1>5. Fresh
  BY <1>1 DEF Init, Fresh
<1>6. Placed
  BY <1>1, <1>2 DEF Init, Placed, Distinct, Working
<1>7. Counts
  BY <1>1, <1>2, FS_EmptySet DEF Init, Counts, Working, Busy
<1>8. Owed /\ Leaving
  BY DEF Init, Owed, FlushWaitsForWrites, Leaving
<1>9. QED
  BY <1>4, <1>5, <1>6, <1>7, <1>8 DEF SaverInv

-----------------------------------------------------------------------------
(* What each part of the invariant depends on.                             *)
LEMMA FreshSame ==
  ASSUME Fresh, DOMAIN state' = DOMAIN state, UNCHANGED camera
  PROVE  Fresh'
BY DEF Fresh, Numbered, camera

LEMMA PlacedSame ==
  ASSUME Placed, UNCHANGED <<queue, state, sender>>, Working' <=> Working,
         Working => worker'.job = worker.job
  PROVE  Placed'
<1>1. Accepted' = Accepted /\ Pushing' = Pushing /\ \A f : Settled(f)' <=> Settled(f)
  BY DEF Accepted, Pushing, Settled
<1>2. QED
  BY <1>1 DEF Placed

LEMMA CountsSame ==
  ASSUME Counts, UNCHANGED <<queue, state, sender, busy, pending, done>>,
         busy <=> Working' \/ worker'.pc = "count"
  PROVE  Counts'
BY DEF Counts, Accepted, Pushing, Busy

LEMMA OwedSame ==
  ASSUME Owed, UNCHANGED <<flusher, state>>, Pushing' \subseteq Pushing,
         \A n \in Pushing' : sender'[n].frame = sender[n].frame
  PROVE  Owed'
BY DEF Owed, FlushWaitsForWrites, Accepted, Settled

(* The cameras: a capture counted anew gives frames nobody has seen.       *)
LEMMA ShootKeeps ==
  ASSUME SaverInv, NEW n \in Server, NEW k \in Kind, NEW S \in Shots, NEW id \in 1..MaxFrameId,
         NEW image \in SendImage, shoot(n, k, S, id, image)
  PROVE  SaverInv'
<1>. DEFINE t == [shots[n] EXCEPT !.total = @ + 1, !.ids[k] = @ + 1, !.last = id]
            F == {[server |-> n, kind |-> k, capture_id |-> t.ids[k], cam |-> c,
                   frame_id |-> id, run |-> t.run, image |-> image] : c \in S}
<1>1. /\ shots' = [shots EXCEPT ![n] = t] /\ inbox' = [inbox EXCEPT ![n] = F]
      /\ dtor = "alive" /\ inbox[n] = {}
      /\ UNCHANGED <<enabled, queue, busy, stop, pending, state, done, dirs, files, worker,
                     sender, flusher, dtor>>
  BY DEF shoot
<1>2. shots[n] \in [run : Nat, total : Nat, last : Nat, ids : [Kind -> Nat]]
  BY DEF SaverInv, SaverTypeInv
<1>3. id \in Nat /\ image \in BOOLEAN /\ S \subseteq Cam
  BY SaverAssumption
<1>4. /\ t.run = shots[n].run /\ t.ids[k] = shots[n].ids[k] + 1
      /\ \A j \in Kind : j # k => t.ids[j] = shots[n].ids[j]
      /\ t \in [run : Nat, total : Nat, last : Nat, ids : [Kind -> Nat]]
  <2>. DEFINE r == shots[n]
              counted == [r.ids EXCEPT ![k] = @ + 1]
  <2>1. counted \in [Kind -> Nat] /\ r.total + 1 \in Nat
    BY <1>2
  <2>2. t = [r EXCEPT !.total = @ + 1, !.ids = counted, !.last = id]
    OBVIOUS
  <2>3. t \in [run : Nat, total : Nat, last : Nat, ids : [Kind -> Nat]]
    <3>. HIDE DEF counted, t
    <3>1. QED
      BY <1>2, <1>3, <2>1, <2>2
  <2>4. t.run = r.run /\ t.ids = counted
    <3>. HIDE DEF counted, t
    <3>1. QED
      BY <1>2, <2>2
  <2>. HIDE DEF t
  <2>5. QED
    BY <1>2, <2>3, <2>4
<1>. HIDE DEF t
<1>5. \A f \in F : /\ f.server = n /\ f.kind = k /\ f.capture_id = t.ids[k] /\ f.run = t.run
                   /\ f \in AnyFrame
  BY <1>3, <1>4 DEF AnyFrame
<1>. HIDE DEF F
<1>6. /\ \A m \in Server : shots'[m] = IF m = n THEN t ELSE shots[m]
      /\ \A m \in Server : inbox'[m] = IF m = n THEN F ELSE inbox[m]
  BY <1>1 DEF SaverInv, SaverTypeInv
<1>7. SaverTypeInv'
  BY <1>1, <1>4, <1>5 DEF SaverInv, SaverTypeInv
<1>8. \A f \in AnyFrame : Numbered(f) => Numbered(f)'
  <2>1. SUFFICES ASSUME NEW f \in AnyFrame, Numbered(f) PROVE Numbered(f)'
    OBVIOUS
  <2>2. f.server \in Server /\ f.kind \in Kind /\ f.run \in Nat /\ f.capture_id \in Nat
    BY DEF AnyFrame
  <2>3. CASE f.server = n
    <3>1. \/ f.run < shots[n].run
          \/ f.run = shots[n].run /\ f.capture_id <= shots[n].ids[f.kind]
      BY <2>1, <2>3 DEF Numbered
    <3>2. shots[n].ids[f.kind] \in Nat /\ shots[n].ids[f.kind] <= t.ids[f.kind]
          /\ t.ids[f.kind] \in Nat
      BY <1>2, <1>4, <2>2
    <3>3. QED
      BY <1>4, <1>6, <2>2, <2>3, <3>1, <3>2 DEF Numbered
  <2>4. CASE f.server # n
    BY <1>6, <2>1, <2>2, <2>4 DEF Numbered
  <2>5. QED
    BY <2>3, <2>4
<1>9. \A f \in F : Numbered(f)' /\ f \notin DOMAIN state
  <2>1. SUFFICES ASSUME NEW f \in F PROVE Numbered(f)' /\ f \notin DOMAIN state
    OBVIOUS
  <2>2. Numbered(f)'
    BY <1>4, <1>5, <1>6 DEF Numbered
  <2>3. ~Numbered(f)
    <3>1. f.run = shots[n].run /\ f.capture_id = shots[n].ids[f.kind] + 1 /\ f.server = n
      BY <1>4, <1>5
    <3>2. shots[n].run \in Nat /\ shots[n].ids[f.kind] \in Nat
      BY <1>2, <1>5
    <3>3. QED
      BY <3>1, <3>2 DEF Numbered
  <2>4. QED
    BY <2>2, <2>3 DEF SaverInv, Fresh
<1>10. Fresh'
  <2>1. \A f \in DOMAIN state' : Numbered(f)'
    BY <1>1, <1>8 DEF SaverInv, Fresh, SaverTypeInv
  <2>2. ASSUME NEW m \in Server, NEW f \in inbox'[m]
        PROVE  f.server = m /\ f \notin DOMAIN state' /\ Numbered(f)'
    BY <1>1, <1>5, <1>6, <1>8, <1>9 DEF SaverInv, Fresh, SaverTypeInv
  <2>3. QED
    BY <2>1, <2>2 DEF Fresh
<1>11. Placed' /\ Counts'
  BY <1>1, PlacedSame, CountsSame DEF SaverInv, Working, Counts
<1>12. Owed'
  BY <1>1, OwedSame DEF SaverInv, Pushing
<1>13. Leaving'
  BY <1>1 DEF SaverInv, Leaving
<1>14. QED
  BY <1>7, <1>10, <1>11, <1>12, <1>13 DEF SaverInv

LEMMA StartKeeps ==
  ASSUME SaverInv, NEW n \in Server, startCameras(n)
  PROVE  SaverInv'
<1>. DEFINE t == FirstShot(shots[n].run + 1)
<1>1. /\ shots' = [shots EXCEPT ![n] = t] /\ inbox[n] = {} /\ UNCHANGED inbox
      /\ UNCHANGED <<enabled, queue, busy, stop, pending, state, done, dirs, files, worker,
                     sender, flusher, dtor>>
  BY DEF startCameras
<1>2. shots[n].run \in Nat
  BY DEF SaverInv, SaverTypeInv
<1>3. /\ t.run = shots[n].run + 1
      /\ t \in [run : Nat, total : Nat, last : Nat, ids : [Kind -> Nat]]
  BY <1>2 DEF FirstShot
<1>. HIDE DEF t
<1>4. \A m \in Server : shots'[m] = IF m = n THEN t ELSE shots[m]
  BY <1>1 DEF SaverInv, SaverTypeInv
<1>5. SaverTypeInv'
  BY <1>1, <1>3 DEF SaverInv, SaverTypeInv
<1>6. \A f \in AnyFrame : Numbered(f) => Numbered(f)'
  <2>1. SUFFICES ASSUME NEW f \in AnyFrame, Numbered(f) PROVE Numbered(f)'
    OBVIOUS
  <2>2. f.server \in Server /\ f.run \in Nat
    BY DEF AnyFrame
  <2>3. CASE f.server = n
    <3>1. f.run <= shots[n].run
      BY <1>2, <2>1, <2>2, <2>3 DEF Numbered
    <3>2. f.run < t.run
      BY <1>2, <1>3, <2>2, <3>1
    <3>3. QED
      BY <1>4, <2>2, <2>3, <3>2 DEF Numbered
  <2>4. CASE f.server # n
    BY <1>4, <2>1, <2>2, <2>4 DEF Numbered
  <2>5. QED
    BY <2>3, <2>4
<1>7. Fresh'
  <2>1. \A f \in DOMAIN state' : Numbered(f)'
    BY <1>1, <1>6 DEF SaverInv, Fresh, SaverTypeInv
  <2>2. ASSUME NEW m \in Server, NEW f \in inbox'[m]
        PROVE  f.server = m /\ f \notin DOMAIN state' /\ Numbered(f)'
    BY <1>1, <1>6 DEF SaverInv, Fresh, SaverTypeInv
  <2>3. QED
    BY <2>1, <2>2 DEF Fresh
<1>8. Placed' /\ Counts'
  BY <1>1, PlacedSame, CountsSame DEF SaverInv, Working, Counts
<1>9. Owed'
  BY <1>1, OwedSame DEF SaverInv, Pushing
<1>10. Leaving'
  BY <1>1 DEF SaverInv, Leaving
<1>11. QED
  BY <1>5, <1>7, <1>8, <1>9, <1>10 DEF SaverInv

-----------------------------------------------------------------------------
(* save().  A frame that is taken on is new, so the number of frames and   *)
(* the number of threads about to push grow together.                      *)
LEMMA SaveBeginKeeps ==
  ASSUME SaverInv, NEW n \in Server, NEW f \in inbox[n], saveBegin(n, f)
  PROVE  SaverInv'
<1>. DEFINE st == IF enabled THEN "Saving" ELSE "NotSaved"
            p  == [pc |-> "push", frame |-> f]
<1>1. /\ sender[n].pc = "idle"
      /\ inbox' = [inbox EXCEPT ![n] = @ \ {f}]
      /\ state' = [g \in DOMAIN state \cup {f} |-> IF g = f THEN st ELSE state[g]]
      /\ sender' = IF enabled THEN [sender EXCEPT ![n] = p] ELSE sender
      /\ UNCHANGED <<enabled, queue, busy, stop, pending, done, dirs, files, worker,
                     flusher, dtor, shots>>
  BY DEF saveBegin
<1>2. st \in SaveState /\ (st # "NotSaved" <=> enabled)
  BY DEF SaveState
<1>3. f \in AnyFrame /\ f.server = n /\ f \notin DOMAIN state /\ Numbered(f)
  BY DEF SaverInv, SaverTypeInv, Fresh
<1>4. /\ p \in [pc : {"idle", "push", "notify"}, frame : AnyFrame \cup {NoFrame}]
      /\ p.pc = "push" /\ p.frame = f
  BY <1>3
<1>. HIDE DEF st, p
<1>5. /\ DOMAIN state' = DOMAIN state \cup {f} /\ state'[f] = st
      /\ \A g \in DOMAIN state : state'[g] = state[g]
  BY <1>1, <1>3
<1>6. inbox' \in [Server -> SUBSET AnyFrame] /\ inbox'[n] = inbox[n] \ {f}
      /\ \A m \in Server : m # n => inbox'[m] = inbox[m]
  BY <1>1 DEF SaverInv, SaverTypeInv
<1>7. SaverTypeInv'
  <2>1. DOMAIN state' \subseteq AnyFrame /\ state' \in [DOMAIN state' -> SaveState]
    BY <1>1, <1>2, <1>3 DEF SaverInv, SaverTypeInv
  <2>2. sender' \in [Server -> [pc : {"idle", "push", "notify"}, frame : AnyFrame \cup {NoFrame}]]
    BY <1>1, <1>4 DEF SaverInv, SaverTypeInv
  <2>3. QED
    BY <1>1, <1>6, <2>1, <2>2 DEF SaverInv, SaverTypeInv
<1>8. Fresh'
  <2>1. \A g \in AnyFrame : Numbered(g)' <=> Numbered(g)
    BY <1>1 DEF Numbered
  <2>2. \A g \in DOMAIN state' : Numbered(g)'
    BY <1>3, <1>5, <2>1 DEF SaverInv, SaverTypeInv, Fresh
  <2>3. ASSUME NEW m \in Server, NEW g \in inbox'[m]
        PROVE  g.server = m /\ g \notin DOMAIN state' /\ Numbered(g)'
    <3>1. g \in inbox[m] /\ g # f
      BY <1>3, <1>6 DEF SaverInv, Fresh
    <3>2. QED
      BY <1>5, <2>1, <3>1 DEF SaverInv, SaverTypeInv, Fresh
  <2>4. QED
    BY <2>2, <2>3 DEF Fresh
<1>9. Accepted' = IF enabled THEN Accepted \cup {f} ELSE Accepted
  BY <1>2, <1>3, <1>5 DEF Accepted
<1>10. \A g \in Accepted : g # f /\ (Settled(g)' <=> Settled(g))
  BY <1>3, <1>5 DEF Accepted, Settled
<1>11. \A m \in Server : sender'[m] = IF enabled /\ m = n THEN p ELSE sender[m]
  BY <1>1 DEF SaverInv, SaverTypeInv
<1>12. Pushing' = IF enabled THEN Pushing \cup {n} ELSE Pushing
  BY <1>4, <1>11 DEF Pushing
<1>13. n \notin Pushing /\ f \notin Accepted
  BY <1>1, <1>3 DEF Pushing, Accepted
<1>14. Placed'
  <2>1. Elements(queue)' = Elements(queue) /\ Distinct(queue)' /\ (Working' <=> Working)
        /\ worker' = worker
    BY <1>1 DEF SaverInv, Placed, Working, Elements, Distinct
  <2>2. Elements(queue) \subseteq Accepted /\ (Working => worker.job \in Accepted)
    BY DEF SaverInv, Placed
  <2>3. \A m \in Pushing' : /\ sender'[m].frame \in Accepted' /\ sender'[m].frame.server = m
                            /\ sender'[m].frame \notin Elements(queue)
    <3>1. ASSUME NEW m \in Pushing
          PROVE  /\ sender'[m].frame \in Accepted' /\ sender'[m].frame.server = m
                 /\ sender'[m].frame \notin Elements(queue)
      BY <1>9, <1>11, <1>13 DEF SaverInv, Placed, Pushing
    <3>2. ASSUME enabled
          PROVE  /\ sender'[n].frame \in Accepted' /\ sender'[n].frame.server = n
                 /\ sender'[n].frame \notin Elements(queue)
      BY <1>3, <1>4, <1>9, <1>11, <1>13, <2>2, <3>2
    <3>3. QED
      BY <1>12, <3>1, <3>2
  <2>4. \A g \in Accepted' : \/ Settled(g)'
                             \/ g \in Elements(queue)
                             \/ Working /\ worker.job = g
                             \/ \E m \in Pushing' : sender'[m].frame = g
    <3>1. ASSUME NEW g \in Accepted
          PROVE  \/ Settled(g)'
                 \/ g \in Elements(queue)
                 \/ Working /\ worker.job = g
                 \/ \E m \in Pushing' : sender'[m].frame = g
      <4>1. CASE \E m \in Pushing : sender[m].frame = g
        BY <1>11, <1>12, <1>13, <4>1 DEF Pushing
      <4>2. QED
        BY <1>10, <4>1 DEF SaverInv, Placed
    <3>2. ASSUME enabled
          PROVE  \E m \in Pushing' : sender'[m].frame = f
      BY <1>4, <1>11, <1>12, <3>2
    <3>3. QED
      BY <1>9, <3>1, <3>2
  <2>5. QED
    BY <1>9, <2>1, <2>2, <2>3, <2>4 DEF Placed
<1>15. Counts'
  <2>1. CASE ~enabled
    BY <1>1, <1>9, <1>12, <2>1 DEF SaverInv, Counts, Working, Busy
  <2>2. CASE enabled
    <3>1. /\ IsFiniteSet(Accepted') /\ Cardinality(Accepted') = Cardinality(Accepted) + 1
          /\ Cardinality(Pushing') = Cardinality(Pushing) + 1
      BY <1>9, <1>12, <1>13, <2>2, FS_AddElement, PushingFinite DEF SaverInv, Counts
    <3>2. Cardinality(Pushing) \in Nat /\ done \in Nat /\ pending \in Nat
          /\ Cardinality(Accepted) = done + pending + Cardinality(Pushing)
      BY PushingFinite DEF SaverInv, SaverTypeInv, Counts
    <3>3. Cardinality(Accepted') = done' + pending' + Cardinality(Pushing')
      BY <1>1, <3>1, <3>2
    <3>4. QED
      BY <1>1, <3>1, <3>3 DEF SaverInv, Counts, Working, Busy
  <2>3. QED
    BY <2>1, <2>2
<1>16. Owed'
  <2>1. flusher' = flusher
    BY <1>1
  <2>2. ASSUME flusher.pc # "idle"
        PROVE  /\ flusher.owed \subseteq Accepted'
               /\ \A m \in Pushing' : sender'[m].frame \notin flusher.owed
    <3>1. flusher.owed \subseteq Accepted
      BY <2>2 DEF SaverInv, Owed
    <3>2. \A m \in Pushing : sender'[m].frame \notin flusher.owed
      BY <1>11, <1>13, <2>2 DEF SaverInv, Owed, Pushing
    <3>3. enabled => sender'[n].frame \notin flusher.owed
      BY <1>4, <1>11, <1>13, <3>1
    <3>4. QED
      BY <1>9, <1>12, <3>1, <3>2, <3>3
  <2>3. FlushWaitsForWrites'
    BY <1>10, <2>1 DEF SaverInv, Owed, FlushWaitsForWrites
  <2>4. QED
    BY <2>1, <2>2, <2>3 DEF Owed
<1>17. Leaving'
  <2>1. ~stop
    BY DEF SaverInv, Leaving
  <2>2. QED
    BY <1>1, <2>1 DEF SaverInv, Leaving
<1>18. QED
  BY <1>7, <1>8, <1>14, <1>15, <1>16, <1>17 DEF SaverInv

LEMMA SavePushKeeps ==
  ASSUME SaverInv, NEW n \in Server, savePush(n)
  PROVE  SaverInv'
<1>. DEFINE f == sender[n].frame
<1>1. /\ sender[n].pc = "push" /\ queue' = Append(queue, f)
      /\ pending' = Len(queue') + (IF busy THEN 1 ELSE 0)
      /\ sender' = [sender EXCEPT ![n].pc = "notify"]
      /\ UNCHANGED <<enabled, busy, stop, state, done, dirs, files, worker, flusher,
                     dtor, camera>>
  BY DEF savePush, pendingAfterPush
<1>2. n \in Pushing
  BY <1>1 DEF Pushing
<1>3. f \in Accepted /\ f.server = n /\ f \notin Elements(queue)
  BY <1>2 DEF SaverInv, Placed
<1>4. f \in AnyFrame /\ queue \in Seq(AnyFrame) /\ Len(queue) \in Nat
  BY <1>3, LenProperties DEF SaverInv, SaverTypeInv, Accepted
<1>. HIDE DEF f
<1>5. /\ queue' \in Seq(AnyFrame) /\ Len(queue') = Len(queue) + 1
      /\ Elements(queue') = Elements(queue) \cup {f} /\ Distinct(queue')
  BY <1>1, <1>3, <1>4, AppendElements DEF SaverInv, Placed
<1>6. /\ sender' \in [Server -> [pc : {"idle", "push", "notify"}, frame : AnyFrame \cup {NoFrame}]]
      /\ sender'[n].pc = "notify" /\ \A m \in Server : m # n => sender'[m] = sender[m]
  BY <1>1 DEF SaverInv, SaverTypeInv
<1>7. Pushing' = Pushing \ {n}
  BY <1>6 DEF Pushing
<1>8. pending' = Len(queue) + 1 + Busy /\ Busy \in Nat /\ pending = Len(queue) + Busy
  BY <1>1, <1>4, <1>5 DEF Busy, SaverInv, Counts
<1>9. SaverTypeInv'
  BY <1>1, <1>4, <1>5, <1>6, <1>8 DEF SaverInv, SaverTypeInv, camera
<1>10. Fresh'
  BY <1>1, FreshSame DEF SaverInv
<1>11. Accepted' = Accepted /\ \A g : Settled(g)' <=> Settled(g)
  BY <1>1 DEF Accepted, Settled
<1>12. Placed'
  <2>1. \A m \in Pushing' : /\ sender'[m].frame \in Accepted /\ sender'[m].frame.server = m
                            /\ sender'[m].frame \notin Elements(queue')
    <3>1. SUFFICES ASSUME NEW m \in Pushing, m # n
                   PROVE  /\ sender[m].frame \in Accepted /\ sender[m].frame.server = m
                          /\ sender[m].frame \notin Elements(queue')
      BY <1>6, <1>7 DEF Pushing
    <3>2. sender[m].frame # f
      BY <1>3, <3>1 DEF SaverInv, Placed
    <3>3. QED
      BY <1>5, <3>2 DEF SaverInv, Placed
  <2>2. Elements(queue') \subseteq Accepted /\ Distinct(queue') /\ (Working' => worker'.job \in Accepted)
    BY <1>1, <1>3, <1>5 DEF SaverInv, Placed, Working
  <2>3. \A g \in Accepted : \/ Settled(g)
                            \/ g \in Elements(queue')
                            \/ Working' /\ worker'.job = g
                            \/ \E m \in Pushing' : sender'[m].frame = g
    <3>1. SUFFICES ASSUME NEW g \in Accepted, NEW m \in Pushing, sender[m].frame = g
                   PROVE  g \in Elements(queue') \/ \E l \in Pushing' : sender'[l].frame = g
      BY <1>1, <1>5 DEF SaverInv, Placed, Working
    <3>2. m = n => g = f
      BY <3>1 DEF f
    <3>3. QED
      BY <1>5, <1>6, <1>7, <3>1, <3>2 DEF Pushing
  <2>4. QED
    BY <1>11, <2>1, <2>2, <2>3 DEF Placed
<1>13. Counts'
  <2>1. Cardinality(Pushing') = Cardinality(Pushing) - 1
    BY <1>2, <1>7, FS_RemoveElement, PushingFinite
  <2>2. Cardinality(Pushing) \in Nat /\ done \in Nat
        /\ Cardinality(Accepted) = done + pending + Cardinality(Pushing)
    BY PushingFinite DEF SaverInv, SaverTypeInv, Counts
  <2>3. Cardinality(Accepted') = done' + pending' + Cardinality(Pushing')
    BY <1>1, <1>4, <1>8, <1>11, <2>1, <2>2
  <2>4. pending' = Len(queue') + Busy'
    BY <1>1 DEF Busy
  <2>5. QED
    BY <1>1, <1>11, <2>3, <2>4 DEF SaverInv, Counts, Working
<1>14. Owed'
  BY <1>1, <1>6, <1>7, OwedSame DEF SaverInv, Pushing
<1>15. Leaving'
  BY <1>1 DEF SaverInv, Leaving, camera
<1>16. QED
  BY <1>9, <1>10, <1>12, <1>13, <1>14, <1>15 DEF SaverInv

(* A step that changes nothing but program points outside a job.           *)
LEMMA PointKeeps ==
  ASSUME SaverInv, SaverTypeInv', Leaving',
         UNCHANGED <<queue, busy, pending, state, done, flusher, camera>>,
         Working' <=> Working, Working => worker'.job = worker.job,
         worker'.pc = "count" <=> worker.pc = "count",
         \A n \in Server : sender'[n] = sender[n] \/ (sender[n].pc # "push" /\ sender'[n].pc # "push")
  PROVE  SaverInv'
<1>1. Pushing' = Pushing /\ \A n \in Pushing : sender'[n] = sender[n]
  BY DEF Pushing
<1>2. Accepted' = Accepted /\ \A f : Settled(f)' <=> Settled(f)
  BY DEF Accepted, Settled
<1>3. Fresh'
  BY FreshSame DEF SaverInv
<1>4. Placed'
  BY <1>1, <1>2 DEF SaverInv, Placed
<1>5. Counts'
  BY <1>1, <1>2 DEF SaverInv, Counts, Busy
<1>6. Owed'
  BY <1>1, OwedSame DEF SaverInv
<1>7. QED
  BY <1>3, <1>4, <1>5, <1>6 DEF SaverInv

LEMMA WokenKeeps ==
  ASSUME SaverInv, worker' = woken
  PROVE  /\ worker'.pc = (IF worker.pc = "asleep" THEN "check" ELSE worker.pc)
         /\ worker'.job = worker.job
         /\ worker' \in [pc : {"check", "asleep", "write", "saved", "failed", "count", "notify",
                               "gone"}, job : AnyFrame \cup {NoFrame}]
BY DEF SaverInv, SaverTypeInv, woken

LEMMA SaveNotifyKeeps ==
  ASSUME SaverInv, NEW n \in Server, saveNotify(n)
  PROVE  SaverInv'
<1>. DEFINE p == [pc |-> "idle", frame |-> NoFrame]
<1>1. /\ sender[n].pc = "notify" /\ worker' = woken /\ sender' = [sender EXCEPT ![n] = p]
      /\ UNCHANGED <<enabled, queue, busy, stop, pending, state, done, dirs, files,
                     flusher, dtor, camera>>
  BY DEF saveNotify
<1>2. p.pc = "idle" /\ p \in [pc : {"idle", "push", "notify"}, frame : AnyFrame \cup {NoFrame}]
  OBVIOUS
<1>. HIDE DEF p
<1>3. \A m \in Server : sender'[m] = IF m = n THEN p ELSE sender[m]
  BY <1>1 DEF SaverInv, SaverTypeInv
<1>4. SaverTypeInv'
  BY <1>1, <1>2, WokenKeeps DEF SaverInv, SaverTypeInv, camera
<1>5. Leaving'
  BY <1>1, <1>2, <1>3, WokenKeeps DEF SaverInv, Leaving, camera
<1>6. QED
  BY <1>1, <1>2, <1>3, <1>4, <1>5, WokenKeeps, PointKeeps DEF Working

-----------------------------------------------------------------------------
(* loop().                                                                 *)
LEMMA TakeJobKeeps ==
  ASSUME SaverInv, workerCheck
  PROVE  SaverInv'
<1>1. worker.pc = "check" /\ takeJob
      /\ UNCHANGED <<enabled, stop, pending, state, done, dirs, files, sender, flusher,
                     dtor, camera>>
  BY DEF workerCheck
<1>2. CASE queue # <<>> /\ startJob(Head(queue))
  <2>. DEFINE f == Head(queue)
  <2>1. /\ worker' = [pc |-> "write", job |-> f] /\ queue' = Tail(queue) /\ busy' = TRUE
    BY <1>2 DEF startJob
  <2>2. /\ queue' \in Seq(AnyFrame) /\ f \in AnyFrame /\ Len(queue') = Len(queue) - 1
        /\ Elements(queue) = Elements(queue') \cup {f} /\ Distinct(queue')
    BY <1>2, <2>1, TailElements DEF SaverInv, SaverTypeInv, Placed
  <2>3. Len(queue) \in Nat
    BY LenProperties DEF SaverInv, SaverTypeInv
  <2>. HIDE DEF f
  <2>4. worker'.pc = "write" /\ worker'.job = f /\ Working'
    BY <2>1 DEF Working
  <2>5. ~Working /\ ~busy
    BY <1>1 DEF Working, SaverInv, Counts
  <2>6. Accepted' = Accepted /\ Pushing' = Pushing /\ \A g : Settled(g)' <=> Settled(g)
    BY <1>1 DEF Accepted, Pushing, Settled
  <2>7. SaverTypeInv'
    BY <1>1, <2>1, <2>2 DEF SaverInv, SaverTypeInv, camera
  <2>8. Placed'
    BY <1>1, <2>2, <2>4, <2>5, <2>6 DEF SaverInv, Placed
  <2>9. Counts'
    <3>1. pending' = Len(queue') + Busy'
      BY <1>1, <2>1, <2>2, <2>3, <2>5 DEF SaverInv, Counts, Busy
    <3>2. QED
      BY <1>1, <2>1, <2>4, <2>6, <3>1 DEF SaverInv, Counts
  <2>10. Fresh' /\ Owed'
    BY <1>1, <2>6, FreshSame, OwedSame DEF SaverInv
  <2>11. Leaving'
    BY <1>1, <2>4 DEF SaverInv, Leaving, camera
  <2>12. QED
    BY <2>7, <2>8, <2>9, <2>10, <2>11 DEF SaverInv
<1>3. ASSUME NEW pc \in {"gone", "asleep"}, turnTo(pc), queue = <<>>, pc = "gone" => stop
      PROVE  SaverInv'
  <2>1. worker' = [worker EXCEPT !.pc = pc] /\ UNCHANGED <<queue, busy>>
    BY <1>3 DEF turnTo
  <2>2. worker'.pc = pc /\ SaverTypeInv'
    BY <1>1, <2>1 DEF SaverInv, SaverTypeInv, camera
  <2>3. Leaving'
    BY <1>1, <1>3, <2>1, <2>2 DEF SaverInv, Leaving, camera
  <2>4. QED
    BY <1>1, <2>1, <2>2, <2>3, PointKeeps DEF Working
<1>4. QED
  BY <1>1, <1>2, <1>3 DEF takeJob

LEMMA WriteKeeps ==
  ASSUME SaverInv, (\E ok, image \in BOOLEAN : write(ok, image)) \/ writeNoDir
  PROVE  SaverInv'
<1>1. PICK pc \in {"saved", "failed"} :
        /\ worker.pc = "write" /\ worker' = [worker EXCEPT !.pc = pc]
        /\ UNCHANGED <<enabled, queue, busy, stop, pending, state, done, sender, flusher,
                       dtor, camera>>
  <2>1. CASE writeNoDir
    BY <2>1 DEF writeNoDir
  <2>2. ASSUME NEW ok \in BOOLEAN, NEW image \in BOOLEAN, write(ok, image)
        PROVE  /\ worker.pc = "write"
               /\ \/ worker' = [worker EXCEPT !.pc = "saved"]
                  \/ worker' = [worker EXCEPT !.pc = "failed"]
               /\ UNCHANGED <<enabled, queue, busy, stop, pending, state, done, sender, flusher,
                              dtor, camera>>
    BY <2>2 DEF write
  <2>3. QED
    BY <2>1, <2>2
<1>2. worker'.pc = pc /\ worker'.job = worker.job /\ SaverTypeInv'
  BY <1>1 DEF SaverInv, SaverTypeInv, camera
<1>3. Leaving'
  BY <1>1, <1>2 DEF SaverInv, Leaving, camera
<1>4. QED
  BY <1>1, <1>2, <1>3, PointKeeps DEF Working

LEMMA StoreStateKeeps ==
  ASSUME SaverInv, storeState
  PROVE  SaverInv'
<1>. DEFINE f == worker.job
            st == IF worker.pc = "saved" THEN "Saved" ELSE "Failed"
<1>1. /\ worker.pc \in {"saved", "failed"}
      /\ state' = [state EXCEPT ![f] = st] /\ worker' = [worker EXCEPT !.pc = "count"]
      /\ UNCHANGED <<enabled, queue, busy, stop, pending, done, dirs, files, sender,
                     flusher, dtor, camera>>
  BY DEF storeState
<1>2. st \in {"Saved", "Failed"}
  OBVIOUS
<1>. HIDE DEF st
<1>3. Working /\ f \in Accepted
  BY <1>1 DEF Working, SaverInv, Placed
<1>4. f \in DOMAIN state
  BY <1>3 DEF Accepted
<1>5. /\ DOMAIN state' = DOMAIN state /\ state'[f] = st
      /\ \A g \in DOMAIN state : g # f => state'[g] = state[g]
      /\ state' \in [DOMAIN state -> SaveState]
  BY <1>1, <1>2, <1>4 DEF SaverInv, SaverTypeInv, SaveState
<1>6. Accepted' = Accepted /\ Pushing' = Pushing
  BY <1>1, <1>2, <1>3, <1>5 DEF Accepted, Pushing
<1>7. \A g \in Accepted : Settled(g) \/ g = f => Settled(g)'
  BY <1>2, <1>5 DEF Accepted, Settled
<1>8. worker'.pc = "count" /\ SaverTypeInv'
  BY <1>1, <1>5 DEF SaverInv, SaverTypeInv, camera
<1>9. ~Working'
  BY <1>8 DEF Working
<1>10. Fresh'
  BY <1>1, <1>5, FreshSame DEF SaverInv
<1>11. Placed'
  <2>1. \A g \in Accepted : \/ Settled(g)'
                            \/ g \in Elements(queue)
                            \/ \E n \in Pushing : sender[n].frame = g
    BY <1>7 DEF SaverInv, Placed
  <2>2. QED
    BY <1>1, <1>6, <1>9, <2>1 DEF SaverInv, Placed
<1>12. Counts'
  BY <1>1, <1>3, <1>6, <1>8 DEF SaverInv, Counts, Busy
<1>13. Owed'
  BY <1>1, <1>6, <1>7 DEF SaverInv, Owed, FlushWaitsForWrites
<1>14. Leaving'
  BY <1>1, <1>8 DEF SaverInv, Leaving, camera
<1>15. QED
  BY <1>8, <1>10, <1>11, <1>12, <1>13, <1>14 DEF SaverInv

LEMMA FinishJobKeeps ==
  ASSUME SaverInv, finishJob
  PROVE  SaverInv'
<1>1. /\ worker.pc = "count"
      /\ busy' = FALSE /\ pending' = Len(queue) /\ done' = done + 1
      /\ worker' = [pc |-> "notify", job |-> NoFrame]
      /\ UNCHANGED <<enabled, queue, stop, state, dirs, files, sender, flusher, dtor, camera>>
  BY DEF finishJob
<1>2. worker'.pc = "notify" /\ ~Working /\ ~Working'
  BY <1>1 DEF Working
<1>3. Len(queue) \in Nat
  BY LenProperties DEF SaverInv, SaverTypeInv
<1>4. SaverTypeInv'
  <2>1. /\ done' \in Nat /\ pending' \in Nat /\ busy' \in BOOLEAN
        /\ worker' \in [pc : {"check", "asleep", "write", "saved", "failed", "count", "notify",
                              "gone"}, job : AnyFrame \cup {NoFrame}]
    <3>1. done \in Nat
      BY DEF SaverInv, SaverTypeInv
    <3>2. done' \in Nat /\ pending' \in Nat
      BY <1>1, <1>3, <3>1
    <3>3. busy' \in BOOLEAN
      BY <1>1
    <3>4. QED
      BY <1>1, <3>2, <3>3
  <2>2. DOMAIN state' \subseteq AnyFrame /\ state' \in [DOMAIN state' -> SaveState]
    BY <1>1 DEF SaverInv, SaverTypeInv
  <2>3. SaverTypeInv /\ UNCHANGED <<queue, stop, sender, flusher, dtor, shots, inbox>>
    BY <1>1 DEF SaverInv, camera
  <2>4. QED
    BY <2>1, <2>2, <2>3 DEF SaverTypeInv
<1>5. Fresh' /\ Placed'
  BY <1>1, <1>2, FreshSame, PlacedSame DEF SaverInv
<1>6. Owed'
  BY <1>1, OwedSame DEF SaverInv, Pushing
<1>7. Counts'
  <2>1. busy /\ pending = Len(queue) + 1
    BY <1>1 DEF SaverInv, Counts, Busy
  <2>2. Accepted' = Accepted /\ Pushing' = Pushing
    BY <1>1 DEF Accepted, Pushing
  <2>3. pending' = Len(queue') + Busy'
    BY <1>1, <1>3 DEF Busy
  <2>4. Cardinality(Accepted) = done + pending + Cardinality(Pushing)
        /\ Cardinality(Pushing) \in Nat /\ done \in Nat
    BY PushingFinite DEF SaverInv, SaverTypeInv, Counts
  <2>5. Cardinality(Accepted) = (done + 1) + Len(queue) + Cardinality(Pushing)
    BY <1>3, <2>1, <2>4
  <2>6. QED
    BY <1>1, <1>2, <2>2, <2>3, <2>5 DEF SaverInv, Counts
<1>8. Leaving'
  BY <1>1, <1>2 DEF SaverInv, Leaving, camera
<1>9. QED
  BY <1>4, <1>5, <1>6, <1>7, <1>8 DEF SaverInv

-----------------------------------------------------------------------------
(* flush() returns when nothing is queued or with the worker: each frame   *)
(* it waits for is then settled, for it was not about to be pushed.        *)
LEMMA FlusherKeeps ==
  ASSUME SaverInv, flushCall \/ flushCheck \/ flushDone \/ notifyIdle
  PROVE  SaverInv'
<1>1. UNCHANGED <<queue, busy, stop, pending, state, done, sender, dtor, camera>>
  BY DEF flushCall, flushCheck, flushDone, notifyIdle
<1>2. /\ Working' <=> Working
      /\ worker'.job = worker.job
      /\ worker'.pc = worker.pc \/ (worker.pc = "notify" /\ worker'.pc = "check")
      /\ worker' \in [pc : {"check", "asleep", "write", "saved", "failed", "count", "notify",
                            "gone"}, job : AnyFrame \cup {NoFrame}]
  <2>1. CASE notifyIdle
    BY <2>1 DEF notifyIdle, SaverInv, SaverTypeInv, Working
  <2>2. CASE worker' = worker
    BY <2>2 DEF SaverInv, SaverTypeInv, Working
  <2>3. QED
    BY <2>1, <2>2 DEF flushCall, flushCheck, flushDone
<1>3. Accepted' = Accepted /\ Pushing' = Pushing /\ \A f : Settled(f)' <=> Settled(f)
  BY <1>1 DEF Accepted, Pushing, Settled
<1>4. Fresh' /\ Placed'
  BY <1>1, <1>2, FreshSame, PlacedSame DEF SaverInv
<1>5. Counts'
  BY <1>1, <1>2, CountsSame DEF SaverInv, Counts
<1>6. Leaving'
  BY <1>1, <1>2 DEF SaverInv, Leaving, camera
<1>7. flusher' \in [pc : {"idle", "check", "asleep", "returned"}, owed : SUBSET AnyFrame, calls : Nat]
      /\ Owed'
  <2>0. /\ flusher \in [pc : {"idle", "check", "asleep", "returned"}, owed : SUBSET AnyFrame,
                        calls : Nat]
        /\ Accepted \subseteq AnyFrame
    BY DEF SaverInv, SaverTypeInv, Accepted
  <2>1. CASE flushCall
    <3>. DEFINE owed == {f \in Accepted : \A n \in Server : sender[n].frame # f
                                             \/ sender[n].pc # "push"}
    <3>1. flusher' = [pc |-> "check", calls |-> flusher.calls + 1, owed |-> owed]
      BY <2>1 DEF flushCall
    <3>2. owed \subseteq Accepted /\ \A n \in Pushing : sender[n].frame \notin owed
      BY DEF Pushing
    <3>. HIDE DEF owed
    <3>3. flusher.calls + 1 \in Nat /\ owed \in SUBSET AnyFrame
      BY <2>0, <3>2
    <3>4. flusher'.pc = "check" /\ flusher'.owed = owed
      BY <3>1
    <3>5. Owed'
      BY <1>1, <1>3, <3>2, <3>4 DEF Owed, FlushWaitsForWrites
    <3>6. QED
      BY <3>1, <3>3, <3>5
  <2>2. CASE flushCheck
    <3>. DEFINE pc == IF idle THEN "returned" ELSE "asleep"
    <3>1. flusher.pc = "check" /\ flusher' = [flusher EXCEPT !.pc = pc]
      BY <2>2 DEF flushCheck
    <3>2. pc \in {"returned", "asleep"} /\ (pc = "returned" => queue = <<>> /\ ~busy)
      BY DEF idle
    <3>. HIDE DEF pc
    <3>3. flusher'.pc = pc /\ flusher'.owed = flusher.owed
      BY <2>0, <3>1
    <3>4. /\ flusher.owed \subseteq Accepted
          /\ \A n \in Pushing : sender[n].frame \notin flusher.owed
      BY <3>1 DEF SaverInv, Owed
    <3>5. ASSUME pc = "returned", NEW f \in flusher.owed
          PROVE  Settled(f)
      <4>1. Elements(queue) = {}
        BY <3>2, <3>5 DEF Elements
      <4>2. ~Working
        BY <3>2, <3>5 DEF SaverInv, Counts
      <4>3. QED
        BY <3>4, <4>1, <4>2 DEF SaverInv, Placed
    <3>6. Owed'
      BY <1>1, <1>3, <3>3, <3>4, <3>5 DEF Owed, FlushWaitsForWrites
    <3>7. QED
      BY <2>0, <3>1, <3>2, <3>6
  <2>3. CASE flushDone
    <3>1. flusher' = [flusher EXCEPT !.pc = "idle", !.owed = {}]
      BY <2>3 DEF flushDone
    <3>2. flusher'.pc = "idle"
      BY <2>0, <3>1
    <3>3. QED
      BY <2>0, <3>1, <3>2 DEF Owed, FlushWaitsForWrites
  <2>4. CASE notifyIdle
    <3>1. flusher' = IF flusher.pc = "asleep" THEN [flusher EXCEPT !.pc = "check"] ELSE flusher
      BY <2>4 DEF notifyIdle, idleNotified
    <3>2. CASE flusher.pc = "asleep"
      <4>1. flusher' = [flusher EXCEPT !.pc = "check"]
        BY <3>1, <3>2
      <4>2. flusher'.pc = "check" /\ flusher'.owed = flusher.owed
        BY <2>0, <4>1
      <4>3. QED
        BY <1>1, <1>3, <2>0, <3>2, <4>1, <4>2 DEF SaverInv, Owed, FlushWaitsForWrites
    <3>3. CASE flusher.pc # "asleep"
      BY <1>1, <1>3, <2>0, <3>1, <3>3 DEF SaverInv, Owed, FlushWaitsForWrites
    <3>4. QED
      BY <3>2, <3>3
  <2>5. QED
    BY <2>1, <2>2, <2>3, <2>4
<1>8. SaverTypeInv'
  <2>1. SaverTypeInv /\ UNCHANGED <<shots, inbox>>
    BY <1>1 DEF SaverInv, camera
  <2>2. DOMAIN state' \subseteq AnyFrame /\ state' \in [DOMAIN state' -> SaveState]
    BY <1>1, <2>1 DEF SaverTypeInv
  <2>3. QED
    BY <1>1, <1>2, <1>7, <2>1, <2>2 DEF SaverTypeInv
<1>9. QED
  BY <1>4, <1>5, <1>6, <1>7, <1>8 DEF SaverInv

(* ~CaptureSaver().                                                        *)
LEMMA DtorKeeps ==
  ASSUME SaverInv, dtorStop \/ dtorNotify \/ dtorJoin
  PROVE  SaverInv'
<1>1. UNCHANGED <<queue, busy, pending, state, done, sender, flusher, camera>>
  BY DEF dtorStop, dtorNotify, dtorJoin
<1>2. CASE dtorStop
  <2>1. /\ dtor = "alive" /\ stop' = TRUE /\ dtor' = "notify" /\ worker' = worker
        /\ \A n \in Server : sender[n].pc = "idle" /\ inbox[n] = {}
    BY <1>2 DEF dtorStop
  <2>2. SaverTypeInv' /\ Leaving'
    BY <1>1, <2>1 DEF SaverInv, SaverTypeInv, Leaving, camera
  <2>3. QED
    BY <1>1, <2>1, <2>2, PointKeeps DEF Working
<1>3. CASE dtorNotify
  <2>1. dtor = "notify" /\ dtor' = "join" /\ worker' = woken /\ stop' = stop
    BY <1>3 DEF dtorNotify
  <2>2. SaverTypeInv' /\ Leaving'
    BY <1>1, <2>1, WokenKeeps DEF SaverInv, SaverTypeInv, Leaving, camera
  <2>3. QED
    BY <1>1, <2>1, <2>2, WokenKeeps, PointKeeps DEF Working
<1>4. CASE dtorJoin
  <2>1. dtor = "join" /\ dtor' = "destroyed" /\ worker' = worker /\ stop' = stop /\ worker.pc = "gone"
    BY <1>4 DEF dtorJoin
  <2>2. SaverTypeInv' /\ Leaving'
    BY <1>1, <2>1 DEF SaverInv, SaverTypeInv, Leaving, camera
  <2>3. QED
    BY <1>1, <2>1, <2>2, PointKeeps DEF Working
<1>5. QED
  BY <1>2, <1>3, <1>4

LEMMA IdleKeeps ==
  ASSUME SaverInv, UNCHANGED <<queue, busy, stop, pending, state, done, worker, sender, flusher,
                               dtor, camera>>
  PROVE  SaverInv'
<1>1. SaverTypeInv' /\ Leaving'
  BY DEF SaverInv, SaverTypeInv, Leaving, camera
<1>2. QED
  BY <1>1, PointKeeps DEF Working

LEMMA SaverInvStep == SaverInv /\ [Next]_vars => SaverInv'
<1> SUFFICES ASSUME SaverInv, [Next]_vars PROVE SaverInv'
  OBVIOUS
<1>1. CASE UNCHANGED vars
  BY <1>1, IdleKeeps DEF vars
<1>2. ASSUME NEW on \in BOOLEAN, setEnabled(on) PROVE SaverInv'
  BY <1>2, IdleKeeps DEF setEnabled
<1>3. CASE SaveStep
  BY <1>3, SaveBeginKeeps, SavePushKeeps, SaveNotifyKeeps DEF SaveStep
<1>4. CASE WorkerStep
  BY <1>4, TakeJobKeeps, WriteKeeps, StoreStateKeeps, FinishJobKeeps, FlusherKeeps DEF WorkerStep
<1>5. CASE flushCall \/ FlushStep
  BY <1>5, FlusherKeeps DEF FlushStep
<1>6. CASE dtorStop \/ DtorStep
  BY <1>6, DtorKeeps DEF DtorStep
<1>7. QED
  BY <1>1, <1>2, <1>3, <1>4, <1>5, <1>6, ShootKeeps, StartKeeps DEF Next

-----------------------------------------------------------------------------
(* status() accounts for every frame save() has taken on, and none is      *)
(* queued twice (CaptureSaver.cpp, save, loop and status).                 *)
THEOREM StatusAddsUp == Spec => []EveryFrameAccountedFor
<1>1. SaverInv => EveryFrameAccountedFor
  BY DEF SaverInv, Counts, Placed, Distinct, Pushing, EveryFrameAccountedFor
<1>2. QED
  BY <1>1, SaverInvInit, SaverInvStep, PTL DEF Spec

(* flush() and the destructor return only when what they waited for is     *)
(* written or has failed (CaptureSaver.hpp:60 and 76).                     *)
THEOREM WaitsAreKept == Spec => []WaitedForIsSettled
<1>1. SaverInv => NothingDroppedAtExit
  <2>1. SUFFICES ASSUME SaverInv, dtor = "destroyed", NEW f \in Accepted
                 PROVE  Settled(f)
    BY DEF NothingDroppedAtExit
  <2>2. worker.pc = "gone" /\ queue = <<>> /\ \A n \in Server : sender[n].pc = "idle"
    BY <2>1 DEF SaverInv, Leaving
  <2>3. Elements(queue) = {} /\ Pushing = {} /\ ~Working
    BY <2>2 DEF Elements, Pushing, Working
  <2>4. QED
    BY <2>1, <2>3 DEF SaverInv, Placed
<1>2. SaverInv => WaitedForIsSettled
  BY <1>1 DEF SaverInv, Owed, WaitedForIsSettled
<1>3. QED
  BY <1>2, SaverInvInit, SaverInvStep, PTL DEF Spec

-----------------------------------------------------------------------------
(* The frames captured so far, and those the worker has been at.           *)
Came == DOMAIN state \cup UNION {inbox[n] : n \in Server}
Written == {f \in Accepted : /\ f \notin Elements(queue)
                             /\ ~(worker.pc = "write" /\ worker.job = f)
                             /\ \A n \in Pushing : sender[n].frame # f}

Later(f, g) == f.server = g.server /\ g.run < f.run

(* No camera delivers two frames with one frame id in a run.               *)
NumbersInv ==
  /\ \A f \in Came : /\ f.run <= shots[f.server].run
                     /\ f.run = shots[f.server].run => f.frame_id <= shots[f.server].last
  /\ \A f, g \in Came : f.server = g.server /\ f.run = g.run /\ f.frame_id = g.frame_id
                         /\ f.cam = g.cam => f = g

(* The worker gets the frames of a server in the order of its runs.        *)
InTurn ==
  /\ \A n \in Server : \A g \in inbox[n] : \A f \in Came : ~Later(f, g)
  /\ \A n \in Pushing : \A f \in DOMAIN state : ~Later(f, sender[n].frame)
  /\ \A i, j \in DOMAIN queue : i < j => ~Later(queue[i], queue[j])
  /\ \A h \in Written, g \in Elements(queue) : ~Later(h, g)
  /\ worker.pc = "write" => /\ \A g \in Elements(queue) : ~Later(worker.job, g)
                            /\ \A h \in Written : ~Later(h, worker.job)

(* A frame is in one place while it is being saved.                        *)
OnePlace ==
  /\ \A f \in Elements(queue) : state[f] = "Saving"
  /\ Working => state[worker.job] = "Saving" /\ worker.job \notin Elements(queue)
  /\ \A n \in Pushing : /\ state[sender[n].frame] = "Saving"
                        /\ Working => sender[n].frame # worker.job

(* A saved frame has its files, or frames that may take them over; as long *)
(* as the run of its directory lasts, its key is among those seen.         *)
DirInv(n) ==
  dirs[n] = [run |-> dirs[n].run, seen |-> dirs[n].seen] /\ dirs[n].run \in Nat
FileInv(p) ==
  LET f == files[p]
  IN  f \in Written /\ p = <<f.server, f.cam, f.frame_id, p[4], p[5]>>
HasFiles(f) ==
  \E r \in 0..dirs[f.server].run :
    /\ KeptAt(f, r)
    /\ r = dirs[f.server].run => key(f) \in dirs[f.server].seen
DiskInv ==
  /\ dirs = [n \in Server |-> dirs[n]]
  /\ \A n \in Server : DirInv(n)
  /\ \A p \in DOMAIN files : FileInv(p)
  /\ \A f \in DOMAIN state : state[f] = "Saved" => HasFiles(f)
  /\ worker.pc = "saved" => HasFiles(worker.job)

FilesInv == NumbersInv /\ InTurn /\ OnePlace /\ DiskInv

(* Where the frames are, and their types.                                  *)
LEMMA CameTyped ==
  ASSUME SaverInv
  PROVE  /\ \A f \in Came : /\ f \in AnyFrame /\ f.server \in Server /\ f.kind \in Kind
                            /\ f.cam \in Cam /\ f.run \in Nat /\ f.capture_id \in Nat
                            /\ f.frame_id \in Nat /\ f.image \in BOOLEAN
         /\ Written \subseteq DOMAIN state /\ DOMAIN state \subseteq Came
         /\ Elements(queue) \subseteq DOMAIN state
         /\ \A n \in Pushing : sender[n].frame \in DOMAIN state /\ sender[n].frame.server = n
         /\ Working => worker.job \in DOMAIN state
         /\ \A n \in Server : inbox[n] \subseteq Came
         /\ \A n \in Server : \A f \in inbox[n] : f.server = n /\ f \notin DOMAIN state
         /\ \A f \in Came : f \in DOMAIN state \/ f \in inbox[f.server]
<1>1. DOMAIN state \subseteq AnyFrame /\ inbox \in [Server -> SUBSET AnyFrame]
  BY DEF SaverInv, SaverTypeInv
<1>2. \A f \in Came : f \in AnyFrame
  BY <1>1 DEF Came
<1>3. Written \subseteq DOMAIN state /\ DOMAIN state \subseteq Came
  BY DEF Written, Came, Accepted
<1>4. /\ Elements(queue) \subseteq DOMAIN state
      /\ \A n \in Pushing : sender[n].frame \in DOMAIN state /\ sender[n].frame.server = n
      /\ Working => worker.job \in DOMAIN state
  BY DEF SaverInv, Placed, Accepted
<1>5. \A n \in Server : inbox[n] \subseteq Came
  BY DEF Came
<1>6. \A n \in Server : \A f \in inbox[n] : f.server = n /\ f \notin DOMAIN state
  BY DEF SaverInv, Fresh
<1>7. \A f \in Came : f \in DOMAIN state \/ f \in inbox[f.server]
  BY <1>6 DEF Came
<1>8. QED
  BY <1>2, <1>3, <1>4, <1>5, <1>6, <1>7 DEF AnyFrame

(* Later is an order on captured frames.                                   *)
LEMMA LaterOrders ==
  ASSUME SaverInv, NEW f \in Came, NEW g \in Came
  PROVE  ~Later(f, f) /\ (f.server = g.server /\ ~Later(f, g) => f.run <= g.run)
BY CameTyped DEF Later

-----------------------------------------------------------------------------
(* What each part depends on.                                              *)
LEMMA NumbersSame ==
  ASSUME NumbersInv, Came' = Came, shots' = shots
  PROVE  NumbersInv'
BY DEF NumbersInv

LEMMA DiskSame ==
  ASSUME DiskInv, Written \subseteq Written', UNCHANGED <<dirs, files>>,
         \A f \in DOMAIN state' : state'[f] = "Saved"
           => \/ f \in DOMAIN state /\ state[f] = "Saved"
              \/ worker.pc = "saved" /\ f = worker.job,
         worker'.pc = "saved" => worker.pc = "saved" /\ worker'.job = worker.job
  PROVE  DiskInv'
<1>1. \A n \in Server : DirInv(n)'
  BY DEF DiskInv, DirInv
<1>2. \A p \in DOMAIN files : FileInv(p)'
  BY DEF DiskInv, FileInv
<1>3. \A f : HasFiles(f)' <=> HasFiles(f)
  BY DEF HasFiles, KeptAt, TakesOver, namesAt, key, sidecarOf, imageOf, fileName
<1>4. QED
  BY <1>1, <1>2, <1>3 DEF DiskInv

(* A step that leaves the frames where they are.                           *)
LEMMA PointFiles ==
  ASSUME FilesInv, UNCHANGED <<queue, state, dirs, files, camera>>,
         Pushing' = Pushing, \A n \in Pushing : sender'[n].frame = sender[n].frame,
         \/ worker'.pc = worker.pc /\ worker'.job = worker.job
         \/ ~Working /\ ~Working'
  PROVE  FilesInv'
<1>1. Came' = Came /\ Written' = Written /\ shots' = shots /\ inbox' = inbox
      /\ Elements(queue)' = Elements(queue)
  BY DEF Came, Written, Accepted, camera, Working, Elements
<1>2. NumbersInv'
  BY <1>1, NumbersSame DEF FilesInv
<1>3. InTurn'
  BY <1>1 DEF FilesInv, InTurn, Working, Later
<1>4. OnePlace'
  BY <1>1 DEF FilesInv, OnePlace, Working
<1>5. DiskInv'
  BY <1>1, DiskSame DEF FilesInv, Working
<1>6. QED
  BY <1>2, <1>3, <1>4, <1>5 DEF FilesInv

-----------------------------------------------------------------------------
(* A capture is later than all before it.                                  *)
LEMMA ShootFiles ==
  ASSUME SaverInv, SaverInv', FilesInv, NEW n \in Server, NEW k \in Kind,
         NEW S \in Shots, NEW id \in 1..MaxFrameId, NEW image \in SendImage,
         shoot(n, k, S, id, image)
  PROVE  FilesInv'
<1>. DEFINE t == [shots[n] EXCEPT !.total = @ + 1, !.ids[k] = @ + 1, !.last = id]
            rec(c) == [server |-> n, kind |-> k, capture_id |-> t.ids[k], cam |-> c,
                       frame_id |-> id, run |-> t.run, image |-> image]
            F == {rec(c) : c \in S}
<1>1. /\ shots' = [shots EXCEPT ![n] = t] /\ inbox' = [inbox EXCEPT ![n] = F]
      /\ id > shots[n].last /\ inbox[n] = {}
      /\ UNCHANGED <<enabled, queue, busy, stop, pending, state, done, dirs, files, worker,
                     sender, flusher, dtor>>
  BY DEF shoot
<1>2. /\ shots[n] \in [run : Nat, total : Nat, last : Nat, ids : [Kind -> Nat]]
      /\ shots[n].run \in Nat /\ shots[n].last \in Nat /\ id \in Nat
  BY DEF SaverInv, SaverTypeInv
<1>3. t.run = shots[n].run /\ t.last = id
  <2>. DEFINE r == shots[n]
              counted == [r.ids EXCEPT ![k] = @ + 1]
  <2>1. t = [r EXCEPT !.total = @ + 1, !.ids = counted, !.last = id]
    OBVIOUS
  <2>. HIDE DEF counted, t
  <2>2. QED
    BY <1>2, <2>1
<1>. HIDE DEF t
<1>4. \A f \in F : f.server = n /\ f.frame_id = id /\ f.run = shots[n].run
  BY <1>3
<1>5. \A f, g \in F : f.cam = g.cam => f = g
  OBVIOUS
<1>. HIDE DEF rec, F
<1>6. /\ \A m \in Server : shots'[m] = IF m = n THEN t ELSE shots[m]
      /\ \A m \in Server : inbox'[m] = IF m = n THEN F ELSE inbox[m]
  BY <1>1 DEF SaverInv, SaverTypeInv
<1>7. Came' = Came \cup F
  <2>1. ASSUME NEW f \in Came' PROVE f \in Came \cup F
    BY <1>1, <1>6 DEF Came
  <2>2. ASSUME NEW f \in F PROVE f \in Came'
    BY <1>6 DEF Came
  <2>3. ASSUME NEW f \in Came PROVE f \in Came'
    <3>1. CASE f \in DOMAIN state
      BY <1>1, <3>1 DEF Came
    <3>2. ASSUME NEW m \in Server, f \in inbox[m] PROVE f \in Came'
      <4>1. m # n
        BY <1>1, <3>2
      <4>2. f \in inbox'[m]
        BY <1>6, <3>2, <4>1
      <4>3. QED
        BY <4>2 DEF Came
    <3>3. QED
      BY <3>1, <3>2 DEF Came
  <2>4. QED
    BY <2>1, <2>2, <2>3
<1>8. NumbersInv /\ InTurn /\ OnePlace /\ DiskInv
  BY DEF FilesInv
<1>9. \A f \in Came : f.server = n =>
        /\ f.run <= shots[n].run
        /\ f.run = shots[n].run => f.frame_id # id
  <2>1. TAKE f \in Came
  <2>2. HAVE f.server = n
  <2>3. /\ f.run <= shots[n].run /\ f.frame_id \in Nat
        /\ f.run = shots[n].run => f.frame_id <= shots[n].last
    BY <1>8, <2>2, CameTyped DEF NumbersInv
  <2>4. QED
    BY <1>1, <1>2, <2>3
<1>10. \A f \in F, g \in Came' : ~Later(g, f)
  <2>1. TAKE f \in F, g \in Came'
  <2>2. CASE g \in F
    BY <1>2, <1>4, <2>2 DEF Later
  <2>3. CASE g \in Came
    <3>1. g.run \in Nat
      BY <2>3, CameTyped
    <3>2. QED
      BY <1>2, <1>4, <1>9, <2>3, <3>1 DEF Later
  <2>4. QED
    BY <1>7, <2>2, <2>3
<1>11. NumbersInv'
  <2>1. ASSUME NEW f \in Came'
        PROVE  /\ f.run <= shots'[f.server].run
               /\ f.run = shots'[f.server].run => f.frame_id <= shots'[f.server].last
    <3>1. CASE f \in F
      BY <1>2, <1>3, <1>4, <1>6, <3>1
    <3>2. CASE f \in Came
      <4>1. /\ f.server \in Server /\ f.run \in Nat /\ f.frame_id \in Nat
            /\ f.run <= shots[f.server].run
            /\ f.run = shots[f.server].run => f.frame_id <= shots[f.server].last
        BY <1>8, <3>2, CameTyped DEF NumbersInv
      <4>2. CASE f.server = n
        BY <1>1, <1>2, <1>3, <1>6, <4>1, <4>2
      <4>3. CASE f.server # n
        BY <1>6, <4>1, <4>3
      <4>4. QED
        BY <4>2, <4>3
    <3>3. QED
      BY <1>7, <3>1, <3>2
  <2>2. ASSUME NEW f \in Came', NEW g \in Came', f.server = g.server, f.run = g.run,
               f.frame_id = g.frame_id, f.cam = g.cam
        PROVE  f = g
    <3>1. CASE f \in Came /\ g \in Came
      BY <1>8, <2>2, <3>1 DEF NumbersInv
    <3>2. CASE f \in F /\ g \in F
      BY <1>5, <2>2, <3>2
    <3>3. CASE f \in Came /\ g \in F
      BY <1>4, <1>9, <2>2, <3>3
    <3>4. CASE f \in F /\ g \in Came
      BY <1>4, <1>9, <2>2, <3>4
    <3>5. QED
      BY <1>7, <3>1, <3>2, <3>3, <3>4
  <2>3. QED
    BY <2>1, <2>2 DEF NumbersInv
<1>12. Written' = Written /\ Elements(queue)' = Elements(queue) /\ Pushing' = Pushing
  BY <1>1 DEF Written, Accepted, Elements, Pushing
<1>13. InTurn'
  <2>1. ASSUME NEW m \in Server, NEW g \in inbox'[m], NEW f \in Came' PROVE ~Later(f, g)
    <3>1. CASE m = n
      BY <1>6, <1>10, <3>1
    <3>2. CASE m # n
      <4>1. g \in inbox[m] /\ g.server = m
        BY <1>6, <3>2, CameTyped
      <4>2. CASE f \in F
        BY <1>4, <3>2, <4>1, <4>2 DEF Later
      <4>3. CASE f \in Came
        BY <1>8, <4>1, <4>3 DEF InTurn
      <4>4. QED
        BY <1>7, <4>2, <4>3
    <3>3. QED
      BY <3>1, <3>2
  <2>2. QED
    BY <1>1, <1>8, <1>12, <2>1 DEF InTurn
<1>14. OnePlace'
  BY <1>1, <1>8, <1>12 DEF OnePlace, Working
<1>15. DiskInv'
  BY <1>1, <1>8, <1>12, DiskSame
<1>16. QED
  BY <1>11, <1>13, <1>14, <1>15 DEF FilesInv

(* A new run begins: all captures so far are of earlier ones.              *)
LEMMA StartFiles ==
  ASSUME SaverInv, SaverInv', FilesInv, NEW n \in Server, startCameras(n)
  PROVE  FilesInv'
<1>. DEFINE t == FirstShot(shots[n].run + 1)
<1>1. /\ shots' = [shots EXCEPT ![n] = t] /\ UNCHANGED inbox
      /\ UNCHANGED <<enabled, queue, busy, stop, pending, state, done, dirs, files, worker,
                     sender, flusher, dtor>>
  BY DEF startCameras
<1>2. shots[n].run \in Nat /\ t.run = shots[n].run + 1
  BY DEF SaverInv, SaverTypeInv, FirstShot
<1>. HIDE DEF t
<1>3. \A m \in Server : shots'[m] = IF m = n THEN t ELSE shots[m]
  BY <1>1 DEF SaverInv, SaverTypeInv
<1>4. Came' = Came /\ Written' = Written /\ Elements(queue)' = Elements(queue)
      /\ Pushing' = Pushing
  BY <1>1 DEF Came, Written, Accepted, Elements, Pushing
<1>5. NumbersInv /\ InTurn /\ OnePlace /\ DiskInv
  BY DEF FilesInv
<1>6. NumbersInv'
  <2>1. ASSUME NEW f \in Came
        PROVE  /\ f.run <= shots'[f.server].run
               /\ f.run = shots'[f.server].run => f.frame_id <= shots'[f.server].last
    <3>1. /\ f.server \in Server /\ f.run \in Nat /\ f.run <= shots[f.server].run
          /\ f.run = shots[f.server].run => f.frame_id <= shots[f.server].last
      BY <1>5, <2>1, CameTyped DEF NumbersInv
    <3>2. CASE f.server = n
      BY <1>2, <1>3, <3>1, <3>2
    <3>3. CASE f.server # n
      BY <1>3, <3>1, <3>3
    <3>4. QED
      BY <3>2, <3>3
  <2>2. QED
    BY <1>4, <1>5, <2>1 DEF NumbersInv
<1>7. InTurn'
  BY <1>1, <1>4, <1>5 DEF InTurn, Later
<1>8. OnePlace'
  BY <1>1, <1>4, <1>5 DEF OnePlace, Working
<1>9. DiskInv'
  BY <1>1, <1>4, <1>5, DiskSame
<1>10. QED
  BY <1>6, <1>7, <1>8, <1>9 DEF FilesInv

-----------------------------------------------------------------------------
(* save(): the frame goes from the network to its thread, and from there   *)
(* to the end of the queue; it stays where it is when saving is off.       *)
LEMMA SaveBeginFiles ==
  ASSUME SaverInv, FilesInv, NEW n \in Server, NEW f \in inbox[n], saveBegin(n, f), enabled
  PROVE  FilesInv'
<1>1. NumbersInv /\ InTurn /\ OnePlace /\ DiskInv
  BY DEF FilesInv
<1>2. /\ sender[n].pc = "idle" /\ inbox' = [inbox EXCEPT ![n] = @ \ {f}]
      /\ state' = [g \in DOMAIN state \cup {f} |-> IF g = f THEN "Saving" ELSE state[g]]
      /\ sender' = [sender EXCEPT ![n] = [pc |-> "push", frame |-> f]]
      /\ UNCHANGED <<enabled, queue, busy, stop, pending, done, dirs, files, worker,
                     flusher, dtor, shots>>
  BY DEF saveBegin
<1>3. f \in Came /\ f.server = n /\ f \notin DOMAIN state
  BY CameTyped
<1>4. /\ DOMAIN state' = DOMAIN state \cup {f} /\ state'[f] = "Saving"
      /\ \A g \in DOMAIN state : state'[g] = state[g]
  BY <1>2, <1>3
<1>5. /\ \A m \in Server : inbox'[m] = IF m = n THEN inbox[n] \ {f} ELSE inbox[m]
      /\ \A m \in Server : m # n => sender'[m] = sender[m]
      /\ sender'[n].pc = "push" /\ sender'[n].frame = f
  BY <1>2 DEF SaverInv, SaverTypeInv
<1>6. Came' = Came
  <2>1. ASSUME NEW g \in Came' PROVE g \in Came
    BY <1>3, <1>4, <1>5 DEF Came
  <2>2. ASSUME NEW g \in Came PROVE g \in Came'
    <3>1. CASE g \in DOMAIN state \cup {f}
      BY <1>4, <3>1 DEF Came
    <3>2. ASSUME NEW m \in Server, g \in inbox[m], g # f PROVE g \in Came'
      <4>1. g \in inbox'[m]
        BY <1>5, <3>2
      <4>2. QED
        BY <4>1 DEF Came
    <3>3. QED
      BY <3>1, <3>2 DEF Came
  <2>3. QED
    BY <2>1, <2>2
<1>7. /\ Pushing' = Pushing \cup {n} /\ n \notin Pushing /\ Elements(queue)' = Elements(queue)
      /\ \A m \in Pushing : m # n /\ sender'[m] = sender[m]
  BY <1>2, <1>5 DEF Pushing, Elements
<1>8. /\ Elements(queue) \subseteq DOMAIN state /\ (Working => worker.job \in DOMAIN state)
      /\ \A m \in Pushing : sender[m].frame \in DOMAIN state /\ sender[m].frame.server = m
  BY CameTyped
<1>9. Written' = Written
  <2>1. ASSUME NEW g \in Written' PROVE g \in Written
    <3>1. g \in DOMAIN state /\ g # f
      BY <1>4, <1>5, <1>7, <2>1 DEF Written, Accepted
    <3>2. \A m \in Pushing : sender[m].frame # g
      BY <1>5, <1>7, <2>1 DEF Written, Accepted
    <3>3. QED
      BY <1>2, <1>7, <2>1, <3>1, <3>2 DEF Written, Accepted
  <2>2. ASSUME NEW g \in Written PROVE g \in Written'
    <3>1. g \in DOMAIN state /\ g # f
      BY <1>3, <2>2 DEF Written, Accepted
    <3>2. \A m \in Pushing' : sender'[m].frame # g
      BY <1>5, <1>7, <2>2, <3>1 DEF Written, Accepted
    <3>3. QED
      BY <1>2, <1>4, <1>7, <2>2, <3>1, <3>2 DEF Written, Accepted
  <2>3. QED
    BY <2>1, <2>2
<1>10. NumbersInv'
  BY <1>1, <1>2, <1>6, NumbersSame
<1>11. InTurn'
  <2>1. ASSUME NEW m \in Server, NEW g \in inbox'[m], NEW h \in Came' PROVE ~Later(h, g)
    BY <1>1, <1>5, <1>6 DEF InTurn
  <2>2. ASSUME NEW m \in Pushing', NEW h \in DOMAIN state' PROVE ~Later(h, sender'[m].frame)
    <3>1. CASE m = n
      BY <1>1, <1>3, <1>4, <1>5, <3>1 DEF InTurn, Came
    <3>2. CASE m # n /\ h = f
      BY <1>3, <1>5, <1>7, <1>8, <3>2 DEF Later
    <3>3. CASE m # n /\ h # f
      BY <1>1, <1>4, <1>5, <1>7, <3>3 DEF InTurn, Pushing
    <3>4. QED
      BY <3>1, <3>2, <3>3
  <2>3. QED
    BY <1>1, <1>2, <1>7, <1>9, <2>1, <2>2 DEF InTurn
<1>12. OnePlace'
  <2>1. ASSUME NEW m \in Pushing'
        PROVE  state'[sender'[m].frame] = "Saving" /\ (Working => sender'[m].frame # worker.job)
    <3>1. CASE m = n
      BY <1>3, <1>4, <1>5, <1>8, <3>1
    <3>2. CASE m # n
      BY <1>1, <1>4, <1>5, <1>7, <1>8, <3>2 DEF OnePlace
    <3>3. QED
      BY <3>1, <3>2
  <2>2. Working' <=> Working
    BY <1>2 DEF Working
  <2>3. QED
    BY <1>1, <1>2, <1>4, <1>7, <1>8, <2>1, <2>2 DEF OnePlace
<1>13. DiskInv'
  BY <1>1, <1>2, <1>4, <1>9, DiskSame
<1>14. QED
  BY <1>10, <1>11, <1>12, <1>13 DEF FilesInv

(* saveBegin while saving is off.                                          *)
LEMMA SaveNotFiles ==
  ASSUME SaverInv, FilesInv, NEW n \in Server, NEW f \in inbox[n], saveBegin(n, f), ~enabled
  PROVE  FilesInv'
<1>1. NumbersInv /\ InTurn /\ OnePlace /\ DiskInv
  BY DEF FilesInv
<1>2. /\ sender[n].pc = "idle" /\ inbox' = [inbox EXCEPT ![n] = @ \ {f}]
      /\ state' = [g \in DOMAIN state \cup {f} |-> IF g = f THEN "NotSaved" ELSE state[g]]
      /\ UNCHANGED <<enabled, queue, busy, stop, pending, done, dirs, files, worker, sender,
                     flusher, dtor, shots>>
  BY DEF saveBegin
<1>3. f \in Came /\ f.server = n /\ f \notin DOMAIN state
  BY CameTyped
<1>4. /\ DOMAIN state' = DOMAIN state \cup {f} /\ state'[f] = "NotSaved"
      /\ \A g \in DOMAIN state : state'[g] = state[g]
  BY <1>2, <1>3
<1>5. \A m \in Server : inbox'[m] = IF m = n THEN inbox[n] \ {f} ELSE inbox[m]
  BY <1>2 DEF SaverInv, SaverTypeInv
<1>6. Came' = Came
  <2>1. ASSUME NEW g \in Came' PROVE g \in Came
    BY <1>3, <1>4, <1>5 DEF Came
  <2>2. ASSUME NEW g \in Came PROVE g \in Came'
    <3>1. CASE g \in DOMAIN state \cup {f}
      BY <1>4, <3>1 DEF Came
    <3>2. ASSUME NEW m \in Server, g \in inbox[m], g # f PROVE g \in Came'
      <4>1. g \in inbox'[m]
        BY <1>5, <3>2
      <4>2. QED
        BY <4>1 DEF Came
    <3>3. QED
      BY <3>1, <3>2 DEF Came
  <2>3. QED
    BY <2>1, <2>2
<1>7. Pushing' = Pushing /\ Elements(queue)' = Elements(queue) /\ Accepted' = Accepted
  BY <1>2, <1>3, <1>4 DEF Pushing, Elements, Accepted
<1>8. /\ Elements(queue) \subseteq DOMAIN state /\ (Working => worker.job \in DOMAIN state)
      /\ \A m \in Pushing : sender[m].frame \in DOMAIN state /\ sender[m].frame.server = m
  BY CameTyped
<1>9. Written' = Written
  BY <1>2, <1>7 DEF Written
<1>10. NumbersInv'
  BY <1>1, <1>2, <1>6, NumbersSame
<1>11. InTurn'
  <2>1. ASSUME NEW m \in Server, NEW g \in inbox'[m], NEW h \in Came' PROVE ~Later(h, g)
    BY <1>1, <1>5, <1>6 DEF InTurn
  <2>2. ASSUME NEW m \in Pushing, NEW h \in DOMAIN state' PROVE ~Later(h, sender[m].frame)
    <3>1. CASE h # f
      BY <1>1, <1>4, <3>1 DEF InTurn
    <3>2. CASE h = f
      <4>1. m # n
        BY <1>2 DEF Pushing
      <4>2. QED
        BY <1>3, <1>8, <3>2, <4>1 DEF Later
    <3>3. QED
      BY <3>1, <3>2
  <2>3. QED
    BY <1>1, <1>2, <1>7, <1>9, <2>1, <2>2 DEF InTurn
<1>12. OnePlace'
  <2>1. Working' <=> Working
    BY <1>2 DEF Working
  <2>2. QED
    BY <1>1, <1>2, <1>4, <1>7, <1>8, <2>1 DEF OnePlace
<1>13. DiskInv'
  BY <1>1, <1>2, <1>4, <1>9, DiskSame
<1>14. QED
  BY <1>10, <1>11, <1>12, <1>13 DEF FilesInv

(* The thread pushes behind the frames of its server before it.            *)
LEMMA SavePushFiles ==
  ASSUME SaverInv, FilesInv, NEW n \in Server, savePush(n)
  PROVE  FilesInv'
<1>. DEFINE f == sender[n].frame
<1>1. NumbersInv /\ InTurn /\ OnePlace /\ DiskInv
  BY DEF FilesInv
<1>2. /\ sender[n].pc = "push" /\ queue' = Append(queue, f)
      /\ sender' = [sender EXCEPT ![n].pc = "notify"]
      /\ UNCHANGED <<enabled, busy, stop, state, done, dirs, files, worker, flusher,
                     dtor, camera>>
  BY DEF savePush
<1>3. n \in Pushing /\ f \in DOMAIN state /\ f.server = n
  BY <1>2, CameTyped DEF Pushing
<1>4. queue \in Seq(AnyFrame) /\ f \in AnyFrame
  BY <1>3 DEF SaverInv, SaverTypeInv
<1>5. Elements(queue') = Elements(queue) \cup {f}
  BY <1>2, <1>4, AppendElements
<1>6. /\ Len(queue) \in Nat /\ DOMAIN queue = 1..Len(queue)
      /\ DOMAIN queue' = 1..(Len(queue) + 1)
      /\ queue'[Len(queue) + 1] = f /\ \A i \in DOMAIN queue : queue'[i] = queue[i]
  BY <1>2, <1>4, AppendProperties, LenProperties
<1>7. /\ \A m \in Server : m # n => sender'[m] = sender[m]
      /\ sender'[n].pc = "notify"
  BY <1>2 DEF SaverInv, SaverTypeInv
<1>8. Pushing' = Pushing \ {n} /\ \A m \in Pushing' : sender'[m] = sender[m]
  BY <1>7 DEF Pushing
<1>. HIDE DEF f
<1>9. Came' = Came /\ shots' = shots
  BY <1>2 DEF Came, camera
<1>10. Written' = Written
  <2>1. \A g : (g \in Elements(queue) \/ \E m \in Pushing : sender[m].frame = g)
               <=> (g \in Elements(queue') \/ \E m \in Pushing' : sender'[m].frame = g)
    BY <1>3, <1>5, <1>8 DEF f
  <2>2. QED
    BY <1>2, <2>1 DEF Written, Accepted
<1>11. NumbersInv'
  BY <1>1, <1>9, NumbersSame
<1>12. \A g \in DOMAIN state : ~Later(g, f)
  BY <1>1, <1>3 DEF InTurn, f
<1>13. /\ Elements(queue) \subseteq DOMAIN state /\ Written \subseteq DOMAIN state
       /\ (Working => worker.job \in DOMAIN state)
  BY CameTyped
<1>14. InTurn'
  <2>1. ASSUME NEW i \in DOMAIN queue', NEW j \in DOMAIN queue', i < j
        PROVE  ~Later(queue'[i], queue'[j])
    <3>1. i \in DOMAIN queue
      BY <1>6, <2>1
    <3>2. CASE j = Len(queue) + 1
      <4>1. queue[i] \in DOMAIN state
        BY <1>13, <3>1 DEF Elements
      <4>2. QED
        BY <1>6, <1>12, <3>1, <3>2, <4>1
    <3>3. CASE j # Len(queue) + 1
      <4>1. j \in DOMAIN queue
        BY <1>6, <3>3
      <4>2. QED
        BY <1>1, <1>6, <2>1, <3>1, <4>1 DEF InTurn
    <3>4. QED
      BY <3>2, <3>3
  <2>2. ASSUME NEW m \in Pushing', NEW h \in DOMAIN state' PROVE ~Later(h, sender'[m].frame)
    BY <1>1, <1>2, <1>8 DEF InTurn
  <2>3. worker.pc = "write" => ~Later(worker.job, f)
    BY <1>12, <1>13 DEF Working
  <2>4. \A h \in Written : ~Later(h, f)
    BY <1>12, <1>13
  <2>5. inbox' = inbox
    BY <1>2 DEF camera
  <2>6. QED
    BY <1>1, <1>2, <1>5, <1>9, <1>10, <2>1, <2>2, <2>3, <2>4, <2>5 DEF InTurn
<1>15. OnePlace'
  BY <1>1, <1>2, <1>3, <1>5, <1>8 DEF OnePlace, Working, f
<1>16. DiskInv'
  BY <1>1, <1>2, <1>10, DiskSame
<1>17. QED
  BY <1>11, <1>14, <1>15, <1>16 DEF FilesInv

(* loop(): the worker takes the first of the queue.                        *)
LEMMA TakeJobFiles ==
  ASSUME SaverInv, FilesInv, workerCheck
  PROVE  FilesInv'
<1>1. /\ worker.pc = "check" /\ takeJob
      /\ UNCHANGED <<enabled, stop, pending, state, done, dirs, files, sender, flusher,
                     dtor, camera>>
  BY DEF workerCheck
<1>2. ASSUME NEW pc \in {"gone", "asleep"}, turnTo(pc) PROVE FilesInv'
  <2>1. worker'.pc = pc /\ queue' = queue
    BY <1>2 DEF turnTo, SaverInv, SaverTypeInv
  <2>2. ~Working /\ ~Working' /\ Pushing' = Pushing
    BY <1>1, <2>1 DEF Working, Pushing
  <2>3. QED
    BY <1>1, <2>1, <2>2, PointFiles
<1>3. CASE queue # <<>> /\ startJob(Head(queue))
  <2>. DEFINE f == Head(queue)
  <2>0. NumbersInv /\ InTurn /\ OnePlace /\ DiskInv
    BY DEF FilesInv
  <2>1. worker' = [pc |-> "write", job |-> f] /\ queue' = Tail(queue)
    BY <1>3 DEF startJob
  <2>2. queue \in Seq(AnyFrame) /\ Distinct(queue)
    BY DEF SaverInv, SaverTypeInv, Placed
  <2>3. Elements(queue) = Elements(queue') \cup {f}
    BY <1>3, <2>1, <2>2, TailElements
  <2>4. /\ Len(queue) \in Nat /\ Len(queue) # 0 /\ DOMAIN queue = 1..Len(queue)
        /\ DOMAIN queue' = 1..(Len(queue) - 1) /\ f = queue[1]
        /\ \A i \in DOMAIN queue' : queue'[i] = queue[i + 1]
    BY <1>3, <2>1, <2>2, HeadTailProperties, LenProperties, EmptySeq
  <2>. HIDE DEF f
  <2>5. \A i \in DOMAIN queue' : i \in Nat /\ i + 1 \in DOMAIN queue /\ 1 \in DOMAIN queue /\ 1 < i + 1
    BY <2>4
  <2>6. f \notin Elements(queue')
    <3>1. \A i \in DOMAIN queue' : queue'[i] # f
      <4>1. TAKE i \in DOMAIN queue'
      <4>2. i + 1 # 1
        BY <2>5
      <4>3. queue[i + 1] # queue[1]
        BY <2>2, <2>5, <4>2 DEF Distinct
      <4>4. QED
        BY <2>4, <4>3
    <3>2. QED
      BY <3>1 DEF Elements
  <2>7. worker'.pc = "write" /\ worker'.job = f /\ Working' /\ ~Working
    BY <1>1, <2>1 DEF Working
  <2>8. Came' = Came /\ shots' = shots /\ inbox' = inbox /\ Pushing' = Pushing
    BY <1>1 DEF Came, camera, Pushing
  <2>9. Written' = Written
    BY <1>1, <2>3, <2>7, <2>8 DEF Written, Accepted
  <2>10. \A m \in Pushing : sender[m].frame \notin Elements(queue)
    BY DEF SaverInv, Placed
  <2>11. InTurn'
    <3>1. \A i, j \in DOMAIN queue' : i < j => ~Later(queue'[i], queue'[j])
      <4>1. TAKE i, j \in DOMAIN queue'
      <4>2. HAVE i < j
      <4>3. i + 1 < j + 1
        BY <2>5, <4>2
      <4>4. QED
        BY <2>0, <2>4, <2>5, <4>3 DEF InTurn
    <3>2. \A g \in Elements(queue') : ~Later(f, g)
      <4>1. \A i \in DOMAIN queue' : ~Later(f, queue'[i])
        BY <2>0, <2>4, <2>5 DEF InTurn
      <4>2. QED
        BY <4>1 DEF Elements
    <3>3. QED
      BY <1>1, <2>0, <2>3, <2>7, <2>8, <2>9, <3>1, <3>2 DEF InTurn
  <2>12. OnePlace'
    BY <1>1, <2>0, <2>3, <2>6, <2>7, <2>8, <2>10 DEF OnePlace
  <2>13. NumbersInv' /\ DiskInv'
    BY <1>1, <2>0, <2>7, <2>8, <2>9, NumbersSame, DiskSame
  <2>14. QED
    BY <2>11, <2>12, <2>13 DEF FilesInv
<1>4. QED
  BY <1>1, <1>2, <1>3 DEF takeJob

(* The state of the job is stored.                                         *)
LEMMA StoreStateFiles ==
  ASSUME SaverInv, FilesInv, storeState
  PROVE  FilesInv'
<1>. DEFINE f == worker.job
            st == IF worker.pc = "saved" THEN "Saved" ELSE "Failed"
<1>0. NumbersInv /\ InTurn /\ OnePlace /\ DiskInv
  BY DEF FilesInv
<1>1. /\ worker.pc \in {"saved", "failed"} /\ state' = [state EXCEPT ![f] = st]
      /\ worker' = [worker EXCEPT !.pc = "count"]
      /\ UNCHANGED <<enabled, queue, busy, stop, pending, done, dirs, files, sender,
                     flusher, dtor, camera>>
  BY DEF storeState
<1>2. worker'.pc = "count" /\ worker'.job = f /\ Working /\ ~Working'
  BY <1>1 DEF Working, SaverInv, SaverTypeInv
<1>3. /\ DOMAIN state' = DOMAIN state /\ \A g \in DOMAIN state : g # f => state'[g] = state[g]
      /\ state'[f] = "Saved" => worker.pc = "saved"
      /\ f \in DOMAIN state /\ state'[f] # "NotSaved"
  BY <1>1, <1>2, CameTyped
<1>. HIDE DEF f, st
<1>4. Came' = Came /\ shots' = shots /\ inbox' = inbox /\ Pushing' = Pushing
      /\ Elements(queue)' = Elements(queue)
  BY <1>1, <1>3 DEF Came, camera, Pushing, Elements
<1>5. Written' = Written
  BY <1>0, <1>1, <1>2, <1>3, <1>4 DEF Written, Accepted, OnePlace, f
<1>6. NumbersInv'
  BY <1>0, <1>4, NumbersSame
<1>7. InTurn'
  BY <1>0, <1>1, <1>2, <1>3, <1>4, <1>5 DEF InTurn
<1>8. OnePlace'
  <2>1. \A g \in Elements(queue) : g # f /\ g \in DOMAIN state
    BY <1>0, <1>2, CameTyped DEF OnePlace, f
  <2>2. \A m \in Pushing : sender[m].frame # f /\ sender[m].frame \in DOMAIN state
    BY <1>0, <1>2, CameTyped DEF OnePlace, f
  <2>3. QED
    BY <1>0, <1>1, <1>2, <1>3, <1>4, <2>1, <2>2 DEF OnePlace
<1>9. DiskInv'
  BY <1>0, <1>1, <1>2, <1>3, <1>5, DiskSame DEF f
<1>10. QED
  BY <1>6, <1>7, <1>8, <1>9 DEF FilesInv

-----------------------------------------------------------------------------
(* The worker is through with its job, written or not.                     *)
LEMMA JobDone ==
  ASSUME SaverInv, FilesInv, worker.pc = "write", worker'.pc # "write", Working',
         worker'.job = worker.job,
         UNCHANGED <<queue, state, sender, camera>>
  PROVE  /\ NumbersInv' /\ InTurn' /\ OnePlace'
         /\ Written' = Written \cup {worker.job}
<1>1. NumbersInv /\ InTurn /\ OnePlace
  BY DEF FilesInv
<1>2. Came' = Came /\ shots' = shots /\ inbox' = inbox /\ Pushing' = Pushing
      /\ Elements(queue)' = Elements(queue)
  BY DEF Came, camera, Pushing, Elements
<1>3. Working
  BY DEF Working
<1>4. Written' = Written \cup {worker.job}
  <2>1. /\ worker.job \notin Elements(queue) /\ (\A m \in Pushing : sender[m].frame # worker.job)
        /\ worker.job \in Accepted
    BY <1>1, <1>3 DEF OnePlace, SaverInv, Placed
  <2>2. Accepted' = Accepted
    BY DEF Accepted
  <2>3. QED
    BY <1>2, <2>1, <2>2 DEF Written
<1>5. InTurn'
  BY <1>1, <1>2, <1>4 DEF InTurn
<1>6. OnePlace'
  BY <1>1, <1>2, <1>3 DEF OnePlace
<1>7. QED
  BY <1>1, <1>2, <1>4, <1>5, <1>6, NumbersSame

LEMMA NoDirFiles ==
  ASSUME SaverInv, FilesInv, writeNoDir
  PROVE  FilesInv'
<1>1. worker.pc = "write" /\ worker' = [worker EXCEPT !.pc = "failed"]
      /\ UNCHANGED <<queue, state, dirs, files, sender, camera>>
  BY DEF writeNoDir
<1>2. worker'.pc = "failed" /\ worker'.job = worker.job /\ Working'
  BY <1>1 DEF Working, SaverInv, SaverTypeInv
<1>3. NumbersInv' /\ InTurn' /\ OnePlace' /\ Written' = Written \cup {worker.job}
  BY <1>1, <1>2, JobDone
<1>4. DiskInv'
  BY <1>1, <1>2, <1>3, DiskSame DEF FilesInv
<1>5. QED
  BY <1>3, <1>4 DEF FilesInv

(* write(): where the names were taken, the frame that had them is of an   *)
(* earlier run, and its key is another, for those seen do not come again   *)
(* in a run of the directory.                                              *)
LEMMA WriteFiles ==
  ASSUME SaverInv, FilesInv, NEW ok \in BOOLEAN, NEW image \in BOOLEAN, write(ok, image)
  PROVE  FilesInv'
<1>0. PICK f : f = worker.job
  OBVIOUS
<1> DEFINE n == f.server
           d == dirAfter(dirs[n], f)
           N == (IF image THEN {imageOf(d, f)} ELSE {}) \cup (IF ok THEN {sidecarOf(d, f)} ELSE {})
           isNew == key(f) \in dirs[n].seen
<1>1. /\ worker.pc = "write" /\ (image => f.image) /\ (ok => image = f.image)
      /\ files' = [p \in DOMAIN files \cup N |-> IF p \in N THEN f ELSE files[p]]
      /\ dirs' = [dirs EXCEPT ![n] = d]
      /\ worker' = [worker EXCEPT !.pc = IF ok THEN "saved" ELSE "failed"]
      /\ UNCHANGED <<enabled, queue, busy, stop, pending, state, done, sender, flusher,
                     dtor, camera>>
  BY <1>0 DEF write, written
<1>2. NumbersInv /\ InTurn /\ OnePlace /\ DiskInv
  BY DEF FilesInv
<1>3. /\ f \in Came /\ f \in Accepted /\ n \in Server /\ f.run \in Nat /\ state[f] = "Saving"
      /\ \A h \in Written : h \in Came /\ h.server \in Server /\ h.run \in Nat
  BY <1>0, <1>1, <1>2, CameTyped DEF Working, SaverInv, Placed, OnePlace
<1>4. \A h \in Written : h.server = n => h.run <= f.run
  BY <1>0, <1>1, <1>2, <1>3, LaterOrders DEF InTurn
<1>5. dirs[n].run \in Nat /\ dirs[n] = [run |-> dirs[n].run, seen |-> dirs[n].seen]
  BY <1>2, <1>3 DEF DiskInv, DirInv
<1>6. /\ isNew => d.run = dirs[n].run + 1 /\ d.seen = {key(f)}
      /\ ~isNew => d.run = dirs[n].run /\ d.seen = dirs[n].seen \cup {key(f)}
      /\ d = [run |-> d.run, seen |-> d.seen]
  <2>1. CASE isNew
    BY <2>1 DEF dirAfter
  <2>2. CASE ~isNew
    <3>1. d = [dirs[n] EXCEPT !.seen = @ \cup {key(f)}]
      BY <2>2 DEF dirAfter
    <3> HIDE DEF d
    <3>2. QED
      BY <1>5, <2>2, <3>1
  <2>3. QED
    BY <2>1, <2>2
<1>7. /\ \A p \in N : \E e : p = <<f.server, f.cam, f.frame_id, d.run, e>>
      /\ ok => N = namesAt(f, d.run)
  BY <1>1 DEF namesAt, imageOf, sidecarOf, fileName
<1>8. worker'.job = f /\ worker'.pc = (IF ok THEN "saved" ELSE "failed")
  BY <1>0, <1>1 DEF SaverInv, SaverTypeInv
<1> HIDE DEF n, d, N, isNew
<1>9. dirs'[n] = d /\ (\A m \in Server : m # n => dirs'[m] = dirs[m])
      /\ dirs' = [m \in Server |-> dirs'[m]]
  BY <1>1, <1>2, <1>3 DEF DiskInv
<1>10. d.run \in Nat /\ dirs[n].run <= d.run
  BY <1>5, <1>6
<1>11. NumbersInv' /\ InTurn' /\ OnePlace' /\ Written' = Written \cup {f}
  <2>1. worker'.pc # "write" /\ Working'
    BY <1>8 DEF Working
  <2>2. QED
    BY <1>0, <1>1, <1>8, <2>1, JobDone
<1>12. \A m \in Server : DirInv(m)'
  BY <1>2, <1>6, <1>9, <1>10 DEF DiskInv, DirInv
<1>13. \A p \in N : /\ p = <<f.server, f.cam, f.frame_id, p[4], p[5]>> /\ p[4] = d.run
                    /\ p[1] = n /\ p[2] = f.cam /\ p[3] = f.frame_id
  BY <1>7 DEF n
<1>14. /\ DOMAIN files' = DOMAIN files \cup N
       /\ \A p \in DOMAIN files' : files'[p] = IF p \in N THEN f ELSE files[p]
  BY <1>1
<1>15. \A p \in DOMAIN files' : FileInv(p)'
  <2>1. TAKE p \in DOMAIN files'
  <2>2. CASE p \in N
    BY <1>11, <1>13, <1>14, <2>2 DEF FileInv
  <2>3. CASE p \notin N
    <3>1. files'[p] = files[p] /\ FileInv(p)
      BY <1>2, <1>14, <2>3 DEF DiskInv
    <3>2. QED
      BY <1>11, <3>1 DEF FileInv
  <2>4. QED
    BY <2>2, <2>3
<1>16. ASSUME NEW g \in DOMAIN state, state[g] = "Saved" PROVE HasFiles(g)'
  <2>1. PICK r \in 0..dirs[g.server].run :
          KeptAt(g, r) /\ (r = dirs[g.server].run => key(g) \in dirs[g.server].seen)
    BY <1>2, <1>16 DEF DiskInv, HasFiles
  <2>2. g \in Written /\ g # f /\ g \in Came /\ g.server \in Server /\ g.run \in Nat
    <3>1. g # f /\ g \in Accepted
      BY <1>3, <1>16 DEF Accepted
    <3>2. g \notin Elements(queue) /\ \A m \in Pushing : sender[m].frame # g
      BY <1>2, <1>16 DEF OnePlace
    <3>3. g \in Written
      BY <1>0, <3>1, <3>2 DEF Written
    <3>4. QED
      BY <1>3, <3>1, <3>3
  <2>3. dirs[g.server].run \in Nat /\ dirs'[g.server].run \in Nat
    BY <1>2, <1>9, <1>10, <2>2 DEF DiskInv, DirInv
  <2>4. r \in 0..dirs'[g.server].run
        /\ (r = dirs'[g.server].run => key(g) \in dirs'[g.server].seen)
    <3>1. CASE g.server # n
      BY <1>9, <2>1, <2>2, <3>1
    <3>2. CASE g.server = n /\ isNew
      BY <1>5, <1>6, <1>9, <2>1, <2>3, <3>2
    <3>3. CASE g.server = n /\ ~isNew
      BY <1>5, <1>6, <1>9, <2>1, <2>3, <3>3
    <3>4. QED
      BY <3>1, <3>2, <3>3
  <2>5. ASSUME NEW p \in namesAt(g, r), p \in N PROVE TakesOver(f, g)
    <3>1. p[1] = g.server /\ p[2] = g.cam /\ p[3] = g.frame_id /\ p[4] = r
      BY DEF namesAt, imageOf, sidecarOf, fileName
    <3>2. g.server = n /\ g.cam = f.cam /\ g.frame_id = f.frame_id /\ r = d.run
      BY <1>13, <2>5, <3>1
    <3>3. ~isNew /\ r = dirs[n].run
      BY <1>5, <1>6, <2>1, <3>2
    <3>4. key(g) # key(f)
      BY <2>1, <3>2, <3>3 DEF isNew
    <3>5. g.run <= f.run
      BY <1>4, <2>2, <3>2
    <3>6. g.run # f.run
      BY <1>2, <1>3, <2>2, <3>2 DEF NumbersInv, n
    <3>7. QED
      BY <1>3, <2>2, <3>4, <3>5, <3>6 DEF TakesOver
  <2>6. ASSUME NEW p \in namesAt(g, r)
        PROVE  p \in DOMAIN files' /\ (files'[p] = g \/ TakesOver(files'[p], g))
    <3>1. p \in DOMAIN files /\ (files[p] = g \/ TakesOver(files[p], g))
      BY <2>1 DEF KeptAt
    <3>2. QED
      BY <1>14, <2>5, <3>1
  <2>7. KeptAt(g, r)'
    BY <2>6 DEF KeptAt, TakesOver, namesAt, key, sidecarOf, imageOf, fileName
  <2>8. QED
    BY <2>4, <2>7 DEF HasFiles, key
<1>17. ASSUME ok PROVE HasFiles(f)'
  <2>1. PICK r : r = d.run
    OBVIOUS
  <2>2. \A p \in namesAt(f, r) : p \in DOMAIN files' /\ files'[p] = f
    BY <1>7, <1>14, <1>17, <2>1
  <2>3. KeptAt(f, r)'
    BY <2>2 DEF KeptAt, namesAt, sidecarOf, imageOf, fileName
  <2>4. r \in 0..dirs'[n].run /\ key(f) \in dirs'[n].seen
    BY <1>6, <1>9, <1>10, <2>1
  <2>5. QED
    BY <2>3, <2>4 DEF HasFiles, key, n
<1>18. DiskInv'
  <2>1. \A g \in DOMAIN state' : state'[g] = "Saved" => HasFiles(g)'
    BY <1>1, <1>16
  <2>2. worker'.pc = "saved" => HasFiles(worker.job)'
    <3>1. worker'.pc = "saved" => HasFiles(f)'
      BY <1>8, <1>17
    <3>2. QED
      BY <1>8, <3>1 DEF HasFiles, KeptAt, TakesOver, namesAt, key, sidecarOf, imageOf, fileName
  <2>3. QED
    BY <1>9, <1>12, <1>15, <2>1, <2>2 DEF DiskInv
<1>19. QED
  BY <1>11, <1>18 DEF FilesInv

-----------------------------------------------------------------------------
(* No file and no frame at first.                                          *)
LEMMA FilesInvInit == Init => FilesInv
<1> SUFFICES ASSUME Init PROVE FilesInv
  OBVIOUS
<1>1. /\ DOMAIN state = {} /\ DOMAIN files = {} /\ DOMAIN queue = {}
      /\ \A n \in Server : inbox[n] = {} /\ sender[n].pc = "idle"
      /\ worker.pc = "check"
      /\ dirs = [n \in Server |-> [run |-> 0, seen |-> {}]]
  BY DEF Init
<1>2. Came = {} /\ Written = {} /\ Elements(queue) = {} /\ Pushing = {} /\ ~Working
  BY <1>1 DEF Came, Written, Accepted, Elements, Pushing, Working
<1>3. NumbersInv /\ InTurn /\ OnePlace
  BY <1>1, <1>2 DEF NumbersInv, InTurn, OnePlace
<1>4. DiskInv
  BY <1>1 DEF DiskInv, DirInv
<1>5. QED
  BY <1>3, <1>4 DEF FilesInv

(* Every step keeps the files in order.                                    *)
LEMMA FilesInvStep ==
  ASSUME SaverInv, SaverInv', FilesInv, [Next]_vars
  PROVE  FilesInv'
<1>1. ASSUME UNCHANGED <<queue, state, dirs, files, camera, worker>>,
             Pushing' = Pushing, \A n \in Pushing : sender'[n].frame = sender[n].frame
      PROVE  FilesInv'
  BY <1>1, PointFiles
<1>2. ASSUME UNCHANGED <<queue, state, dirs, files, camera, sender>>,
             ~Working, ~Working'
      PROVE  FilesInv'
  BY <1>2, PointFiles DEF Pushing
<1>3. CASE UNCHANGED vars
  BY <1>1, <1>3 DEF vars, Pushing
<1>4. ASSUME NEW on \in BOOLEAN, setEnabled(on) PROVE FilesInv'
  BY <1>1, <1>4 DEF setEnabled, Pushing
<1>5. ASSUME NEW n \in Server, saveNotify(n) PROVE FilesInv'
  <2>1. /\ sender[n].pc = "notify" /\ worker' = woken
        /\ sender' = [sender EXCEPT ![n] = [pc |-> "idle", frame |-> NoFrame]]
        /\ UNCHANGED <<queue, state, dirs, files, camera>>
    BY <1>5 DEF saveNotify
  <2>2. \A m \in Server : sender'[m] = sender[m] \/ (sender[m].pc # "push" /\ sender'[m].pc # "push")
    BY <2>1 DEF SaverInv, SaverTypeInv
  <2>3. Pushing' = Pushing /\ \A m \in Pushing : sender'[m].frame = sender[m].frame
    BY <2>2 DEF Pushing
  <2>4. \/ worker'.pc = worker.pc /\ worker'.job = worker.job
        \/ ~Working /\ ~Working'
    BY <2>1, WokenKeeps DEF Working
  <2>5. QED
    BY <2>1, <2>3, <2>4, PointFiles
<1>6. CASE SaveStep
  BY <1>5, <1>6, SaveBeginFiles, SaveNotFiles, SavePushFiles DEF SaveStep
<1>7. CASE writeNoDir
  BY <1>7, NoDirFiles
<1>8. CASE finishJob
  <2>1. worker.pc = "count" /\ worker'.pc = "notify"
    BY <1>8 DEF finishJob
  <2>2. QED
    BY <1>2, <1>8, <2>1 DEF finishJob, Working
<1>9. CASE notifyIdle
  <2>1. worker.pc = "notify" /\ worker'.pc = "check"
    BY <1>9 DEF notifyIdle, SaverInv, SaverTypeInv
  <2>2. QED
    BY <1>2, <1>9, <2>1 DEF notifyIdle, Working
<1>10. CASE WorkerStep
  BY <1>7, <1>8, <1>9, <1>10, TakeJobFiles, WriteFiles, StoreStateFiles DEF WorkerStep
<1>11. CASE flushCall \/ FlushStep
  BY <1>1, <1>11 DEF flushCall, FlushStep, flushCheck, flushDone, Pushing
<1>12. CASE dtorNotify
  <2>1. UNCHANGED <<queue, state, dirs, files, camera, sender>> /\ worker' = woken
    BY <1>12 DEF dtorNotify
  <2>2. \/ worker'.pc = worker.pc /\ worker'.job = worker.job
        \/ ~Working /\ ~Working'
    BY <2>1, WokenKeeps DEF Working
  <2>3. QED
    BY <2>1, <2>2, PointFiles DEF Pushing
<1>13. CASE dtorStop \/ dtorJoin
  BY <1>1, <1>13 DEF dtorStop, dtorJoin, Pushing
<1>14. QED
  BY <1>3, <1>4, <1>6, <1>10, <1>11, <1>12, <1>13, ShootFiles, StartFiles DEF Next, DtorStep

-----------------------------------------------------------------------------
(* A frame reported Saved loses a file only to a frame of a later          *)
(* start_cameras that has another kind, capture id or camera, and comes    *)
(* after no frame with the same: whichever captures the servers make, of   *)
(* whichever cameras and kinds, whenever saving is off and however writes  *)
(* fail (CaptureSaver.cpp:264-276).                                        *)
THEOREM SavedFramesStay == Spec => []LostOnlyAcrossRuns
<1>1. SaverInv /\ FilesInv /\ SaverInv' /\ [Next]_vars => FilesInv'
  BY FilesInvStep
<1>2. Spec => [](SaverInv /\ FilesInv)
  BY <1>1, SaverInvInit, SaverInvStep, FilesInvInit, PTL DEF Spec
<1>3. FilesInv => LostOnlyAcrossRuns
  BY DEF FilesInv, DiskInv, HasFiles, LostOnlyAcrossRuns
<1>4. QED
  BY <1>2, <1>3, PTL
=============================================================================
