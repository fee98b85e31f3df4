---------------------------- MODULE Panel_proofs ----------------------------
(***************************************************************************)
(* Proofs about what the panel and Client::start tell the servers and know *)
(* of them: the lifecycle (Panel, ClientStart over ServerLink), for any    *)
(* number of servers and however many replies are under way; the control   *)
(* sections (PanelControls), for every range of the sliders and every set  *)
(* of sensors; and the parameters (SaveParams), for every set of files.    *)
(*                                                                         *)
(* What a link knows is always explained by its server and by the replies  *)
(* that are still under way: the argument about the lifecycle is about     *)
(* what the queue of replies, read to its end, will leave behind.          *)
(***************************************************************************)
EXTENDS Panel, ClientStart, PanelControls, SaveParams, SequenceTheorems, TLAPS

ServerRecord == [state : State, mode : Mode, streams : BOOLEAN]
Message ==
  {m \in [type : {"state", "region", "status", "limits", "discovery"},
          state : State \cup {""}, mode : Mode \cup {0}] :
     /\ m.type = "state" => m.state \in State
     /\ m.type \in {"region", "status"} => m.mode \in Mode}

(* What a server in v may answer.                                          *)
Answers(v) ==
  {StateOf(v), Limits} \cup (IF v.state # "idle" THEN {StatusOf(v), RegionOf(v)} ELSE {})

LEMMA AfterType ==
  ASSUME NEW v \in ServerRecord, NEW cmd
  PROVE  After(v, cmd) \in ServerRecord
BY DEF After, ServerRecord, State, Mode, Ours

LEMMA ModeStays ==
  ASSUME NEW v \in ServerRecord, NEW cmd, v.state # "idle", After(v, cmd).state # "idle"
  PROVE  After(v, cmd).mode = v.mode
BY DEF After, ServerRecord

LEMMA AnswersType ==
  ASSUME NEW v \in ServerRecord
  PROVE  Answers(v) \subseteq Message
<1>1. v.state \in State /\ v.mode \in Mode
  BY DEF ServerRecord
<1>2. StateOf(v) \in Message
  BY <1>1 DEF StateOf, Message
<1>3. Limits \in Message
  BY DEF Limits, Message
<1>4. StatusOf(v) \in Message /\ RegionOf(v) \in Message
  BY <1>1 DEF StatusOf, RegionOf, Message
<1>5. QED
  BY <1>2, <1>3, <1>4 DEF Answers

LEMMA AnswersTell ==
  ASSUME NEW v \in ServerRecord, NEW m \in Answers(v)
  PROVE  /\ m.type = "state" => m.state = v.state
         /\ m.type \in {"region", "status"} => v.state # "idle" /\ m.mode = v.mode
         /\ m.type # "discovery"
<1>1. v.mode \in Mode
  BY DEF ServerRecord
<1>2. StateOf(v).type = "state" /\ StateOf(v).state = v.state /\ Limits.type = "limits"
  BY DEF StateOf, Limits
<1>3. StatusOf(v).type = "status" /\ StatusOf(v).mode = v.mode
  BY DEF StatusOf
<1>4. RegionOf(v).type = "region" /\ RegionOf(v).mode = v.mode
  BY DEF RegionOf
<1>5. m \in {StateOf(v), Limits} \/ (v.state # "idle" /\ m \in {StatusOf(v), RegionOf(v)})
  BY DEF Answers
<1>6. QED
  BY <1>1, <1>2, <1>3, <1>4, <1>5

LEMMA IfType ==
  ASSUME NEW S, NEW m, NEW c \in BOOLEAN, c => m \in S
  PROVE  If(c, m) \in Seq(S)
BY DEF If

(* An element of a sequence stays one when more follows.                   *)
LEMMA InConcat ==
  ASSUME NEW S, NEW a \in Seq(S), NEW b \in Seq(S), NEW x,
         \E n \in 1..Len(a) : a[n] = x
  PROVE  \E n \in 1..Len(a \o b) : (a \o b)[n] = x
BY ConcatProperties

LEMMA HeadStays ==
  ASSUME NEW S, NEW a \in Seq(S), NEW b \in Seq(S), a # <<>>
  PROVE  a \o b # <<>> /\ Head(a \o b) = Head(a)
OBVIOUS

(* The replies to a command are answers of the server after it; the one    *)
(* to get_state and, unless it is idle, the one to the region query are    *)
(* among them.                                                             *)
LEMMA RepliesTell ==
  ASSUME NEW v \in ServerRecord, NEW cmd, NEW asks, NEW push \in BOOLEAN
  PROVE  LET w == After(v, cmd)
             R == Replies(v, cmd, asks, push) IN
         /\ R \in Seq(Answers(w))
         /\ "state" \in asks => \E n \in 1..Len(R) : R[n] = StateOf(w)
         /\ "region" \in asks /\ w.state # "idle" => \E n \in 1..Len(R) : R[n] = RegionOf(w)
<1> DEFINE w     == After(v, cmd)
           moved == w.state # v.state
           conf  == w.state # "idle"
           A     == Answers(w)
           r1 == If(moved /\ push, StateOf(w))
           r2 == If(moved /\ cmd = "configure", StatusOf(w))
           r3 == If("state" \in asks, StateOf(w))
           r4 == If("region" \in asks /\ conf, RegionOf(w))
           r5 == If("limits" \in asks /\ conf, Limits)
           R  == Replies(v, cmd, asks, push)
<1>1. R = r1 \o r2 \o r3 \o r4 \o r5
  BY DEF Replies
<1>2. moved /\ cmd = "configure" => conf
  BY DEF After, ServerRecord
<1>3. StateOf(w) \in A /\ Limits \in A /\ (conf => StatusOf(w) \in A /\ RegionOf(w) \in A)
  BY DEF Answers
<1>4. r1 \in Seq(A) /\ r2 \in Seq(A) /\ r3 \in Seq(A) /\ r4 \in Seq(A) /\ r5 \in Seq(A)
  <2> HIDE DEF A, w
  <2>1. r1 \in Seq(A)
    BY <1>3, IfType
  <2>2. r2 \in Seq(A)
    BY <1>2, <1>3, IfType
  <2>3. r3 \in Seq(A)
    <3>1. ("state" \in asks) \in BOOLEAN
      OBVIOUS
    <3>2. QED
      BY <1>3, <3>1, IfType
  <2>4. r4 \in Seq(A)
    BY <1>3, IfType
  <2>5. r5 \in Seq(A)
    BY <1>3, IfType
  <2>6. QED
    BY <2>1, <2>2, <2>3, <2>4, <2>5
<1>5. ("state" \in asks => \E n \in 1..Len(r3) : r3[n] = StateOf(w))
      /\ ("region" \in asks /\ conf => \E n \in 1..Len(r4) : r4[n] = RegionOf(w))
  <2> HIDE DEF w
  <2>1. QED
    BY DEF If
<1> HIDE DEF r1, r2, r3, r4, r5, A, w, R, conf
<1>6. (r1 \o r2) \in Seq(A) /\ (r1 \o r2 \o r3) \in Seq(A) /\ (r1 \o r2 \o r3 \o r4) \in Seq(A)
      /\ (r1 \o r2 \o r3 \o r4 \o r5) \in Seq(A)
  BY <1>4
<1>7. "state" \in asks => \E n \in 1..Len(R) : R[n] = StateOf(w)
  <2> SUFFICES ASSUME "state" \in asks PROVE \E n \in 1..Len(R) : R[n] = StateOf(w)
    OBVIOUS
  <2>1. \E n \in 1..Len(r1 \o r2 \o r3) : (r1 \o r2 \o r3)[n] = StateOf(w)
    <3> DEFINE r12 == r1 \o r2
    <3>1. r12 \in Seq(A)
      BY <1>6
    <3>2. PICK n \in 1..Len(r3) : r3[n] = StateOf(w)
      BY <1>5
    <3> HIDE DEF r12
    <3>3. Len(r12) + n \in 1..Len(r12 \o r3) /\ (r12 \o r3)[Len(r12) + n] = StateOf(w)
      BY <1>4, <3>1, <3>2, ConcatProperties
    <3>4. QED
      BY <3>3 DEF r12
  <2>2. \E n \in 1..Len(r1 \o r2 \o r3 \o r4) : (r1 \o r2 \o r3 \o r4)[n] = StateOf(w)
    BY <1>4, <1>6, <2>1, InConcat
  <2>3. QED
    BY <1>1, <1>4, <1>6, <2>2, InConcat
<1>8. "region" \in asks /\ conf => \E n \in 1..Len(R) : R[n] = RegionOf(w)
  <2> SUFFICES ASSUME "region" \in asks, conf PROVE \E n \in 1..Len(R) : R[n] = RegionOf(w)
    OBVIOUS
  <2>1. \E n \in 1..Len(r1 \o r2 \o r3 \o r4) : (r1 \o r2 \o r3 \o r4)[n] = RegionOf(w)
    <3> DEFINE r13 == r1 \o r2 \o r3
    <3>1. r13 \in Seq(A)
      BY <1>6
    <3>2. PICK n \in 1..Len(r4) : r4[n] = RegionOf(w)
      BY <1>5
    <3> HIDE DEF r13
    <3>3. Len(r13) + n \in 1..Len(r13 \o r4) /\ (r13 \o r4)[Len(r13) + n] = RegionOf(w)
      BY <1>4, <3>1, <3>2, ConcatProperties
    <3>4. QED
      BY <3>3 DEF r13
  <2>2. QED
    BY <1>1, <1>4, <1>6, <2>1, InConcat
<1>9. QED
  BY <1>1, <1>6, <1>7, <1>8 DEF R, A, w, conf

-----------------------------------------------------------------------------
(* The state st a link knows will be the server's v once the replies q are *)
(* read: it is, or a state among them will tell, and none says otherwise   *)
(* after it.                                                               *)
StateWillBe(q, st, v) ==
  \/ /\ st = v.state
     /\ \A n \in 1..Len(q) : q[n].type = "state" => q[n].state = v.state
  \/ \E n \in 1..Len(q) :
       /\ q[n].type = "state"
       /\ \A k \in n..Len(q) : q[k].type = "state" => q[k].state = v.state

(* The region r a link knows will be right once the replies are read: a    *)
(* reply that carries another than the server's is followed by one that    *)
(* makes the link forget it, and that by one that brings it again, by      *)
(* itself or because the link then asks.  What the link knows before the   *)
(* first of them is right, or missed (x).                                  *)
CarriesRegion(m) == m.type \in {"region", "status"}
Forgets(m)       == m.type = "state" /\ m.state = "idle"
BringsRegion(m)  == CarriesRegion(m) \/ (m.type = "state" /\ m.state # "idle")
Outdated(m, v)   == CarriesRegion(m) /\ (v.state = "idle" \/ m.mode # v.mode)

OutdatedIsForgotten(q, v) ==
  \A n \in 1..Len(q) : Outdated(q[n], v) => \E k \in n..Len(q) : Forgets(q[k])
ForgottenIsBrought(q, v) ==
  v.state # "idle" =>
    \A n \in 1..Len(q) : Forgets(q[n]) => \E k \in n..Len(q) : BringsRegion(q[k])
KnownWillBe(q, r, x, v) ==
  \/ \E n \in 1..Len(q) : Forgets(q[n])
  \/ IF v.state = "idle" THEN r = 0
     ELSE \/ x \/ r = v.mode
          \/ \E n \in 1..Len(q) : CarriesRegion(q[n])
          \/ r = 0 /\ \E n \in 1..Len(q) : BringsRegion(q[n])

RegionWillBe(q, r, x, v) ==
  OutdatedIsForgotten(q, v) /\ ForgottenIsBrought(q, v) /\ KnownWillBe(q, r, x, v)

(* Both survive the answers that follow, if a change of state is told.     *)
LEMMA Appended ==
  ASSUME NEW q \in Seq(Message), NEW w \in ServerRecord, NEW R \in Seq(Answers(w))
  PROVE  /\ q \o R \in Seq(Message) /\ Len(q \o R) = Len(q) + Len(R)
         /\ Len(q) \in Nat /\ Len(R) \in Nat
         /\ \A n \in 1..Len(q) : (q \o R)[n] = q[n]
         /\ \A n \in 1..Len(R) : (q \o R)[Len(q) + n] = R[n]
         /\ \A n \in (Len(q) + 1)..Len(q \o R) :
              (q \o R)[n] = R[n - Len(q)] /\ (q \o R)[n] \in Answers(w)
<1>1. R \in Seq(Message)
  BY AnswersType
<1>2. q \o R \in Seq(Message) /\ Len(q \o R) = Len(q) + Len(R)
      /\ Len(q) \in Nat /\ Len(R) \in Nat
  BY <1>1, ConcatProperties
<1>3. \A n \in 1..Len(q) : (q \o R)[n] = q[n]
  BY <1>1, ConcatProperties
<1>4. \A n \in 1..Len(R) : (q \o R)[Len(q) + n] = R[n]
  BY <1>1, ConcatProperties
<1>5. \A n \in 1..Len(R) : R[n] \in Answers(w)
  OBVIOUS
<1>6. ASSUME NEW n \in (Len(q) + 1)..Len(q \o R)
      PROVE  (q \o R)[n] = R[n - Len(q)] /\ (q \o R)[n] \in Answers(w)
  <2>1. n - Len(q) \in 1..Len(R) /\ Len(q) + (n - Len(q)) = n
    BY <1>2
  <2>2. QED
    BY <1>4, <1>5, <2>1
<1>7. QED
  BY <1>2, <1>3, <1>4, <1>6

LEMMA StateAppended ==
  ASSUME NEW v \in ServerRecord, NEW w \in ServerRecord, NEW st,
         NEW q \in Seq(Message), NEW R \in Seq(Answers(w)), StateWillBe(q, st, v),
         w.state = v.state \/ \E n \in 1..Len(R) : R[n] = StateOf(w)
  PROVE  StateWillBe(q \o R, st, w)
<1> DEFINE s == q \o R
<1>1. /\ Len(s) = Len(q) + Len(R) /\ Len(q) \in Nat /\ Len(R) \in Nat
      /\ \A n \in 1..Len(q) : s[n] = q[n]
      /\ \A n \in 1..Len(R) : s[Len(q) + n] = R[n]
  BY Appended
<1>2. \A n \in (Len(q) + 1)..Len(s) : s[n].type = "state" => s[n].state = w.state
  BY Appended, AnswersTell
<1> HIDE DEF s
<1>3. CASE \E n \in 1..Len(R) : R[n] = StateOf(w)
  <2>1. PICK n \in 1..Len(R) : R[n] = StateOf(w)
    BY <1>3
  <2>2. Len(q) + n \in 1..Len(s) /\ s[Len(q) + n].type = "state"
    BY <1>1, <2>1 DEF StateOf
  <2>3. \A k \in (Len(q) + n)..Len(s) : s[k].type = "state" => s[k].state = w.state
    BY <1>1, <1>2
  <2>4. StateWillBe(s, st, w)
    BY <2>2, <2>3 DEF StateWillBe
  <2>5. QED
    BY <2>4 DEF s
<1>4. CASE w.state = v.state
  <2>1. CASE st = v.state /\ \A n \in 1..Len(q) : q[n].type = "state" => q[n].state = v.state
    <3>1. \A n \in 1..Len(s) : s[n].type = "state" => s[n].state = w.state
      BY <1>1, <1>2, <1>4, <2>1
    <3>2. StateWillBe(s, st, w)
      BY <1>4, <2>1, <3>1 DEF StateWillBe
    <3>3. QED
      BY <3>2 DEF s
  <2>2. ASSUME NEW n \in 1..Len(q), q[n].type = "state",
               \A k \in n..Len(q) : q[k].type = "state" => q[k].state = v.state
        PROVE  StateWillBe(q \o R, st, w)
    <3>1. n \in 1..Len(s) /\ s[n].type = "state"
      BY <1>1, <2>2
    <3>2. \A k \in n..Len(s) : k \in n..Len(q) \/ k \in (Len(q) + 1)..Len(s)
      BY <1>1
    <3>3. \A k \in n..Len(s) : s[k].type = "state" => s[k].state = w.state
      BY <1>1, <1>2, <1>4, <2>2, <3>2
    <3>4. StateWillBe(s, st, w)
      BY <3>1, <3>3 DEF StateWillBe
    <3>5. QED
      BY <3>4 DEF s
  <2>3. QED
    BY <2>1, <2>2 DEF StateWillBe
<1>5. QED
  BY <1>3, <1>4

LEMMA RegionAppended ==
  ASSUME NEW v \in ServerRecord, NEW w \in ServerRecord, NEW r, NEW x,
         NEW q \in Seq(Message), NEW R \in Seq(Answers(w)),
         OutdatedIsForgotten(q, v), ForgottenIsBrought(q, v),
         KnownWillBe(q, r, x, v) \/ (w.state # "idle" /\ \E n \in 1..Len(R) : R[n] = RegionOf(w)),
         v.state # "idle" /\ w.state # "idle" => w.mode = v.mode,
         w.state = v.state \/ \E n \in 1..Len(R) : R[n] = StateOf(w)
  PROVE  RegionWillBe(q \o R, r, x, w)
<1> DEFINE s == q \o R
<1>1. /\ Len(s) = Len(q) + Len(R) /\ Len(q) \in Nat /\ Len(R) \in Nat
      /\ \A n \in 1..Len(q) : s[n] = q[n]
      /\ \A n \in 1..Len(R) : s[Len(q) + n] = R[n]
  BY Appended
<1>2. \A n \in (Len(q) + 1)..Len(s) :
        /\ CarriesRegion(s[n]) => w.state # "idle" /\ s[n].mode = w.mode
        /\ Forgets(s[n]) => w.state = "idle"
  BY Appended, AnswersTell DEF CarriesRegion, Forgets
<1>3. \A n \in 1..Len(s) : n \in 1..Len(q) \/ n \in (Len(q) + 1)..Len(s)
  BY <1>1
<1>4. /\ \A n \in 1..Len(q) : n \in 1..Len(s) /\ s[n] = q[n]
      /\ \A n \in 1..Len(q) : \A k \in n..Len(q) : k \in n..Len(s) /\ s[k] = q[k]
  BY <1>1
<1>5. (\E n \in 1..Len(R) : R[n] = StateOf(w)) =>
        \E k \in (Len(q) + 1)..Len(s) :
          /\ w.state = "idle" => Forgets(s[k])
          /\ w.state # "idle" => BringsRegion(s[k])
  <2> SUFFICES ASSUME NEW n \in 1..Len(R), R[n] = StateOf(w)
               PROVE  \E k \in (Len(q) + 1)..Len(s) :
                        /\ w.state = "idle" => Forgets(s[k])
                        /\ w.state # "idle" => BringsRegion(s[k])
    OBVIOUS
  <2>1. Len(q) + n \in (Len(q) + 1)..Len(s) /\ s[Len(q) + n] = StateOf(w)
    BY <1>1
  <2>2. StateOf(w).type = "state" /\ StateOf(w).state = w.state
    BY DEF StateOf
  <2> HIDE DEF s
  <2>3. QED
    BY <2>1, <2>2 DEF Forgets, BringsRegion
<1>6. w.state # v.state =>
        \E k \in (Len(q) + 1)..Len(s) :
          /\ w.state = "idle" => Forgets(s[k])
          /\ w.state # "idle" => BringsRegion(s[k])
  BY <1>5
<1> HIDE DEF s
<1>7. \A n \in 1..Len(q), k \in (Len(q) + 1)..Len(s) : k \in n..Len(s) /\ k \in 1..Len(s)
  BY <1>1
<1>8. OutdatedIsForgotten(s, w)
  <2> SUFFICES ASSUME NEW n \in 1..Len(s), Outdated(s[n], w)
               PROVE  \E k \in n..Len(s) : Forgets(s[k])
    BY DEF OutdatedIsForgotten
  <2>1. n \in 1..Len(q)
    BY <1>2, <1>3 DEF Outdated
  <2>2. CASE Outdated(q[n], v)
    BY <1>4, <2>1, <2>2 DEF OutdatedIsForgotten
  <2>3. CASE ~Outdated(q[n], v)
    <3>1. w.state = "idle" /\ v.state # "idle"
      BY <1>4, <2>1, <2>3 DEF Outdated
    <3>2. QED
      BY <1>6, <1>7, <2>1, <3>1
  <2>4. QED
    BY <2>2, <2>3
<1>9. ForgottenIsBrought(s, w)
  <2> SUFFICES ASSUME w.state # "idle", NEW n \in 1..Len(s), Forgets(s[n])
               PROVE  \E k \in n..Len(s) : BringsRegion(s[k])
    BY DEF ForgottenIsBrought
  <2>1. n \in 1..Len(q)
    BY <1>2, <1>3
  <2>2. CASE v.state # "idle"
    BY <1>4, <2>1, <2>2 DEF ForgottenIsBrought
  <2>3. CASE v.state = "idle"
    BY <1>6, <1>7, <2>1, <2>3
  <2>4. QED
    BY <2>2, <2>3
<1>10. KnownWillBe(s, r, x, w)
  <2>1. CASE \E n \in 1..Len(q) : Forgets(q[n])
    BY <1>4, <2>1 DEF KnownWillBe
  <2>2. CASE w.state = "idle" /\ v.state # "idle"
    <3>1. PICK k \in (Len(q) + 1)..Len(s) : Forgets(s[k])
      BY <1>6, <2>2
    <3>2. k \in 1..Len(s)
      BY <1>1
    <3>3. QED
      BY <3>1, <3>2 DEF KnownWillBe
  <2>3. CASE w.state = "idle" /\ v.state = "idle"
    BY <2>1, <2>3 DEF KnownWillBe
  <2>4. CASE w.state # "idle" /\ v.state = "idle" /\ KnownWillBe(q, r, x, v)
    <3>1. PICK k \in (Len(q) + 1)..Len(s) : BringsRegion(s[k])
      BY <1>6, <2>4
    <3>2. k \in 1..Len(s)
      BY <1>1
    <3>3. QED
      BY <2>1, <2>4, <3>1, <3>2 DEF KnownWillBe
  <2>5. CASE w.state # "idle" /\ v.state # "idle" /\ KnownWillBe(q, r, x, v)
    BY <1>4, <2>1, <2>5 DEF KnownWillBe
  <2>6. CASE w.state # "idle" /\ \E n \in 1..Len(R) : R[n] = RegionOf(w)
    <3>1. PICK n \in 1..Len(R) : R[n] = RegionOf(w)
      BY <2>6
    <3>2. Len(q) + n \in 1..Len(s) /\ s[Len(q) + n] = RegionOf(w)
      BY <1>1, <3>1
    <3>3. RegionOf(w).type = "region"
      BY DEF RegionOf
    <3>4. CarriesRegion(s[Len(q) + n])
      BY <3>2, <3>3 DEF CarriesRegion
    <3>5. QED
      BY <2>6, <3>2, <3>4 DEF KnownWillBe
  <2>7. QED
    BY <2>2, <2>3, <2>4, <2>5, <2>6
<1>11. QED
  BY <1>8, <1>9, <1>10 DEF RegionWillBe, s

(* One reply is read.                                                      *)
LEMMA ReadOne ==
  ASSUME NEW q \in Seq(Message), q # <<>>
  PROVE  /\ Head(q) = q[1] /\ Head(q) \in Message /\ Tail(q) \in Seq(Message)
         /\ Len(q) \in Nat \ {0} /\ Len(Tail(q)) = Len(q) - 1
         /\ \A n \in 1..Len(Tail(q)) : Tail(q)[n] = q[n + 1]
BY HeadTailProperties

LEMMA StateRead ==
  ASSUME NEW q \in Seq(Message), q # <<>>, NEW v \in ServerRecord, NEW st, StateWillBe(q, st, v)
  PROVE  StateWillBe(Tail(q), IF Head(q).type = "state" THEN Head(q).state ELSE st, v)
<1> DEFINE t == Tail(q)
           st2 == IF Head(q).type = "state" THEN Head(q).state ELSE st
<1>1. /\ Head(q) = q[1] /\ Len(q) \in Nat \ {0} /\ Len(t) = Len(q) - 1
      /\ \A n \in 1..Len(t) : t[n] = q[n + 1] /\ n + 1 \in 1..Len(q)
  BY ReadOne
<1> HIDE DEF t
<1>2. CASE st = v.state /\ \A n \in 1..Len(q) : q[n].type = "state" => q[n].state = v.state
  <2>1. st2 = v.state /\ \A n \in 1..Len(t) : t[n].type = "state" => t[n].state = v.state
    BY <1>1, <1>2
  <2>2. QED
    BY <2>1 DEF StateWillBe, t
<1>3. ASSUME NEW n \in 1..Len(q), q[n].type = "state",
             \A k \in n..Len(q) : q[k].type = "state" => q[k].state = v.state
      PROVE  StateWillBe(t, st2, v)
  <2>1. CASE n = 1
    <3>1. st2 = v.state
      BY <1>1, <1>3, <2>1
    <3>2. \A k \in 1..Len(t) : t[k].type = "state" => t[k].state = v.state
      BY <1>1, <1>3, <2>1
    <3>3. QED
      BY <3>1, <3>2 DEF StateWillBe
  <2>2. CASE n # 1
    <3>1. n - 1 \in 1..Len(t) /\ t[n - 1] = q[n]
      BY <1>1, <2>2
    <3>2. \A k \in (n - 1)..Len(t) : k \in 1..Len(t) /\ k + 1 \in n..Len(q)
      BY <1>1, <3>1
    <3>3. \A k \in (n - 1)..Len(t) : t[k].type = "state" => t[k].state = v.state
      BY <1>1, <1>3, <3>2
    <3>4. QED
      BY <1>3, <3>1, <3>3 DEF StateWillBe
  <2>3. QED
    BY <2>1, <2>2
<1>4. StateWillBe(t, st2, v)
  BY <1>2, <1>3 DEF StateWillBe, t
<1>5. QED
  BY <1>4 DEF t

(* The region after one reply, and when it is asked for.                   *)
RegionAfterReading(m, r) ==
  IF CarriesRegion(m) THEN m.mode ELSE IF Forgets(m) THEN 0 ELSE r
MissedAfterReading(m, x) == x /\ ~CarriesRegion(m) /\ ~Forgets(m)
RegionIsAsked(m, r) == m.type = "state" /\ m.state # "idle" /\ r = 0

LEMMA RegionRead ==
  ASSUME NEW q \in Seq(Message), q # <<>>, NEW v \in ServerRecord,
         NEW r, NEW x, RegionWillBe(q, r, x, v)
  PROVE  /\ OutdatedIsForgotten(Tail(q), v) /\ ForgottenIsBrought(Tail(q), v)
         /\ \/ KnownWillBe(Tail(q), RegionAfterReading(Head(q), r),
                           MissedAfterReading(Head(q), x), v)
            \/ RegionIsAsked(Head(q), r) /\ v.state # "idle"
<1> DEFINE t == Tail(q)
           h == Head(q)
           r2 == RegionAfterReading(h, r)
           x2 == MissedAfterReading(h, x)
<1>1. /\ h = q[1] /\ Len(q) \in Nat \ {0} /\ Len(t) = Len(q) - 1
      /\ \A n \in 1..Len(t) : t[n] = q[n + 1] /\ n + 1 \in 1..Len(q)
  BY ReadOne
<1> HIDE DEF t, h
<1>2. \A n \in 1..Len(q) : n = 1 \/ (n - 1 \in 1..Len(t) /\ t[n - 1] = q[n])
  BY <1>1
<1>3. \A n \in 1..Len(t) : \A k \in (n + 1)..Len(q) : k - 1 \in n..Len(t) /\ t[k - 1] = q[k]
  BY <1>1
<1>4. ASSUME NEW k \in 1..Len(q), ~(\E n \in 1..Len(t) : t[n] = q[k])
      PROVE  q[k] = h
  BY <1>1, <1>2, <1>4
<1>5. OutdatedIsForgotten(t, v)
  <2> SUFFICES ASSUME NEW n \in 1..Len(t), Outdated(t[n], v)
               PROVE  \E k \in n..Len(t) : Forgets(t[k])
    BY DEF OutdatedIsForgotten
  <2>1. PICK k \in (n + 1)..Len(q) : Forgets(q[k])
    BY <1>1 DEF RegionWillBe, OutdatedIsForgotten
  <2>2. QED
    BY <1>3, <2>1
<1>6. ForgottenIsBrought(t, v)
  <2> SUFFICES ASSUME v.state # "idle", NEW n \in 1..Len(t), Forgets(t[n])
               PROVE  \E k \in n..Len(t) : BringsRegion(t[k])
    BY DEF ForgottenIsBrought
  <2>1. PICK k \in (n + 1)..Len(q) : BringsRegion(q[k])
    BY <1>1 DEF RegionWillBe, ForgottenIsBrought
  <2>2. QED
    BY <1>3, <2>1
<1>7. KnownWillBe(t, r2, x2, v) \/ (RegionIsAsked(h, r) /\ v.state # "idle")
  <2>1. CASE \E n \in 1..Len(t) : Forgets(t[n])
    BY <2>1 DEF KnownWillBe
  <2> SUFFICES ASSUME \A n \in 1..Len(t) : ~Forgets(t[n])
               PROVE  KnownWillBe(t, r2, x2, v) \/ (RegionIsAsked(h, r) /\ v.state # "idle")
    BY <2>1
  <2>2. 1 \in 1..Len(q) /\ q[1] = h
    BY <1>1
  <2>3. CASE Forgets(h)
    <3>1. ~CarriesRegion(h) /\ ~BringsRegion(h) /\ r2 = 0
      BY <2>3 DEF Forgets, CarriesRegion, BringsRegion, RegionAfterReading
    <3>2. CASE v.state = "idle"
      BY <3>1, <3>2 DEF KnownWillBe
    <3>3. CASE v.state # "idle"
      <4>1. PICK k \in 1..Len(q) : BringsRegion(q[k])
        BY <2>2, <2>3, <3>3 DEF RegionWillBe, ForgottenIsBrought
      <4>2. \E n \in 1..Len(t) : BringsRegion(t[n])
        BY <1>4, <3>1, <4>1
      <4>3. QED
        BY <3>1, <3>3, <4>2 DEF KnownWillBe
    <3>4. QED
      BY <3>2, <3>3
  <2>4. CASE CarriesRegion(h)
    <3>1. ~Forgets(h) /\ r2 = h.mode
      BY <2>4 DEF Forgets, CarriesRegion, RegionAfterReading
    <3>2. \A k \in 1..Len(q) : ~Forgets(q[k])
      BY <1>4, <3>1
    <3>3. ~Outdated(h, v)
      BY <2>2, <3>2 DEF RegionWillBe, OutdatedIsForgotten
    <3>4. QED
      BY <2>4, <3>1, <3>3 DEF Outdated, KnownWillBe
  <2>5. CASE ~Forgets(h) /\ ~CarriesRegion(h)
    <3>1. r2 = r /\ (x => x2)
      BY <2>5 DEF RegionAfterReading, MissedAfterReading
    <3>2. \A k \in 1..Len(q) : ~Forgets(q[k])
      BY <1>4, <2>5
    <3>3. CASE v.state = "idle"
      BY <3>1, <3>2, <3>3 DEF RegionWillBe, KnownWillBe
    <3>4. CASE v.state # "idle" /\ (x \/ r = v.mode)
      BY <3>1, <3>4 DEF KnownWillBe
    <3>5. CASE v.state # "idle" /\ \E n \in 1..Len(q) : CarriesRegion(q[n])
      BY <1>4, <2>5, <3>5 DEF KnownWillBe
    <3>6. CASE v.state # "idle" /\ r = 0 /\ \E n \in 1..Len(q) : BringsRegion(q[n])
      <4>1. BringsRegion(h) => RegionIsAsked(h, r)
        BY <2>5, <3>6 DEF BringsRegion, RegionIsAsked
      <4>2. ~BringsRegion(h) => \E n \in 1..Len(t) : BringsRegion(t[n])
        BY <1>4, <3>6
      <4>3. QED
        BY <3>1, <3>6, <4>1, <4>2 DEF KnownWillBe
    <3>7. QED
      BY <3>2, <3>3, <3>4, <3>5, <3>6 DEF RegionWillBe, KnownWillBe
  <2>6. QED
    BY <2>3, <2>4, <2>5
<1>8. QED
  BY <1>5, <1>6, <1>7 DEF t, h

-----------------------------------------------------------------------------
(* The links.                                                              *)
LinkTypes ==
  /\ phase \in [Server -> {"down", "up", "dead"}]
  /\ server_state \in [Server -> State \cup {""}]
  /\ region \in [Server -> Mode \cup {0}]
  /\ missed \in [Server -> BOOLEAN]
  /\ streaming \in [Server -> {"none", "off", "on"}]
  /\ srv \in [Server -> ServerRecord]
  /\ inbox \in [Server -> Seq(Message)]

Told(s) ==
  phase[s] = "up" => /\ StateWillBe(inbox[s], server_state[s], srv[s])
                     /\ RegionWillBe(inbox[s], region[s], missed[s], srv[s])

LinkInv == LinkTypes /\ \A s \in Server : Told(s)

LEMMA SendEffect ==
  ASSUME LinkTypes, NEW cmd, NEW asks, NEW under \in [Server -> Seq(Message)],
         sendCommands(cmd, asks, under)
  PROVE  /\ srv' \in [Server -> ServerRecord] /\ inbox' \in [Server -> Seq(Message)]
         /\ \E push \in BOOLEAN : \A s \in Server :
              IF phase[s] = "up"
              THEN /\ srv'[s] = After(srv[s], cmd[s])
                   /\ inbox'[s] = under[s] \o Replies(srv[s], cmd[s], asks[s], push)
              ELSE srv'[s] = srv[s] /\ inbox'[s] = under[s] \o <<>>
<1>1. PICK push \in BOOLEAN :
        /\ srv' = [s \in Server |-> IF phase[s] = "up" THEN After(srv[s], cmd[s]) ELSE srv[s]]
        /\ inbox' = [s \in Server |->
                       under[s] \o IF phase[s] = "up"
                                   THEN Replies(srv[s], cmd[s], asks[s], push) ELSE <<>>]
  BY DEF sendCommands
<1>2. \A s \in Server : srv[s] \in ServerRecord /\ under[s] \in Seq(Message)
  BY DEF LinkTypes
<1>3. \A s \in Server : After(srv[s], cmd[s]) \in ServerRecord
  BY <1>2, AfterType
<1>4. srv' \in [Server -> ServerRecord]
  BY <1>1, <1>2, <1>3
<1>5. ASSUME NEW s \in Server PROVE inbox'[s] \in Seq(Message)
  <2>1. Replies(srv[s], cmd[s], asks[s], push) \in Seq(Message)
    <3>1. Replies(srv[s], cmd[s], asks[s], push) \in Seq(Answers(After(srv[s], cmd[s])))
      BY <1>2, RepliesTell
    <3>2. Answers(After(srv[s], cmd[s])) \subseteq Message
      BY <1>3, AnswersType
    <3>3. QED
      BY <3>1, <3>2
  <2>2. inbox'[s] = under[s] \o IF phase[s] = "up"
                                THEN Replies(srv[s], cmd[s], asks[s], push) ELSE <<>>
    BY <1>1
  <2>3. QED
    BY <1>2, <2>1, <2>2
<1>6. inbox' \in [Server -> Seq(Message)]
  BY <1>1, <1>5
<1>7. QED
  BY <1>1, <1>4, <1>6

(* What a sender may rely on: a change of state is told when get_state     *)
(* goes with the command.                                                  *)
LEMMA SendTold ==
  ASSUME LinkInv, NEW cmd, NEW asks, sendCommands(cmd, asks, inbox),
         \A s \in Server : After(srv[s], cmd[s]).state # srv[s].state => "state" \in asks[s],
         UNCHANGED <<phase, server_state, region, missed>>,
         streaming' \in [Server -> {"none", "off", "on"}]
  PROVE  LinkInv'
<1>1. LinkTypes /\ inbox \in [Server -> Seq(Message)]
  BY DEF LinkInv, LinkTypes
<1>2. LinkTypes'
  BY <1>1, SendEffect DEF LinkTypes
<1>3. ASSUME NEW s \in Server, phase[s] = "up" PROVE Told(s)'
  <2> DEFINE w == After(srv[s], cmd[s])
  <2>1. PICK push \in BOOLEAN : /\ srv'[s] = w
                                /\ inbox'[s] = inbox[s] \o Replies(srv[s], cmd[s], asks[s], push)
    BY <1>1, <1>3, SendEffect
  <2> DEFINE R == Replies(srv[s], cmd[s], asks[s], push)
  <2>2. srv[s] \in ServerRecord /\ w \in ServerRecord /\ inbox[s] \in Seq(Message)
    BY <1>1, AfterType DEF LinkTypes
  <2>3. R \in Seq(Answers(w)) /\ ("state" \in asks[s] => \E n \in 1..Len(R) : R[n] = StateOf(w))
    BY <2>2, RepliesTell
  <2>4. w.state = srv[s].state \/ \E n \in 1..Len(R) : R[n] = StateOf(w)
    BY <2>3
  <2>5. Told(s)
    BY DEF LinkInv
  <2> HIDE DEF w, R
  <2>6. StateWillBe(inbox[s] \o R, server_state[s], w)
    BY <1>3, <2>2, <2>3, <2>4, <2>5, StateAppended DEF Told
  <2>7. RegionWillBe(inbox[s] \o R, region[s], missed[s], w)
    <3>1. srv[s].state # "idle" /\ w.state # "idle" => w.mode = srv[s].mode
      BY <2>2, ModeStays DEF w
    <3>2. QED
      BY <1>3, <2>2, <2>3, <2>4, <2>5, <3>1, RegionAppended DEF Told, RegionWillBe
  <2>8. QED
    BY <2>1, <2>6, <2>7 DEF Told, R
<1>4. ASSUME NEW s \in Server, phase[s] # "up" PROVE Told(s)'
  BY <1>4 DEF Told
<1>5. QED
  BY <1>2, <1>3, <1>4 DEF LinkInv

LEMMA LinkInvInit == LinkInit => LinkInv
<1> SUFFICES ASSUME LinkInit PROVE LinkInv
  OBVIOUS
<1>1. srv \in [Server -> ServerRecord]
  BY DEF LinkInit, ServerRecord, State, Mode
<1>2. LinkTypes
  <2>1. <<>> \in Seq(Message)
    OBVIOUS
  <2>2. QED
    BY <1>1, <2>1 DEF LinkInit, LinkTypes
<1>3. QED
  BY <1>2 DEF LinkInit, LinkInv, Told

(* A connection opens, fails or closes, or the server changes meanwhile.   *)
LEMMA ConnectionTold ==
  ASSUME LinkInv, NEW s \in Server, open(s) \/ fails(s) \/ close(s) \/ changes(s)
  PROVE  LinkInv'
<1>0. UNCHANGED <<server_state, region, streaming>> /\ srv[s] \in ServerRecord
      /\ missed \in [Server -> BOOLEAN]
      /\ phase \in [Server -> {"down", "up", "dead"}]
      /\ inbox \in [Server -> Seq(Message)] /\ srv \in [Server -> ServerRecord]
  BY DEF LinkInv, LinkTypes, open, fails, close, changes, known
<1>1. CASE open(s)
  <2>1. Discovery \in Message
    BY DEF Discovery, Message
  <2>2. StateOf(srv[s]) \in Message
    BY <1>0, AnswersType DEF Answers
  <2>3. repliesToOpen(s) \in Seq(Message)
    BY <2>1, <2>2 DEF repliesToOpen
  <2>4. phase' = [phase EXCEPT ![s] = "up"] /\ inbox' = [inbox EXCEPT ![s] = repliesToOpen(s)]
        /\ srv' = srv /\ missed' \in [Server -> BOOLEAN]
        /\ \A t \in Server : t # s => missed'[t] = missed[t]
    BY <1>0, <1>1 DEF open
  <2>5. ASSUME srv[s].state # "idle", ~missed'[s]
        PROVE  region[s] = 0 \/ region[s] = srv[s].mode
    BY <1>0, <1>1, <2>5 DEF open
  <2>6. LinkTypes'
    BY <1>0, <2>3, <2>4 DEF LinkInv, LinkTypes
  <2>7. Told(s)'
    <3> DEFINE q == repliesToOpen(s)
    <3>1. inbox'[s] = q
      BY <1>0, <2>4
    <3>2. Len(q) = 2 /\ q[2] = StateOf(srv[s])
      BY DEF repliesToOpen
    <3>3. q[2].type = "state" /\ q[2].state = srv[s].state
      BY <3>2 DEF StateOf
    <3> HIDE DEF q
    <3>4. StateWillBe(q, server_state[s], srv[s])
      BY <3>2, <3>3 DEF StateWillBe
    <3>5. RegionWillBe(q, region[s], missed'[s], srv[s])
      <4>0. q[1].type = "discovery"
        BY DEF q, repliesToOpen, Discovery
      <4>1. \A n \in 1..Len(q) : ~CarriesRegion(q[n]) /\ (Forgets(q[n]) => srv[s].state = "idle")
        BY <3>2, <3>3, <4>0 DEF Forgets, CarriesRegion
      <4>2. srv[s].state = "idle" => Forgets(q[2])
        BY <3>3 DEF Forgets
      <4>3. srv[s].state # "idle" => BringsRegion(q[2])
        BY <3>3 DEF BringsRegion
      <4>4. OutdatedIsForgotten(q, srv[s]) /\ ForgottenIsBrought(q, srv[s])
        BY <4>1 DEF OutdatedIsForgotten, ForgottenIsBrought, Outdated
      <4>5. KnownWillBe(q, region[s], missed'[s], srv[s])
        <5>1. 2 \in 1..Len(q)
          BY <3>2
        <5>2. CASE srv[s].state = "idle"
          BY <4>2, <5>1, <5>2 DEF KnownWillBe
        <5>3. CASE srv[s].state # "idle" /\ missed'[s]
          BY <5>3 DEF KnownWillBe
        <5>4. CASE srv[s].state # "idle" /\ ~missed'[s]
          <6>1. region[s] = 0 \/ region[s] = srv[s].mode
            BY <2>5, <5>4
          <6>2. QED
            BY <4>3, <5>1, <5>4, <6>1 DEF KnownWillBe
        <5>5. QED
          BY <5>2, <5>3, <5>4
      <4>6. QED
        BY <4>4, <4>5 DEF RegionWillBe
    <3>6. QED
      BY <1>0, <2>4, <3>1, <3>4, <3>5 DEF Told
  <2>8. \A t \in Server : t # s => Told(t)'
    BY <1>0, <2>4 DEF LinkInv, Told
  <2>9. QED
    BY <2>6, <2>7, <2>8 DEF LinkInv
<1>2. CASE fails(s) \/ close(s) \/ changes(s)
  <2>1. phase' \in [Server -> {"down", "up", "dead"}] /\ phase'[s] # "up"
        /\ missed' = missed /\ \A t \in Server : t # s => phase'[t] = phase[t]
    BY <1>0, <1>2 DEF fails, close, changes, known
  <2>2. inbox' \in [Server -> Seq(Message)] /\ \A t \in Server : t # s => inbox'[t] = inbox[t]
    <3>1. <<>> \in Seq(Message)
      OBVIOUS
    <3>2. inbox' = inbox \/ inbox' = [inbox EXCEPT ![s] = <<>>]
      BY <1>2 DEF fails, close, changes
    <3>3. QED
      BY <1>0, <3>1, <3>2
  <2>3. srv' \in [Server -> ServerRecord] /\ \A t \in Server : t # s => srv'[t] = srv[t]
    <3>1. [srv[s] EXCEPT !.streams = FALSE] \in ServerRecord
      BY <1>0 DEF ServerRecord
    <3>2. [state : {"idle", "running"}, mode : Mode, streams : {FALSE}] \subseteq ServerRecord
      BY DEF ServerRecord, State
    <3>3. \E v \in ServerRecord : srv' \in {srv, [srv EXCEPT ![s] = v]}
      <4>1. CASE fails(s)
        BY <1>0, <3>1, <4>1 DEF fails
      <4>2. CASE close(s)
        BY <1>0, <4>2 DEF close
      <4>3. CASE changes(s)
        BY <3>2, <4>3 DEF changes
      <4>4. QED
        BY <1>2, <4>1, <4>2, <4>3
    <3>4. QED
      BY <1>0, <3>3
  <2>4. LinkTypes'
    BY <1>0, <2>1, <2>2, <2>3 DEF LinkInv, LinkTypes
  <2>5. \A t \in Server : Told(t)'
    BY <1>0, <2>1, <2>2, <2>3 DEF LinkInv, Told
  <2>6. QED
    BY <2>4, <2>5 DEF LinkInv
<1>3. QED
  BY <1>1, <1>2

LEMMA NoneChanges == ASSUME NEW v PROVE After(v, "none") = v
BY DEF After

(* A reply other than a state is read.                                     *)
LEMMA OtherReplyTold ==
  ASSUME LinkInv, NEW s \in Server,
         handleDiscovery(s) \/ handleLimits(s) \/ handleRegion(s) \/ handleStatus(s)
  PROVE  LinkInv'
<1> DEFINE q == inbox[s]
           h == Head(q)
<1>1. /\ phase[s] = "up" /\ q # <<>> /\ h.type # "state"
      /\ inbox' = [inbox EXCEPT ![s] = Tail(@)] /\ UNCHANGED <<phase, server_state, srv>>
  BY DEF handleDiscovery, handleLimits, handleRegion, handleStatus, receives, storeRegion
<1>2. /\ q \in Seq(Message) /\ srv[s] \in ServerRecord /\ region[s] \in Mode \cup {0}
      /\ inbox \in [Server -> Seq(Message)] /\ region \in [Server -> Mode \cup {0}]
      /\ missed \in [Server -> BOOLEAN]
      /\ streaming \in [Server -> {"none", "off", "on"}]
  BY DEF LinkInv, LinkTypes
<1>3. h \in Message /\ Tail(q) \in Seq(Message)
  BY <1>1, <1>2, ReadOne
<1>4. region' = [region EXCEPT ![s] = RegionAfterReading(h, region[s])]
  BY <1>2 DEF handleDiscovery, handleLimits, handleRegion, handleStatus, receives, storeRegion,
              RegionAfterReading, CarriesRegion, Forgets
<1>5. missed' = [missed EXCEPT ![s] = MissedAfterReading(h, missed[s])]
  BY <1>2 DEF handleDiscovery, handleLimits, handleRegion, handleStatus, receives, storeRegion,
              MissedAfterReading, CarriesRegion, Forgets
<1>6. streaming' \in [Server -> {"none", "off", "on"}]
  BY <1>2 DEF handleDiscovery, handleLimits, handleRegion, handleStatus, storeRegion
<1>7. RegionAfterReading(h, region[s]) \in Mode \cup {0}
  BY <1>2, <1>3 DEF RegionAfterReading, CarriesRegion, Message
<1>8. LinkTypes'
  BY <1>1, <1>2, <1>3, <1>4, <1>5, <1>6, <1>7 DEF LinkInv, LinkTypes, MissedAfterReading
<1>9. Told(s)'
  <2>1. Told(s)
    BY DEF LinkInv
  <2>2. StateWillBe(Tail(q), server_state[s], srv[s])
    BY <1>1, <1>2, <2>1, StateRead DEF Told
  <2>3. RegionWillBe(Tail(q), RegionAfterReading(h, region[s]),
                     MissedAfterReading(h, missed[s]), srv[s])
    BY <1>1, <1>2, <2>1, RegionRead DEF Told, RegionIsAsked, RegionWillBe
  <2>4. inbox'[s] = Tail(q) /\ region'[s] = RegionAfterReading(h, region[s])
        /\ missed'[s] = MissedAfterReading(h, missed[s])
    BY <1>1, <1>2, <1>4, <1>5
  <2>5. QED
    BY <1>1, <2>2, <2>3, <2>4 DEF Told
<1>10. \A t \in Server : t # s => Told(t)'
  <2>1. \A t \in Server : t # s => /\ inbox'[t] = inbox[t] /\ region'[t] = region[t]
                                  /\ missed'[t] = missed[t]
    BY <1>1, <1>2, <1>4, <1>5
  <2>2. QED
    BY <1>1, <2>1 DEF LinkInv, Told
<1>11. QED
  BY <1>8, <1>9, <1>10 DEF LinkInv

(* A state is read: where the region is needed it is asked for.            *)
LEMMA StateReplyTold ==
  ASSUME LinkInv, NEW s \in Server, handleState(s)
  PROVE  LinkInv'
<1> DEFINE q == inbox[s]
           h == Head(q)
           r == regionAfter(s, h.state)
           asks == [t \in Server |-> IF t = s /\ h.state # "idle" /\ r = 0 THEN {"region"} ELSE {}]
           under == [inbox EXCEPT ![s] = Tail(@)]
<1>1. phase[s] = "up" /\ q # <<>> /\ h.type = "state" /\ UNCHANGED <<phase, streaming>>
  BY DEF handleState, receives
<1>2. /\ server_state' = [server_state EXCEPT ![s] = h.state]
      /\ region' = [region EXCEPT ![s] = r]
      /\ missed' = [missed EXCEPT ![s] = @ /\ h.state # "idle"]
      /\ sendCommands(NoCommand, asks, under)
  BY DEF handleState
<1>3. /\ q \in Seq(Message) /\ srv[s] \in ServerRecord /\ region[s] \in Mode \cup {0}
      /\ inbox \in [Server -> Seq(Message)] /\ region \in [Server -> Mode \cup {0}]
      /\ server_state \in [Server -> State \cup {""}] /\ LinkTypes
      /\ missed \in [Server -> BOOLEAN]
  BY DEF LinkInv, LinkTypes
<1>4. h \in Message /\ Tail(q) \in Seq(Message)
  BY <1>1, <1>3, ReadOne
<1>5. r = RegionAfterReading(h, region[s]) /\ r \in Mode \cup {0} /\ h.state \in State
  BY <1>1, <1>3, <1>4 DEF regionAfter, RegionAfterReading, CarriesRegion, Forgets, Message
<1>6. under \in [Server -> Seq(Message)] /\ under[s] = Tail(q)
      /\ \A t \in Server : t # s => under[t] = inbox[t]
  BY <1>3, <1>4
<1> HIDE DEF asks, under, r
<1>7. srv' \in [Server -> ServerRecord] /\ inbox' \in [Server -> Seq(Message)]
  BY <1>2, <1>3, <1>6, SendEffect
<1>8. PICK push \in BOOLEAN : \A t \in Server :
        phase[t] = "up" => /\ srv'[t] = srv[t]
                           /\ inbox'[t] = under[t] \o Replies(srv[t], "none", asks[t], push)
  <2>1. \A t \in Server : NoCommand[t] = "none" /\ After(srv[t], NoCommand[t]) = srv[t]
    BY NoneChanges DEF NoCommand
  <2>2. PICK p \in BOOLEAN : \A t \in Server :
          phase[t] = "up" =>
            /\ srv'[t] = After(srv[t], NoCommand[t])
            /\ inbox'[t] = under[t] \o Replies(srv[t], NoCommand[t], asks[t], p)
    <3>1. \E p \in BOOLEAN : \A t \in Server :
            IF phase[t] = "up"
            THEN /\ srv'[t] = After(srv[t], NoCommand[t])
                 /\ inbox'[t] = under[t] \o Replies(srv[t], NoCommand[t], asks[t], p)
            ELSE srv'[t] = srv[t] /\ inbox'[t] = under[t] \o <<>>
      BY <1>2, <1>3, <1>6, SendEffect
    <3>2. QED
      BY <3>1
  <2>3. QED
    BY <2>1, <2>2
<1>9. LinkTypes'
  BY <1>1, <1>2, <1>3, <1>5, <1>7 DEF LinkTypes
<1>10. ASSUME NEW t \in Server, phase[t] = "up"
       PROVE  LET R == Replies(srv[t], "none", asks[t], push) IN
              /\ R \in Seq(Answers(srv[t])) /\ srv[t] \in ServerRecord /\ Told(t)
              /\ "region" \in asks[t] /\ srv[t].state # "idle"
                   => \E n \in 1..Len(R) : R[n] = RegionOf(srv[t])
  <2> DEFINE v == srv[t]
             a == asks[t]
             R == Replies(v, "none", a, push)
  <2>1. v \in ServerRecord /\ Told(t)
    BY <1>3 DEF LinkTypes, LinkInv
  <2>2. After(v, "none") = v
    BY NoneChanges
  <2> HIDE DEF v, a
  <2>3. /\ R \in Seq(Answers(After(v, "none")))
        /\ "region" \in a /\ After(v, "none").state # "idle"
             => \E n \in 1..Len(R) : R[n] = RegionOf(After(v, "none"))
    BY <2>1, RepliesTell
  <2>4. QED
    BY <2>1, <2>2, <2>3 DEF v, a
<1>11. ASSUME NEW t \in Server, t # s, phase[t] = "up" PROVE Told(t)'
  <2> DEFINE R == Replies(srv[t], "none", asks[t], push)
  <2>1. server_state'[t] = server_state[t] /\ region'[t] = region[t] /\ phase'[t] = phase[t]
        /\ missed'[t] = missed[t]
    BY <1>1, <1>2, <1>3, <1>11
  <2>2. srv'[t] = srv[t] /\ inbox'[t] = inbox[t] \o R
    BY <1>6, <1>8, <1>11
  <2>3. R \in Seq(Answers(srv[t])) /\ srv[t] \in ServerRecord /\ Told(t) /\ inbox[t] \in Seq(Message)
    BY <1>3, <1>10, <1>11
  <2> HIDE DEF R
  <2>4. StateWillBe(inbox[t] \o R, server_state[t], srv[t])
    BY <1>11, <2>3, StateAppended DEF Told
  <2>5. RegionWillBe(inbox[t] \o R, region[t], missed[t], srv[t])
    BY <1>11, <2>3, RegionAppended DEF Told, RegionWillBe
  <2>6. QED
    BY <2>1, <2>2, <2>4, <2>5 DEF Told
<1>12. Told(s)'
  <2> DEFINE R == Replies(srv[s], "none", asks[s], push)
             t == Tail(q)
  <2>1. server_state'[s] = h.state /\ region'[s] = r /\ phase'[s] = "up"
        /\ missed'[s] = MissedAfterReading(h, missed[s])
    BY <1>1, <1>2, <1>3 DEF MissedAfterReading, CarriesRegion, Forgets
  <2>2. srv'[s] = srv[s] /\ inbox'[s] = t \o R
    BY <1>1, <1>6, <1>8
  <2>3. /\ R \in Seq(Answers(srv[s])) /\ srv[s] \in ServerRecord /\ Told(s) /\ t \in Seq(Message)
        /\ "region" \in asks[s] /\ srv[s].state # "idle"
             => \E n \in 1..Len(R) : R[n] = RegionOf(srv[s])
    BY <1>1, <1>4, <1>10
  <2>4. StateWillBe(t, h.state, srv[s])
    BY <1>1, <1>3, <2>3, StateRead DEF Told
  <2>5. /\ OutdatedIsForgotten(t, srv[s]) /\ ForgottenIsBrought(t, srv[s])
        /\ \/ KnownWillBe(t, r, MissedAfterReading(h, missed[s]), srv[s])
           \/ RegionIsAsked(h, region[s]) /\ srv[s].state # "idle"
    BY <1>1, <1>3, <1>5, <2>3, RegionRead DEF Told
  <2> HIDE DEF R, t, h, q
  <2>6. StateWillBe(t \o R, h.state, srv[s])
    BY <2>3, <2>4, StateAppended
  <2>7. RegionWillBe(t \o R, r, MissedAfterReading(h, missed[s]), srv[s])
    <3>1. CASE KnownWillBe(t, r, MissedAfterReading(h, missed[s]), srv[s])
      BY <2>3, <2>5, <3>1, RegionAppended
    <3>2. CASE RegionIsAsked(h, region[s]) /\ srv[s].state # "idle"
      <4>1. "region" \in asks[s]
        BY <3>2 DEF RegionIsAsked, regionAfter, asks, r
      <4>2. \E n \in 1..Len(R) : R[n] = RegionOf(srv[s])
        BY <2>3, <3>2, <4>1
      <4>3. QED
        BY <2>3, <2>5, <3>2, <4>2, RegionAppended
    <3>3. QED
      BY <2>5, <3>1, <3>2
  <2>8. QED
    BY <2>1, <2>2, <2>6, <2>7 DEF Told
<1>13. \A t \in Server : phase[t] # "up" => Told(t)'
  BY <1>1 DEF Told
<1>14. QED
  BY <1>9, <1>11, <1>12, <1>13 DEF LinkInv

LEMMA NetworkTold ==
  ASSUME LinkInv, NEW s \in Server,
         open(s) \/ fails(s) \/ close(s) \/ changes(s) \/ handleText(s)
  PROVE  LinkInv'
BY ConnectionTold, StateReplyTold, OtherReplyTold DEF handleText

-----------------------------------------------------------------------------
(* The panel.  A server streams only while it runs and its connection is   *)
(* up, and its camera is flagged.                                          *)
StreamsFlagged(s) ==
  srv[s].streams => srv[s].state = "running" /\ phase[s] = "up" /\ streaming[s] = "on"

PanelInv == LinkInv /\ \A s \in Server : StreamsFlagged(s)

(* flagAs flags every camera whose connection is up.                       *)
LEMMA FlagEffect ==
  ASSUME LinkTypes, NEW flag \in {"off", "on"}, NEW to \in SUBSET Server, flagAs(flag, to)
  PROVE  /\ streaming' \in [Server -> {"none", "off", "on"}]
         /\ \A s \in Server : /\ s \notin to => streaming'[s] = streaming[s]
                              /\ s \in to /\ phase[s] = "up" => streaming'[s] = flag
<1>1. PICK dropped \in SUBSET {s \in to : phase[s] = "dead"} :
        streaming' = [s \in Server |-> IF s \in to \ dropped THEN flag ELSE streaming[s]]
  BY DEF flagAs
<1>2. QED
  BY <1>1 DEF LinkTypes

LEMMA CommandKeepsStreams ==
  ASSUME NEW v \in ServerRecord, NEW cmd, v.streams => v.state = "running"
  PROVE  /\ After(v, cmd).streams => After(v, cmd).state = "running"
         /\ cmd \notin {"stream"} => (After(v, cmd).streams => v.streams)
         /\ cmd \in {"stop", "unstream"} => ~After(v, cmd).streams
         /\ cmd \in {"stream", "unstream", "none"} => After(v, cmd).state = v.state
BY DEF After, ServerRecord

(* A command goes out, with the flags it sets.                             *)
LEMMA SendFlagged ==
  ASSUME PanelInv, NEW cmd, NEW asks, sendCommands(cmd, asks, inbox), phase' = phase,
         \A s \in Server :
           phase[s] = "up" /\ After(srv[s], cmd[s]).streams => streaming'[s] = "on"
  PROVE  \A s \in Server : StreamsFlagged(s)'
<1> SUFFICES ASSUME NEW s \in Server PROVE StreamsFlagged(s)'
  OBVIOUS
<1>1. LinkTypes /\ inbox \in [Server -> Seq(Message)] /\ srv[s] \in ServerRecord
  BY DEF PanelInv, LinkInv, LinkTypes
<1>2. srv'[s] = IF phase[s] = "up" THEN After(srv[s], cmd[s]) ELSE srv[s]
  <2>1. \E push \in BOOLEAN : \A t \in Server :
              IF phase[t] = "up"
              THEN /\ srv'[t] = After(srv[t], cmd[t])
                   /\ inbox'[t] = inbox[t] \o Replies(srv[t], cmd[t], asks[t], push)
              ELSE srv'[t] = srv[t] /\ inbox'[t] = inbox[t] \o <<>>
    BY <1>1, SendEffect
  <2>2. QED
    BY <2>1
<1>3. StreamsFlagged(s)
  BY DEF PanelInv
<1>4. After(srv[s], cmd[s]).streams => After(srv[s], cmd[s]).state = "running"
  BY <1>1, <1>3, CommandKeepsStreams DEF StreamsFlagged
<1>5. QED
  BY <1>2, <1>3, <1>4 DEF StreamsFlagged

LEMMA PanelInvInit == Init => PanelInv
<1> SUFFICES ASSUME Init PROVE PanelInv
  OBVIOUS
<1>1. LinkInv
  BY LinkInvInit DEF Init
<1>2. \A s \in Server : ~srv[s].streams
  BY DEF Init, LinkInit
<1>3. QED
  BY <1>1, <1>2 DEF PanelInv, StreamsFlagged

LEMMA NetworkFlagged ==
  ASSUME PanelInv, NEW s \in Server,
         open(s) \/ fails(s) \/ close(s) \/ changes(s) \/ handleText(s)
  PROVE  PanelInv'
<1>1. LinkInv /\ LinkTypes /\ \A t \in Server : StreamsFlagged(t)
  BY DEF PanelInv, LinkInv
<1>2. LinkInv'
  BY <1>1, NetworkTold
<1>3. CASE open(s)
  BY <1>1, <1>2, <1>3 DEF open, known, PanelInv, StreamsFlagged, LinkTypes
<1>4. CASE fails(s)
  <2>1. ~srv'[s].streams
    BY <1>1, <1>4 DEF fails, LinkTypes, ServerRecord
  <2>2. \A t \in Server : t # s => srv'[t] = srv[t] /\ phase'[t] = phase[t]
    BY <1>1, <1>4 DEF fails, LinkTypes
  <2>3. QED
    BY <1>1, <1>2, <1>4, <2>1, <2>2 DEF fails, known, PanelInv, StreamsFlagged
<1>5. CASE close(s)
  BY <1>1, <1>2, <1>5 DEF close, known, PanelInv, StreamsFlagged, LinkTypes
<1>6. CASE changes(s)
  <2>1. ~srv'[s].streams
    BY <1>1, <1>6 DEF changes, LinkTypes
  <2>2. \A t \in Server : t # s => srv'[t] = srv[t]
    BY <1>1, <1>6 DEF changes, LinkTypes
  <2>3. QED
    BY <1>1, <1>2, <1>6, <2>1, <2>2 DEF changes, known, PanelInv, StreamsFlagged
<1>7. CASE handleDiscovery(s) \/ handleLimits(s) \/ handleRegion(s) \/ handleStatus(s)
  <2>1. UNCHANGED <<srv, phase>>
    BY <1>7 DEF handleDiscovery, handleLimits, handleRegion, handleStatus, storeRegion
  <2>2. \A t \in Server : streaming[t] = "on" => streaming'[t] = "on"
    BY <1>1, <1>7 DEF LinkTypes, handleDiscovery, handleLimits, handleRegion, handleStatus, storeRegion
  <2>3. QED
    BY <1>1, <1>2, <2>1, <2>2 DEF PanelInv, StreamsFlagged
<1>8. CASE handleState(s)
  <2>1. srv' = [t \in Server |-> IF phase[t] = "up" THEN After(srv[t], NoCommand[t]) ELSE srv[t]]
    BY <1>8 DEF handleState, sendCommands
  <2>2. \A t \in Server : srv'[t] = srv[t]
    BY <2>1, NoneChanges DEF NoCommand
  <2>3. QED
    BY <1>1, <1>2, <1>8, <2>2 DEF handleState, PanelInv, StreamsFlagged
<1>9. QED
  BY <1>3, <1>4, <1>5, <1>6, <1>7, <1>8 DEF handleText

(* A frame is drawn: queries only.                                         *)
LEMMA DrawKeepsPanelInv ==
  ASSUME PanelInv, NEW poll \in BOOLEAN, NEW retry \in BOOLEAN, draw(poll, retry)
  PROVE  PanelInv'
<1> DEFINE asks == [s \in Server |->
                      {q \in {"state", "limits"} :
                         \/ q = "state" /\ poll
                         \/ q = "limits" /\ need(stage', retry) /\ firstConnected(s)}]
<1>1. sendCommands(NoCommand, asks, inbox) /\ UNCHANGED <<phase, server_state, region, missed, streaming>>
  BY DEF draw, known
<1> HIDE DEF asks
<1>2. LinkInv /\ LinkTypes /\ \A s \in Server : StreamsFlagged(s)
  BY DEF PanelInv, LinkInv
<1>3. \A s \in Server : After(srv[s], NoCommand[s]) = srv[s]
  BY NoneChanges DEF NoCommand
<1>4. LinkInv'
  BY <1>1, <1>2, <1>3, SendTold DEF LinkTypes
<1>5. \A s \in Server : StreamsFlagged(s)'
  BY <1>1, <1>2, <1>3, SendFlagged DEF StreamsFlagged
<1>6. QED
  BY <1>4, <1>5 DEF PanelInv

(* A button: the command to some servers, and get_state to all.            *)
LEMMA PressKeepsPanelInv ==
  ASSUME PanelInv, NEW c, NEW to \in SUBSET Server, press(c, to),
         streaming' \in [Server -> {"none", "off", "on"}],
         \A s \in Server : phase[s] = "up" =>
           LET cmd == IF s \in to THEN c ELSE "none"
           IN  After(srv[s], cmd).streams => streaming'[s] = "on"
  PROVE  PanelInv'
<1> DEFINE cmd == [s \in Server |-> IF s \in to THEN c ELSE "none"]
           asks == [s \in Server |-> {"state"}]
<1>1. sendCommands(cmd, asks, inbox) /\ UNCHANGED <<phase, server_state, region, missed>>
  BY DEF press
<1>2. \A s \in Server : "state" \in asks[s]
  OBVIOUS
<1>3. \A s \in Server : cmd[s] = IF s \in to THEN c ELSE "none"
  OBVIOUS
<1> HIDE DEF cmd, asks
<1>4. LinkInv'
  BY <1>1, <1>2, SendTold DEF PanelInv
<1>5. \A s \in Server : phase[s] = "up" /\ After(srv[s], cmd[s]).streams => streaming'[s] = "on"
  BY <1>3
<1>6. \A s \in Server : StreamsFlagged(s)'
  BY <1>1, <1>5, SendFlagged
<1>7. QED
  BY <1>4, <1>6 DEF PanelInv

LEMMA ButtonKeepsPanelInv ==
  ASSUME PanelInv, advance \/ retreat
  PROVE  PanelInv'
<1>1. /\ LinkTypes /\ streaming \in [Server -> {"none", "off", "on"}]
      /\ \A s \in Server : srv[s] \in ServerRecord /\ StreamsFlagged(s)
  BY DEF PanelInv, LinkInv, LinkTypes
<1>2. \A s \in Server, c \in {"configure", "unconfigure", "start", "stop", "none"} :
        After(srv[s], c).streams => srv[s].streams
  BY <1>1, CommandKeepsStreams DEF StreamsFlagged
<1>3. CASE \E c \in {"configure", "start"} : press(c, Server) /\ streaming' = streaming
  BY <1>1, <1>2, <1>3, PressKeepsPanelInv DEF StreamsFlagged
<1>4. ASSUME NEW off \in SUBSET Server, press("stream", off), flagAs("on", off) PROVE PanelInv'
  <2>1. /\ streaming' \in [Server -> {"none", "off", "on"}]
        /\ \A s \in Server : /\ s \notin off => streaming'[s] = streaming[s]
                             /\ s \in off /\ phase[s] = "up" => streaming'[s] = "on"
    BY <1>1, <1>4, FlagEffect
  <2>2. ASSUME NEW s \in Server, phase[s] = "up",
               After(srv[s], IF s \in off THEN "stream" ELSE "none").streams
        PROVE  streaming'[s] = "on"
    <3>1. CASE s \in off
      BY <2>1, <2>2, <3>1
    <3>2. CASE s \notin off
      BY <1>1, <1>2, <2>1, <2>2, <3>2 DEF StreamsFlagged
    <3>3. QED
      BY <3>1, <3>2
  <2>3. QED
    BY <1>4, <2>1, <2>2, PressKeepsPanelInv
<1>5. CASE retreat
  <2>1. streaming' = streamingAfterRetreat(stage)
    BY <1>5 DEF retreat
  <2>2. streaming' \in [Server -> {"none", "off", "on"}]
    BY <1>1, <2>1 DEF streamingAfterRetreat
  <2>3. CASE stage = "Running" /\ press("stop", Server)
    <3>1. \A s \in Server : ~After(srv[s], "stop").streams
      BY <1>1, CommandKeepsStreams DEF StreamsFlagged
    <3>2. QED
      BY <2>2, <2>3, <3>1, PressKeepsPanelInv
  <2>4. CASE stage = "Configured" /\ press("unconfigure", Server)
    <3>1. \A s \in Server : streaming'[s] = streaming[s]
      BY <2>1, <2>4 DEF streamingAfterRetreat
    <3>2. QED
      BY <1>1, <1>2, <2>2, <2>4, <3>1, PressKeepsPanelInv DEF StreamsFlagged
  <2>5. QED
    BY <1>5, <2>3, <2>4 DEF retreat
<1>6. CASE advance
  <2>1. \/ \E c \in {"configure", "start"} : press(c, Server) /\ streaming' = streaming
        \/ \E off \in SUBSET Server : press("stream", off) /\ flagAs("on", off)
    <3>1. {s \in Connected : streaming[s] = "off"} \in SUBSET Server
      BY DEF Connected
    <3>2. QED
      BY <1>6, <3>1 DEF advance
  <2>2. QED
    BY <1>3, <1>4, <2>1
<1>7. QED
  BY <1>5, <1>6

(* The checkbox of one camera: no state changes.                           *)
LEMMA ToggleKeepsPanelInv ==
  ASSUME PanelInv, NEW s \in Server, toggle(s)
  PROVE  PanelInv'
<1>1. /\ LinkTypes /\ streaming \in [Server -> {"none", "off", "on"}]
      /\ \A t \in Server : srv[t] \in ServerRecord /\ StreamsFlagged(t)
  BY DEF PanelInv, LinkInv, LinkTypes
<1>2. PICK on \in BOOLEAN :
        /\ sendCommands([NoCommand EXCEPT ![s] = IF on THEN "stream" ELSE "unstream"],
                        [t \in Server |-> {}], inbox)
        /\ flagAs(IF on THEN "on" ELSE "off", {s})
  BY DEF toggle
<1> DEFINE c == IF on THEN "stream" ELSE "unstream"
           flag == IF on THEN "on" ELSE "off"
           cmd == [NoCommand EXCEPT ![s] = c]
           asks == [t \in Server |-> {}]
<1>3. UNCHANGED <<phase, server_state, region, missed>>
  BY DEF toggle
<1>4. \A t \in Server : cmd[t] = IF t = s THEN c ELSE "none"
  BY DEF NoCommand
<1>5. flag \in {"off", "on"} /\ c \in {"stream", "unstream"} /\ (c = "stream" <=> flag = "on")
  OBVIOUS
<1>6. sendCommands(cmd, asks, inbox) /\ flagAs(flag, {s})
  BY <1>2
<1> HIDE DEF cmd, asks, c, flag
<1>7. /\ streaming' \in [Server -> {"none", "off", "on"}]
      /\ \A t \in Server : /\ t # s => streaming'[t] = streaming[t]
                           /\ t = s /\ phase[t] = "up" => streaming'[t] = flag
  BY <1>1, <1>5, <1>6, FlagEffect
<1>8. \A t \in Server : After(srv[t], cmd[t]).state = srv[t].state
  BY <1>1, <1>4, <1>5, CommandKeepsStreams DEF StreamsFlagged
<1>9. LinkInv'
  BY <1>3, <1>6, <1>7, <1>8, SendTold DEF PanelInv
<1>10. ASSUME NEW t \in Server, phase[t] = "up", After(srv[t], cmd[t]).streams
       PROVE  streaming'[t] = "on"
  <2>1. srv[t] \in ServerRecord /\ (srv[t].streams => srv[t].state = "running" /\ streaming[t] = "on")
    BY <1>1 DEF StreamsFlagged
  <2>2. CASE t = s
    <3>1. c = "stream"
      BY <1>4, <1>5, <1>10, <2>1, <2>2, CommandKeepsStreams
    <3>2. QED
      BY <1>5, <1>7, <1>10, <2>2, <3>1
  <2>3. CASE t # s
    <3>1. After(srv[t], cmd[t]) = srv[t]
      BY <1>4, <2>3, NoneChanges
    <3>2. QED
      BY <1>7, <1>10, <2>1, <2>3, <3>1
  <2>4. QED
    BY <2>2, <2>3
<1>11. \A t \in Server : StreamsFlagged(t)'
  BY <1>3, <1>6, <1>10, SendFlagged
<1>12. QED
  BY <1>9, <1>11 DEF PanelInv

LEMMA PanelInvNext == PanelInv /\ [Next]_vars => PanelInv'
<1> SUFFICES ASSUME PanelInv, [Next]_vars PROVE PanelInv'
  OBVIOUS
<1>1. CASE UNCHANGED vars
  BY <1>1 DEF vars, linkVars, known, PanelInv, LinkInv, LinkTypes, Told, StreamsFlagged
<1>2. CASE Next
  BY <1>2, NetworkFlagged, DrawKeepsPanelInv, ButtonKeepsPanelInv, ToggleKeepsPanelInv
     DEF Next, NetStep
<1>3. QED
  BY <1>1, <1>2

LEMMA PanelInvariant == Spec => []PanelInv
BY PanelInvInit, PanelInvNext, PTL DEF Spec

LEMMA SettledState ==
  ASSUME LinkInv, Settled, NEW s \in Connected
  PROVE  /\ s \in Server /\ server_state[s] = srv[s].state /\ srv[s].state \in State
         /\ IF srv[s].state = "idle" THEN region[s] = 0 ELSE missed[s] \/ region[s] = srv[s].mode
<1>1. s \in Server /\ phase[s] = "up" /\ inbox[s] = <<>>
  BY DEF Settled, Connected, connected, LinkInv, LinkTypes
<1>2. srv[s] \in ServerRecord /\ Told(s) /\ Len(inbox[s]) = 0
  BY <1>1 DEF LinkInv, LinkTypes
<1>3. server_state[s] = srv[s].state
  BY <1>1, <1>2 DEF Told, StateWillBe
<1>4. IF srv[s].state = "idle" THEN region[s] = 0 ELSE missed[s] \/ region[s] = srv[s].mode
  BY <1>1, <1>2 DEF Told, RegionWillBe, KnownWillBe
<1>5. QED
  BY <1>1, <1>2, <1>3, <1>4 DEF ServerRecord

(* With no reply under way, the stage the next frame shows is that of the  *)
(* least advanced connected server (computeAgg), for any number of servers *)
(* and whatever was lost, restarted and refused before.                    *)
THEOREM StageIsRight == Spec => []StageIsTheMinimum
<1>1. PanelInv => StageIsTheMinimum
  <2> SUFFICES ASSUME PanelInv, Settled, Connected # {}
               PROVE  computeAgg = leastAdvanced({srv[s].state : s \in Connected})
    BY DEF StageIsTheMinimum
  <2>1. \A s \in Connected : server_state[s] = srv[s].state /\ srv[s].state \in State
    BY SettledState DEF PanelInv
  <2>2. {server_state[s] : s \in Connected} \ {""} = {srv[s].state : s \in Connected}
    BY <2>1 DEF State
  <2>3. QED
    BY <2>2 DEF computeAgg
<1>2. QED
  BY <1>1, PanelInvariant, PTL

(* With no reply under way, the region stamped on the frames is the one of *)
(* the server's mode (onState), for any number of servers, whoever else    *)
(* configures them: but for one known already when the connection came up  *)
(* to a server configured in another mode, which the code keeps.           *)
THEOREM RegionIsRight == Spec => []RegionIsCurrent
<1>1. PanelInv => RegionIsCurrent
  BY SettledState DEF PanelInv, RegionIsCurrent
<1>2. QED
  BY <1>1, PanelInvariant, PTL

(* A server that streams has its camera flagged, so that the panel shows   *)
(* it live and can stop it (advance, retreat and the checkboxes).          *)
THEOREM StreamsAreShown == Spec => []NoHiddenStream
<1>1. PanelInv => NoHiddenStream
  BY DEF PanelInv, StreamsFlagged, NoHiddenStream
<1>2. QED
  BY <1>1, PanelInvariant, PTL

-----------------------------------------------------------------------------
(* Client::start.  Until stop, a server whose connection held only moves   *)
(* forward: every state the link knows of it or is told is one it is past. *)
Reached(st, v) ==
  /\ st \in {"configured", "running"} => v.state # "idle"
  /\ st = "running" => v.state = "running"

Held(s) ==
  /\ phase[s] \in {"down", "up"}
  /\ phase[s] = "down" => server_state[s] = ""
  /\ Reached(server_state[s], srv[s])
  /\ \A n \in 1..Len(inbox[s]) :
       inbox[s][n].type = "state" => Reached(inbox[s][n].state, srv[s])
  /\ streaming[s] = "none" =>
       /\ server_state[s] = ""
       /\ phase[s] = "up" => inbox[s] # <<>> /\ Head(inbox[s]).type = "discovery"
  /\ pc = "started" => srv[s].state = "running" /\ srv[s].streams

StartInv ==
  /\ LinkInv
  /\ lost \subseteq Server
  /\ \A s \in Server \ lost : settings[s] # "refused" /\ (pc # "stopped" => Held(s))

(* The commands of start never take a server back.                         *)
LEMMA OnlyForward ==
  ASSUME NEW v \in ServerRecord, NEW cmd \in {"configure", "start", "stream", "none"}
  PROVE  LET w == After(v, cmd) IN
         /\ \A st : Reached(st, v) => Reached(st, w)
         /\ Reached(w.state, w)
         /\ v.state = "running" /\ v.streams => w.state = "running" /\ w.streams
         /\ cmd = "stream" /\ v.state = "running" => w.state = "running" /\ w.streams
BY DEF After, ServerRecord, State, Reached

(* What a command of start leaves of a connection that held; q is what was *)
(* under way before it.                                                    *)
LEMMA HeldSends ==
  ASSUME NEW v \in ServerRecord, NEW cmd \in {"configure", "start", "stream", "none"},
         NEW asks, NEW push \in BOOLEAN,
         NEW q \in Seq(Message),
         \A n \in 1..Len(q) : q[n].type = "state" => Reached(q[n].state, v)
  PROVE  LET w == After(v, cmd)
             all == q \o Replies(v, cmd, asks, push) IN
         \A n \in 1..Len(all) : all[n].type = "state" => Reached(all[n].state, w)
<1> DEFINE w == After(v, cmd)
           R == Replies(v, cmd, asks, push)
<1>1. w \in ServerRecord /\ R \in Seq(Answers(w))
  BY AfterType, RepliesTell
<1>2. Reached(w.state, w) /\ \A st : Reached(st, v) => Reached(st, w)
  BY OnlyForward
<1> HIDE DEF w, R
<1>3. /\ Len(q \o R) = Len(q) + Len(R) /\ Len(q) \in Nat /\ Len(R) \in Nat
      /\ \A n \in 1..Len(q) : (q \o R)[n] = q[n]
      /\ \A n \in (Len(q) + 1)..Len(q \o R) : (q \o R)[n] \in Answers(w)
  BY <1>1, Appended
<1>4. ASSUME NEW n \in 1..Len(q \o R), (q \o R)[n].type = "state"
      PROVE  Reached((q \o R)[n].state, w)
  <2>1. CASE n \in 1..Len(q)
    BY <1>2, <1>3, <1>4, <2>1
  <2>2. CASE n \in (Len(q) + 1)..Len(q \o R)
    BY <1>1, <1>2, <1>3, <1>4, <2>2, AnswersTell
  <2>3. QED
    BY <1>3, <2>1, <2>2
<1>5. QED
  BY <1>4 DEF w, R

LEMMA StartInvInit == LinkInit /\ StartInit("idle") => StartInv
<1> SUFFICES ASSUME LinkInit, StartInit("idle") PROVE StartInv
  OBVIOUS
<1>1. LinkInv
  BY LinkInvInit
<1>2. ASSUME NEW s \in Server PROVE settings[s] # "refused" /\ Held(s)
  <2>1. phase[s] = "down" /\ server_state[s] = "" /\ inbox[s] = <<>> /\ pc = "idle"
        /\ settings[s] = "unsent"
    BY DEF LinkInit, StartInit
  <2>2. Len(inbox[s]) = 0
    <3>1. Len(<<>>) = 0
      OBVIOUS
    <3>2. QED
      BY <2>1, <3>1
  <2>3. Reached(server_state[s], srv[s])
    BY <2>1 DEF Reached
  <2>4. \A n \in 1..Len(inbox[s]) :
          inbox[s][n].type = "state" => Reached(inbox[s][n].state, srv[s])
    BY <2>2
  <2>5. QED
    BY <2>1, <2>3, <2>4 DEF Held
<1>3. QED
  BY <1>1, <1>2 DEF StartInv, StartInit

(* The caller sends; the connections and what they know stay as they are.  *)
LEMMA SendHeld ==
  ASSUME StartInv, pc # "stopped", NEW s \in Server \ lost, NEW cmd, NEW asks,
         cmd[s] \in {"configure", "start", "stream", "none"},
         sendCommands(cmd, asks, inbox), UNCHANGED <<phase, server_state>>,
         streaming'[s] = "none" => streaming[s] = "none",
         pc' = "started" => srv[s].state = "running" /\ phase[s] = "up" /\ cmd[s] = "stream"
  PROVE  Held(s)'
<1>1. LinkTypes /\ Held(s) /\ s \in Server
  BY DEF StartInv, LinkInv
<1>2. inbox \in [Server -> Seq(Message)] /\ inbox[s] \in Seq(Message) /\ srv[s] \in ServerRecord
  BY <1>1 DEF LinkTypes
<1>3. PICK push \in BOOLEAN :
        IF phase[s] = "up"
        THEN /\ srv'[s] = After(srv[s], cmd[s])
             /\ inbox'[s] = inbox[s] \o Replies(srv[s], cmd[s], asks[s], push)
        ELSE srv'[s] = srv[s] /\ inbox'[s] = inbox[s] \o <<>>
  <2>1. \E push \in BOOLEAN : \A t \in Server :
          IF phase[t] = "up"
          THEN /\ srv'[t] = After(srv[t], cmd[t])
               /\ inbox'[t] = inbox[t] \o Replies(srv[t], cmd[t], asks[t], push)
          ELSE srv'[t] = srv[t] /\ inbox'[t] = inbox[t] \o <<>>
    BY <1>1, <1>2, SendEffect
  <2>2. QED
    BY <1>1, <2>1
<1>4. CASE phase[s] = "up"
  <2> DEFINE v == srv[s]
             c == cmd[s]
             w == After(v, c)
             q == inbox[s]
             R == Replies(v, c, asks[s], push)
  <2>1. srv'[s] = w /\ inbox'[s] = q \o R /\ w \in ServerRecord /\ R \in Seq(Answers(w))
        /\ q \in Seq(Message) /\ v \in ServerRecord
    BY <1>2, <1>3, <1>4, AfterType, RepliesTell
  <2>2. \A n \in 1..Len(q \o R) : (q \o R)[n].type = "state" => Reached((q \o R)[n].state, w)
    BY <1>1, <1>2, HeldSends DEF Held
  <2>3. /\ \A st : Reached(st, v) => Reached(st, w)
        /\ c = "stream" /\ v.state = "running" => w.state = "running" /\ w.streams
    BY <1>2, OnlyForward
  <2> HIDE DEF R, w
  <2>4. q # <<>> => q \o R # <<>> /\ Head(q \o R) = Head(q)
    <3>1. R \in Seq(Message)
      BY <2>1, AnswersType
    <3>2. QED
      BY <2>1, <3>1, HeadStays
  <2>5. QED
    BY <1>1, <1>4, <2>1, <2>2, <2>3, <2>4 DEF Held
<1>5. CASE phase[s] # "up"
  <2>1. srv'[s] = srv[s] /\ inbox'[s] = inbox[s]
    BY <1>2, <1>3, <1>5
  <2>2. QED
    BY <1>1, <1>5, <2>1 DEF Held
<1>6. QED
  BY <1>4, <1>5

LEMMA StreamKeepsState ==
  ASSUME NEW v, NEW cmd \in {"stream", "none"}
  PROVE  After(v, cmd).state = v.state
BY DEF After

LEMMA SendAllSteps ==
  ASSUME StartInv, awaitDiscovery \/ awaitConfigured
  PROVE  StartInv'
<1>1. PICK c \in {"configure", "start"}, refusing \in SUBSET Server :
        sendCommands([s \in Server |-> IF s \in refusing THEN "none" ELSE c], AskAll, inbox)
  <2>1. \E c \in {"configure", "start"} : sendAll(c)
    BY DEF awaitDiscovery, awaitConfigured
  <2>2. QED
    BY <2>1 DEF sendAll
<1> DEFINE cmd == [s \in Server |-> IF s \in refusing THEN "none" ELSE c]
<1>2. UNCHANGED <<phase, server_state, region, missed, streaming, lost>>
      /\ pc \notin {"stopped", "started"} /\ pc' \notin {"stopped", "started"}
  BY DEF awaitDiscovery, awaitConfigured, known
<1>3. \A s \in Server : cmd[s] \in {"configure", "start", "stream", "none"} /\ "state" \in AskAll[s]
  BY DEF AskAll
<1>4. sendCommands(cmd, AskAll, inbox)
  BY <1>1
<1> HIDE DEF cmd
<1>5. LinkInv'
  BY <1>2, <1>3, <1>4, SendTold DEF StartInv, LinkInv, LinkTypes
<1>6. ASSUME NEW s \in Server \ lost PROVE settings'[s] # "refused"
  <2>1. CASE awaitDiscovery
    BY <2>1 DEF awaitDiscovery, StartInv
  <2>2. CASE awaitConfigured
    <3>1. server_state[s] \in {"configured", "running"}
      BY <2>2 DEF awaitConfigured, allIn
    <3>2. srv[s].state # "idle"
      BY <1>2, <3>1 DEF StartInv, Held, Reached
    <3>3. QED
      BY <2>2, <3>2 DEF awaitConfigured
  <2>3. QED
    BY <2>1, <2>2
<1>7. ASSUME NEW s \in Server \ lost PROVE Held(s)'
  BY <1>2, <1>3, <1>4, SendHeld
<1>8. QED
  BY <1>2, <1>5, <1>6, <1>7 DEF StartInv

(* The streams: the last step of start reaches every server whose          *)
(* connection held, for it knows its camera.                               *)
LEMMA RunningStep ==
  ASSUME StartInv, awaitRunning
  PROVE  StartInv'
<1> DEFINE to == {s \in Server : connected(s) /\ streaming[s] # "none"}
           cmd == [s \in Server |-> IF s \in to THEN "stream" ELSE "none"]
<1>1. sendCommands(cmd, Quietly, inbox) /\ pc = "starting" /\ pc' = "started"
      /\ UNCHANGED <<phase, server_state, region, missed, lost, settings>>
  BY DEF awaitRunning
<1>2. PICK failed \in SUBSET {s \in to : phase[s] = "dead"} :
        streaming' = [s \in Server |-> IF s \in to \ failed THEN "on" ELSE streaming[s]]
  BY DEF awaitRunning
<1>3. streaming \in [Server -> {"none", "off", "on"}] /\ LinkInv
  BY DEF StartInv, LinkInv, LinkTypes
<1>4. streaming' \in [Server -> {"none", "off", "on"}]
      /\ \A s \in Server : streaming'[s] = "none" => streaming[s] = "none"
  BY <1>2, <1>3
<1>5. \A s \in Server : cmd[s] \in {"stream", "none"} /\ (s \in to => cmd[s] = "stream")
  OBVIOUS
<1>6. ASSUME NEW s \in Server \ lost
      PROVE  srv[s].state = "running" /\ phase[s] = "up" /\ cmd[s] = "stream"
  <2>1. server_state[s] = "running" /\ Held(s)
    BY <1>1 DEF awaitRunning, allIn, StartInv
  <2>2. srv[s].state = "running" /\ phase[s] = "up" /\ streaming[s] # "none"
    BY <2>1 DEF Held, Reached
  <2>3. QED
    BY <2>2 DEF connected
<1> HIDE DEF cmd, to
<1>7. \A s \in Server : After(srv[s], cmd[s]).state = srv[s].state
  BY <1>5, StreamKeepsState
<1>8. LinkInv'
  BY <1>1, <1>3, <1>4, <1>7, SendTold
<1>9. ASSUME NEW s \in Server \ lost PROVE Held(s)'
  BY <1>1, <1>4, <1>5, <1>6, SendHeld
<1>10. QED
  BY <1>1, <1>8, <1>9 DEF StartInv

LEMMA StopStep ==
  ASSUME StartInv, stop
  PROVE  StartInv'
<1>1. UNCHANGED <<server_state, region, missed, streaming, lost, settings>> /\ pc' = "stopped"
      /\ phase' = [s \in Server |-> "down"] /\ inbox' = [s \in Server |-> <<>>]
  BY DEF stop, known
<1>2. srv' \in [Server -> ServerRecord]
  <2>1. \A s \in Server, c \in {"stop", "none"} :
          [After(srv[s], c) EXCEPT !.streams = FALSE] \in ServerRecord
    <3>1. ASSUME NEW v \in ServerRecord PROVE [v EXCEPT !.streams = FALSE] \in ServerRecord
      BY DEF ServerRecord
    <3>2. QED
      BY <3>1, AfterType DEF StartInv, LinkInv, LinkTypes
  <2>2. QED
    BY <2>1 DEF stop
<1>3. <<>> \in Seq(Message)
  OBVIOUS
<1>4. LinkTypes'
  BY <1>1, <1>2, <1>3 DEF StartInv, LinkInv, LinkTypes
<1>5. \A s \in Server : Told(s)'
  BY <1>1 DEF Told
<1>6. QED
  BY <1>1, <1>4, <1>5 DEF StartInv, LinkInv

(* A reply is read on a connection that held.                              *)
LEMMA HeldReads ==
  ASSUME StartInv, pc # "stopped", pc' = pc, NEW s \in Server \ lost, NEW t \in Server,
         handleText(t)
  PROVE  Held(s)'
<1>1. LinkTypes /\ Held(s) /\ s \in Server
  BY DEF StartInv, LinkInv
<1>2. /\ inbox \in [Server -> Seq(Message)] /\ inbox[s] \in Seq(Message) /\ inbox[t] \in Seq(Message)
      /\ srv[s] \in ServerRecord
      /\ streaming \in [Server -> {"none", "off", "on"}]
      /\ server_state \in [Server -> State \cup {""}]
  BY <1>1 DEF LinkTypes
<1> DEFINE q == inbox[t]
           h == Head(q)
           tl == Tail(q)
<1>3. phase[t] = "up" /\ q # <<>> /\ phase' = phase
  BY DEF handleText, handleDiscovery, handleState, handleLimits, handleRegion, handleStatus,
         receives, storeRegion
<1>4. /\ h = q[1] /\ tl \in Seq(Message) /\ Len(q) \in Nat \ {0} /\ Len(tl) = Len(q) - 1
      /\ \A n \in 1..Len(tl) : tl[n] = q[n + 1] /\ n + 1 \in 1..Len(q)
  <2> HIDE DEF q
  <2>1. q \in Seq(Message) /\ q # <<>>
    BY <1>2, <1>3 DEF q
  <2>2. /\ h = q[1] /\ tl \in Seq(Message) /\ Len(q) \in Nat \ {0} /\ Len(tl) = Len(q) - 1
        /\ \A n \in 1..Len(tl) : tl[n] = q[n + 1]
    BY <2>1, ReadOne
  <2>3. \A n \in 1..Len(tl) : n + 1 \in 1..Len(q)
    BY <2>2
  <2>4. QED
    BY <2>2, <2>3
<1>5. CASE handleDiscovery(t) \/ handleLimits(t) \/ handleRegion(t) \/ handleStatus(t)
  <2>1. UNCHANGED <<phase, server_state, srv>> /\ inbox' = [inbox EXCEPT ![t] = Tail(@)]
    BY <1>5 DEF handleDiscovery, handleLimits, handleRegion, handleStatus, storeRegion
  <2>2. CASE s # t
    <3>1. inbox'[s] = inbox[s] /\ streaming'[s] = streaming[s]
      BY <1>2, <1>5, <2>1, <2>2
         DEF handleDiscovery, handleLimits, handleRegion, handleStatus, storeRegion
    <3>2. QED
      BY <1>1, <2>1, <3>1 DEF Held
  <2>3. CASE s = t
    <3>1. inbox'[s] = tl
      BY <1>2, <2>1, <2>3
    <3>2. \A n \in 1..Len(tl) : tl[n].type = "state" => Reached(tl[n].state, srv[s])
      BY <1>1, <1>4, <2>3 DEF Held
    <3>3. streaming'[s] # "none"
      <4>1. CASE handleDiscovery(t)
        BY <1>2, <2>3, <4>1 DEF handleDiscovery
      <4>2. CASE handleLimits(t) \/ handleRegion(t) \/ handleStatus(t)
        <5>1. h.type # "discovery" /\ streaming' = streaming
          BY <4>2 DEF handleLimits, handleRegion, handleStatus, storeRegion, receives
        <5>2. QED
          BY <1>1, <1>3, <2>3, <5>1 DEF Held
      <4>3. QED
        BY <1>5, <4>1, <4>2
    <3> HIDE DEF tl, h, q
    <3>4. QED
      BY <1>1, <2>1, <3>1, <3>2, <3>3 DEF Held
  <2>4. QED
    BY <2>2, <2>3
<1>6. CASE handleState(t)
  <2> DEFINE asks == [u \in Server |->
                        IF u = t /\ h.state # "idle" /\ regionAfter(t, h.state) = 0
                        THEN {"region"} ELSE {}]
             under == [inbox EXCEPT ![t] = Tail(@)]
  <2>1. /\ server_state' = [server_state EXCEPT ![t] = h.state] /\ streaming' = streaming
        /\ sendCommands(NoCommand, asks, under) /\ h.type = "state"
    BY <1>6 DEF handleState, receives
  <2>2. under \in [Server -> Seq(Message)]
        /\ under[s] = (IF s = t THEN tl ELSE inbox[s])
    BY <1>1, <1>2, <1>4
  <2> HIDE DEF asks, under
  <2>3. PICK push \in BOOLEAN :
          IF phase[s] = "up"
          THEN /\ srv'[s] = After(srv[s], "none")
               /\ inbox'[s] = under[s] \o Replies(srv[s], "none", asks[s], push)
          ELSE srv'[s] = srv[s] /\ inbox'[s] = under[s] \o <<>>
    <3>1. \E push \in BOOLEAN : \A u \in Server :
            IF phase[u] = "up"
            THEN /\ srv'[u] = After(srv[u], NoCommand[u])
                 /\ inbox'[u] = under[u] \o Replies(srv[u], NoCommand[u], asks[u], push)
            ELSE srv'[u] = srv[u] /\ inbox'[u] = under[u] \o <<>>
      BY <1>1, <2>1, <2>2, SendEffect
    <3>2. NoCommand[s] = "none"
      BY DEF NoCommand
    <3>3. QED
      BY <1>1, <3>1, <3>2
  <2>4. srv'[s] = srv[s]
    BY <2>3, NoneChanges
  <2>5. \A n \in 1..Len(under[s]) : under[s][n].type = "state" => Reached(under[s][n].state, srv[s])
    <3>1. CASE s = t
      BY <1>1, <1>4, <2>2, <3>1 DEF Held
    <3>2. CASE s # t
      BY <1>1, <2>2, <3>2 DEF Held
    <3>3. QED
      BY <3>1, <3>2
  <2>6. under[s] \in Seq(Message)
    BY <2>2
  <2>7. \A n \in 1..Len(inbox'[s]) :
          inbox'[s][n].type = "state" => Reached(inbox'[s][n].state, srv'[s])
    <3>1. CASE phase[s] = "up"
      <4>1. inbox'[s] = under[s] \o Replies(srv[s], "none", asks[s], push)
        BY <2>3, <3>1
      <4>2. After(srv[s], "none") = srv[s]
        BY NoneChanges
      <4> DEFINE v == srv[s]
                 u == under[s]
                 all == u \o Replies(v, "none", asks[s], push)
      <4>3. /\ v \in ServerRecord /\ u \in Seq(Message)
            /\ \A n \in 1..Len(u) : u[n].type = "state" => Reached(u[n].state, v)
        BY <1>2, <2>5, <2>6
      <4> HIDE DEF v, u
      <4>4. \A n \in 1..Len(all) : all[n].type = "state" => Reached(all[n].state, After(v, "none"))
        BY <4>3, HeldSends
      <4>5. QED
        BY <2>4, <4>1, <4>2, <4>4 DEF v, u
    <3>2. CASE phase[s] # "up"
      <4>1. inbox'[s] = under[s]
        BY <2>3, <2>6, <3>2
      <4>2. QED
        BY <2>4, <2>5, <4>1
    <3>3. QED
      BY <3>1, <3>2
  <2>8. CASE s = t
    <3>1. server_state'[s] = h.state /\ streaming[s] # "none"
      BY <1>1, <1>2, <1>3, <2>1, <2>8 DEF Held
    <3>2. Reached(h.state, srv[s])
      <4>1. 1 \in 1..Len(inbox[s]) /\ inbox[s][1] = h
        BY <1>4, <2>8
      <4>2. QED
        BY <1>1, <2>1, <4>1 DEF Held
    <3>3. QED
      BY <1>1, <1>3, <2>1, <2>4, <2>7, <2>8, <3>1, <3>2 DEF Held
  <2>9. CASE s # t
    <3>1. server_state'[s] = server_state[s]
      BY <1>2, <2>1, <2>9
    <3>2. streaming[s] = "none" /\ phase[s] = "up" =>
            inbox'[s] # <<>> /\ Head(inbox'[s]).type = "discovery"
      <4>1. SUFFICES ASSUME streaming[s] = "none", phase[s] = "up"
                     PROVE  inbox'[s] # <<>> /\ Head(inbox'[s]).type = "discovery"
        OBVIOUS
      <4>2. inbox[s] # <<>> /\ Head(inbox[s]).type = "discovery"
        BY <1>1, <4>1 DEF Held
      <4> DEFINE R == Replies(srv[s], "none", asks[s], push)
      <4>3. R \in Seq(Message)
        <5>1. R \in Seq(Answers(After(srv[s], "none")))
          BY <1>2, RepliesTell
        <5>2. After(srv[s], "none") = srv[s] /\ Answers(srv[s]) \subseteq Message
          BY <1>2, NoneChanges, AnswersType
        <5>3. R \in Seq(Answers(srv[s]))
          BY <5>1, <5>2
        <5> HIDE DEF R
        <5>4. QED
          BY <5>2, <5>3
      <4>4. inbox'[s] = inbox[s] \o R
        BY <2>2, <2>3, <2>9, <4>1
      <4> HIDE DEF R
      <4>5. QED
        BY <1>2, <4>2, <4>3, <4>4, HeadStays
    <3>3. QED
      BY <1>1, <1>3, <2>1, <2>4, <2>7, <3>1, <3>2 DEF Held
  <2>10. QED
    BY <2>8, <2>9
<1>7. QED
  BY <1>5, <1>6 DEF handleText

LEMMA StartNetworkStep ==
  ASSUME StartInv, NEW t \in Server, NetworkStep(t)
  PROVE  StartInv'
<1>1. pc # "stopped" /\ pc' = pc /\ settings' = settings /\ LinkInv /\ LinkTypes /\ lost \subseteq Server
  BY DEF NetworkStep, StartInv, LinkInv
<1>2. open(t) \/ fails(t) \/ close(t) \/ changes(t) \/ handleText(t)
  BY DEF NetworkStep
<1>3. LinkInv'
  BY <1>1, <1>2, NetworkTold
<1>4. lost \subseteq lost' /\ lost' \subseteq Server /\ (fails(t) => t \in lost')
  <2>1. CASE (open(t) \/ close(t) \/ handleText(t) \/ changes(t)) /\ lost' = lost
    <3>1. ~fails(t)
      <4>1. fails(t) => phase'[t] = "dead" /\ phase[t] = "up"
        BY <1>1 DEF fails, LinkTypes
      <4>2. open(t) \/ close(t) \/ changes(t) => phase[t] # "up"
        BY DEF open, close, changes
      <4>3. handleText(t) => phase' = phase
        BY DEF handleText, handleDiscovery, handleState, handleLimits, handleRegion,
               handleStatus, storeRegion
      <4>4. QED
        BY <2>1, <4>1, <4>2, <4>3
    <3>2. QED
      BY <1>1, <2>1, <3>1
  <2>2. CASE fails(t) /\ lost' = lost \cup {t}
    BY <1>1, <2>2
  <2>3. QED
    BY <2>1, <2>2 DEF NetworkStep
<1>5. ASSUME NEW s \in Server \ lost' PROVE Held(s)'
  <2>1. s \in Server \ lost /\ Held(s)
    BY <1>1, <1>4 DEF StartInv
  <2>2. CASE handleText(t)
    BY <1>1, <2>1, <2>2, HeldReads
  <2>3. CASE open(t)
    <3>1. phase' = [phase EXCEPT ![t] = "up"] /\ inbox' = [inbox EXCEPT ![t] = repliesToOpen(t)]
          /\ UNCHANGED <<server_state, streaming, srv>> /\ phase[t] = "down"
      BY <2>3 DEF open, known
    <3>2. CASE s # t
      <4>1. phase'[s] = phase[s] /\ inbox'[s] = inbox[s]
        BY <1>1, <2>1, <3>1, <3>2 DEF LinkTypes
      <4>2. QED
        BY <1>1, <2>1, <3>1, <4>1 DEF Held
    <3>3. CASE s = t
      <4> DEFINE q == repliesToOpen(s)
      <4>1. phase'[s] = "up" /\ inbox'[s] = q /\ server_state[s] = ""
        BY <1>1, <2>1, <3>1, <3>3 DEF LinkTypes, Held
      <4>2. Len(q) = 2 /\ q # <<>> /\ Head(q) = Discovery /\ q[1] = Discovery
            /\ q[2] = StateOf(srv[s])
        BY DEF repliesToOpen
      <4>3. Discovery.type = "discovery" /\ StateOf(srv[s]).state = srv[s].state
        BY DEF Discovery, StateOf
      <4>4. Reached(srv[s].state, srv[s])
        BY DEF Reached
      <4> HIDE DEF q
      <4>5. \A n \in 1..Len(q) : q[n].type = "state" => Reached(q[n].state, srv[s])
        <5>1. \A n \in 1..Len(q) : n = 1 \/ n = 2
          BY <4>2
        <5>2. QED
          BY <4>2, <4>3, <4>4, <5>1
      <4>6. QED
        BY <1>1, <2>1, <3>1, <4>1, <4>2, <4>3, <4>5 DEF Held
    <3>4. QED
      BY <3>2, <3>3
  <2>4. CASE fails(t) \/ close(t) \/ changes(t)
    <3>1. s # t
      <4>1. CASE fails(t)
        BY <1>4, <4>1
      <4>2. CASE close(t) \/ changes(t)
        BY <2>1, <4>2 DEF close, changes, Held
      <4>3. QED
        BY <2>4, <4>1, <4>2
    <3>2. phase'[s] = phase[s] /\ inbox'[s] = inbox[s] /\ srv'[s] = srv[s]
          /\ UNCHANGED <<server_state, streaming>>
      BY <1>1, <2>1, <2>4, <3>1 DEF fails, close, changes, known, LinkTypes
    <3>3. QED
      BY <1>1, <2>1, <3>2 DEF Held
  <2>5. QED
    BY <1>2, <2>2, <2>3, <2>4
<1>6. QED
  BY <1>1, <1>3, <1>4, <1>5 DEF StartInv

LEMMA StartInvNext == StartInv /\ [StartNext]_<<linkVars, startVars>> => StartInv'
<1> SUFFICES ASSUME StartInv, [StartNext]_<<linkVars, startVars>> PROVE StartInv'
  OBVIOUS
<1>1. ASSUME UNCHANGED <<linkVars, lost, settings>>,
             pc' = pc \/ (pc # "stopped" /\ pc' \notin {"started", "stopped"})
      PROVE  StartInv'
  <2>1. UNCHANGED <<phase, server_state, region, missed, streaming, srv, inbox, lost, settings>>
    BY <1>1 DEF linkVars, known
  <2>2. LinkInv'
    BY <2>1 DEF StartInv, LinkInv, LinkTypes, Told
  <2>3. \A s \in Server \ lost : Held(s) => Held(s)'
    BY <1>1, <2>1 DEF Held
  <2>4. QED
    BY <1>1, <2>1, <2>2, <2>3 DEF StartInv
<1>2. CASE start \/ awaitConnected \/ timeout
  BY <1>1, <1>2 DEF start, awaitConnected, timeout, Waiting
<1>3. CASE UNCHANGED <<linkVars, startVars>>
  BY <1>1, <1>3 DEF startVars
<1>4. QED
  BY <1>2, <1>3, StartNetworkStep, SendAllSteps, RunningStep, StopStep DEF StartNext

LEMMA StartInvariant == StartSpec => []StartInv
BY StartInvInit, StartInvNext, PTL DEF StartSpec

(* When Client::start has returned, every server whose connection held     *)
(* runs and streams its cameras, whatever happened to the others, for any  *)
(* number of servers and however long their replies take.                  *)
THEOREM StartMeansStreaming == StartSpec => []StartedMeansStreaming
<1>1. StartInv => StartedMeansStreaming
  BY DEF StartInv, Held, StartedMeansStreaming
<1>2. QED
  BY <1>1, StartInvariant, PTL

(* No server whose connection held refuses the settings Client::start      *)
(* sends after the configure, even if it refused the configure.            *)
THEOREM SettingsArrive == StartSpec => []SettingsAccepted
<1>1. StartInv => SettingsAccepted
  BY DEF StartInv, SettingsAccepted
<1>2. QED
  BY <1>1, StartInvariant, PTL

-----------------------------------------------------------------------------
(* Exposure and frame rate: what this panel sent is what the widgets show, *)
(* and the two values the widgets show fit when both are sent.             *)
ExposureTypeOK ==
  /\ shutter \in [auto : BOOLEAN, us : 1..MaxUs]
  /\ lock \in [locked : BOOLEAN, us : 1..MaxUs]
  /\ sensor \in Sensors
  /\ DOMAIN sent = {"exposure", "fd", "lens"}

ExposureInv ==
  /\ ExposureTypeOK
  /\ SentIsShown
  /\ ~shutter.auto /\ lock.locked => shutter.us <= lock.us

LEMMA ExposureInvInit == ControlsInit => ExposureInv
BY ControlsAssumption
   DEF ControlsInit, ExposureInv, ExposureTypeOK, SentIsShown, FreshShutter, FreshLock

LEMMA ExposureInvNext == ExposureInv /\ [ControlsNext]_controlVars => ExposureInv'
<1> SUFFICES ASSUME ExposureInv, [ControlsNext]_controlVars PROVE ExposureInv'
  OBVIOUS
<1> USE ControlsAssumption DEF ExposureInv, ExposureTypeOK, SentIsShown
<1>1. CASE toggleAutoAe
  BY <1>1 DEF toggleAutoAe, cappedAtLock, sendExposure, Released
<1>2. CASE toggleLock
  BY <1>2 DEF toggleLock, raisedToShutter, sendFrameDuration, Released
<1>3. ASSUME NEW v \in Typed, moveShutter(v) PROVE ExposureInv'
  <2>1. clamp(v, 1, exposureMax) \in 1..MaxUs
        /\ (lock.locked => clamp(v, 1, exposureMax) <= lock.us)
    BY DEF clamp, exposureMax, min, max, Typed
  <2>2. QED
    BY <1>3, <2>1 DEF moveShutter, sendExposure
<1>4. ASSUME NEW v \in Typed, moveLock(v) PROVE ExposureInv'
  <2>1. clamp(v, fdRange.lo, fdRange.hi) \in 1..MaxUs
    BY DEF clamp, fdRange, min, max, Typed
  <2>2. QED
    BY <1>4, <2>1 DEF moveLock, sendFrameDuration, raisedToShutter
<1>5. CASE FocusStep
  BY <1>5 DEF FocusStep, drawFocus, switchFocus, moveLens, sendLens
<1>6. CASE SurroundStep
  <2>1. CASE limitsChange \/ stageChange
    BY <2>1 DEF limitsChange, stageChange
  <2>2. CASE reload
    <3>1. UNCHANGED sent /\ own' = {} /\ sensor' \in Sensors
          /\ shutter' = [auto |-> TRUE, us |-> ExposureInit]
          /\ lock' = [locked |-> FALSE, us |-> FdInit]
      BY <2>2 DEF reload, FreshShutter, FreshLock
    <3>2. ExposureTypeOK' /\ shutter'.auto
      BY <3>1
    <3>3. SentIsShown'
      BY <3>1
    <3>4. QED
      BY <3>2, <3>3
  <2>3. QED
    BY <1>6, <2>1, <2>2 DEF SurroundStep
<1>7. CASE UNCHANGED controlVars
  BY <1>7 DEF controlVars
<1>8. QED
  BY <1>1, <1>2, <1>3, <1>4, <1>5, <1>6, <1>7 DEF ControlsNext, ExposureStep

(* In whatever order the modes are switched and the sliders moved, and     *)
(* whatever limits come and go, once a panel sent both the servers do not  *)
(* hold a shutter longer than the frame duration they are locked to        *)
(* (drawExposure).                                                         *)
THEOREM ShutterFits == ControlsSpec => []ShutterFitsTheFrame
<1>1. ExposureInv => ShutterFitsTheFrame
  BY DEF ExposureInv, ExposureTypeOK, SentIsShown, ShutterFitsTheFrame, Released
<1>2. QED
  BY <1>1, ExposureInvInit, ExposureInvNext, PTL DEF ControlsSpec

-----------------------------------------------------------------------------
(* The quotient of integer division is the one number that fits.           *)
LEMMA DivUnique ==
  ASSUME NEW a \in Int, NEW b \in Nat \ {0}, NEW q \in Int,
         b * q <= a, a < b * q + b
  PROVE  a \div b = q
OBVIOUS

LEMMA DivBounds ==
  ASSUME NEW a \in Nat, NEW b \in Nat \ {0}
  PROVE  /\ a \div b \in Nat
         /\ b * (a \div b) <= a
         /\ a < b * (a \div b) + b
OBVIOUS

(* A multiple of the step is what it is rounded to.                        *)
LEMMA QuantizeMultiple ==
  ASSUME NEW m \in Nat
  PROVE  quantize(m * LensStep) = m * LensStep
<1> DEFINE L == LensStep
<1>1. L \in Nat \ {0} /\ 2 * L \in Nat \ {0} /\ m * L \in Nat
  BY ControlsAssumption
<1>2. (2 * L) * m = 2 * (m * L)
  BY <1>1
<1>3. (2 * (m * L) + L) \div (2 * L) = m
  <2> HIDE DEF L
  <2>1. 2 * (m * L) + L \in Int /\ (2 * L) * m <= 2 * (m * L) + L
        /\ 2 * (m * L) + L < (2 * L) * m + 2 * L
    BY <1>1, <1>2
  <2>2. QED
    BY <1>1, <2>1, DivUnique
<1>4. QED
  BY <1>3 DEF quantize

(* Rounding goes to a multiple, half a step away at most.                  *)
LEMMA QuantizeNear ==
  ASSUME NEW v \in Nat
  PROVE  /\ quantize(v) \in Nat
         /\ 2 * quantize(v) \in (2 * v - LensStep)..(2 * v + LensStep)
         /\ quantize(quantize(v)) = quantize(v)
<1> DEFINE L == LensStep
           m == (2 * v + L) \div (2 * L)
<1>1. L \in Nat \ {0} /\ 2 * L \in Nat \ {0} /\ 2 * v + L \in Nat
  BY ControlsAssumption
<1>2. m \in Nat /\ (2 * L) * m <= 2 * v + L /\ 2 * v + L < (2 * L) * m + 2 * L
  <2> HIDE DEF L
  <2>1. QED
    BY <1>1, DivBounds
<1> HIDE DEF m, L
<1>3. m * L \in Nat /\ (2 * L) * m = 2 * (m * L)
  BY <1>1, <1>2
<1>4. quantize(v) = m * L
  BY DEF quantize, m, L
<1>5. quantize(m * L) = m * L
  BY <1>2, QuantizeMultiple DEF L
<1>6. 2 * (m * L) \in (2 * v - L)..(2 * v + L)
  BY <1>1, <1>2, <1>3
<1>7. QED
  BY <1>3, <1>4, <1>5, <1>6 DEF L

LEMMA QuantizeFallback == quantize(LensFallback) = LensFallback
<1>1. LensFallback \div LensStep \in Nat
      /\ LensFallback = (LensFallback \div LensStep) * LensStep
  BY ControlsAssumption
<1>2. QED
  BY <1>1, QuantizeMultiple

(* The focus: the position the panel keeps is a multiple of the step, and  *)
(* what the servers were sent in manual focus is that position or, since   *)
(* a switch to manual does not keep what it sends, that position within    *)
(* the range without limits or, until they change, with them.              *)
WithinFallback(v) == quantize(clamp(v, 0, LensFallback))
WithinSensor(v)   == quantize(clamp(v, sensor.lensMin, sensor.lensMax))

LensInv ==
  /\ sensor \in Sensors /\ limits_valid \in BOOLEAN
  /\ focus \in [manual : BOOLEAN, pos : Nat]
  /\ DOMAIN sent = {"exposure", "fd", "lens"}
  /\ quantize(focus.pos) = focus.pos
  /\ focus.manual /\ ~slipped =>
       \/ sent.lens \in {focus.pos, WithinFallback(focus.pos)}
       \/ limits_valid /\ sent.lens = WithinSensor(focus.pos)
  /\ slipped \in BOOLEAN
  /\ LensPulledIn

(* Whatever was typed, what inRange makes of it is a rounded position.     *)
LEMMA InRangeRounds ==
  ASSUME NEW v \in Int, sensor \in Sensors
  PROVE  /\ inRange(v) \in Nat /\ quantize(inRange(v)) = inRange(v)
         /\ limits_valid => /\ inRange(v) = WithinSensor(v)
                            /\ 2 * inRange(v) \in (2 * sensor.lensMin - LensStep)
                                                    ..(2 * sensor.lensMax + LensStep)
         /\ ~limits_valid => inRange(v) = WithinFallback(v)
<1> DEFINE c == clamp(v, lensRange.lo, lensRange.hi)
<1>1. lensRange.lo \in Nat /\ lensRange.hi \in Nat /\ lensRange.lo <= lensRange.hi
  BY ControlsAssumption DEF lensRange
<1>2. c \in Nat /\ lensRange.lo <= c /\ c <= lensRange.hi
  BY <1>1 DEF clamp, min, max
<1>3. limits_valid => lensRange.lo = sensor.lensMin /\ lensRange.hi = sensor.lensMax
  BY DEF lensRange
<1>4. ~limits_valid => lensRange.lo = 0 /\ lensRange.hi = LensFallback
  BY DEF lensRange
<1>5. quantize(c) \in Nat /\ quantize(quantize(c)) = quantize(c)
      /\ 2 * quantize(c) \in (2 * c - LensStep)..(2 * c + LensStep)
  BY <1>2, QuantizeNear
<1>6. inRange(v) = quantize(c)
  BY DEF inRange
<1>7. limits_valid => 2 * quantize(c) \in (2 * sensor.lensMin - LensStep)
                                          ..(2 * sensor.lensMax + LensStep)
  <2> HIDE DEF c
  <2> QED BY <1>1, <1>2, <1>3, <1>5, ControlsAssumption
<1>8. QED
  BY <1>3, <1>4, <1>5, <1>6, <1>7 DEF WithinSensor, WithinFallback

(* The position the panel keeps needs no sending again when it is already  *)
(* in the sensor's range: whichever of the three was sent is in it as well.*)
LEMMA AlreadyInRange ==
  ASSUME LensInv, limits_valid, focus.manual, ~slipped, inRange(focus.pos) = focus.pos
  PROVE  2 * sent.lens \in (2 * sensor.lensMin - LensStep)..(2 * sensor.lensMax + LensStep)
<1> DEFINE p == focus.pos
<1>1. p \in Nat /\ quantize(p) = p /\ sensor \in Sensors
  BY DEF LensInv
<1>2. WithinSensor(p) = p
      /\ 2 * p \in (2 * sensor.lensMin - LensStep)..(2 * sensor.lensMax + LensStep)
  BY <1>1, InRangeRounds
<1>3. CASE p <= LensFallback
  <2>1. clamp(p, 0, LensFallback) = p
    BY <1>1, <1>3, ControlsAssumption DEF clamp, min, max
  <2>2. QED
    BY <1>1, <1>2, <2>1 DEF LensInv, WithinFallback
<1>4. CASE p > LensFallback
  <2>1. clamp(p, 0, LensFallback) = LensFallback
    BY <1>1, <1>4, ControlsAssumption DEF clamp, min, max
  <2>2. 2 * LensFallback \in (2 * sensor.lensMin - LensStep)..(2 * sensor.lensMax + LensStep)
    BY <1>1, <1>2, <1>4, ControlsAssumption
  <2>3. QED
    BY <1>2, <2>1, <2>2, QuantizeFallback DEF LensInv, WithinFallback
<1>5. QED
  BY <1>1, <1>3, <1>4, ControlsAssumption

LEMMA LensInvInit == ControlsInit => LensInv
<1>1. 0 * LensStep = 0
  BY ControlsAssumption
<1>2. quantize(0) = 0
  BY <1>1, QuantizeMultiple
<1>3. SUFFICES ASSUME ControlsInit PROVE LensInv
  OBVIOUS
<1>4. focus \in [manual : BOOLEAN, pos : Nat] /\ ~focus.manual /\ quantize(focus.pos) = focus.pos
  BY <1>2, <1>3 DEF ControlsInit, FreshFocus
<1>5. QED
  BY <1>3, <1>4 DEF ControlsInit, LensInv, LensPulledIn

LEMMA LensInvNext == LensInv /\ [ControlsNext]_controlVars => LensInv'
<1> SUFFICES ASSUME LensInv, [ControlsNext]_controlVars PROVE LensInv'
  OBVIOUS
<1> USE DEF LensInv, WithinFallback, WithinSensor
<1>0. focus.pos \in Int /\ sensor \in Sensors
  OBVIOUS
<1>1. CASE drawFocus
  <2>1. CASE focus.manual /\ limits_valid
    <3>1. focus' = [focus EXCEPT !.pos = inRange(focus.pos)]
          /\ sent' = [sent EXCEPT !.lens = IF focus' # focus THEN focus'.pos ELSE sent.lens]
      BY <1>1, <2>1 DEF drawFocus, pulledIn, sendLens, sentPulled
    <3>2. CASE inRange(focus.pos) = focus.pos
      <4>1. focus' = focus
        BY <3>1, <3>2
      <4>2. sent'.lens = sent.lens /\ DOMAIN sent' = DOMAIN sent
        BY <3>1, <4>1
      <4>3. ~slipped =>
              2 * sent.lens \in (2 * sensor.lensMin - LensStep)..(2 * sensor.lensMax + LensStep)
        BY <2>1, <3>2, AlreadyInRange
      <4>4. sensor' = sensor /\ limits_valid' = limits_valid /\ slipped' = slipped
        BY <1>1, <4>1 DEF drawFocus
      <4>5. QED
        BY <4>1, <4>2, <4>3, <4>4 DEF LensPulledIn
    <3>3. CASE inRange(focus.pos) # focus.pos
      <4>1. focus'.pos = inRange(focus.pos) /\ focus'.manual /\ sent'.lens = inRange(focus.pos)
        BY <2>1, <3>1, <3>3
      <4>2. QED
        BY <1>0, <1>1, <2>1, <3>1, <4>1, InRangeRounds DEF drawFocus, LensPulledIn
    <3>4. QED
      BY <3>2, <3>3
  <2>2. CASE ~(focus.manual /\ limits_valid)
    BY <1>1, <2>2 DEF drawFocus, pulledIn, sendLens, sentPulled, LensPulledIn
  <2>3. QED
    BY <2>1, <2>2
<1>2. CASE switchFocus
  <2>1. CASE focus.manual
    <3>1. focus' \in [manual : BOOLEAN, pos : Nat] /\ ~focus'.manual
          /\ focus'.pos \in {focus.pos, inRange(focus.pos)}
      BY <1>0, <1>2, <2>1, InRangeRounds DEF switchFocus, pulledIn
    <3>2. QED
      BY <1>0, <1>2, <3>1, InRangeRounds DEF switchFocus, sendLens, LensPulledIn
  <2>2. CASE ~focus.manual
    <3>1. focus' = [focus EXCEPT !.manual = TRUE]
          /\ sent' = [sent EXCEPT !.lens = inRange(focus.pos)]
      BY <1>2, <2>2 DEF switchFocus, pulledIn, sendLens
    <3>2. QED
      BY <1>0, <1>2, <3>1, InRangeRounds DEF switchFocus, LensPulledIn
  <2>3. QED
    BY <2>1, <2>2
<1>3. ASSUME NEW v \in Typed, moveLens(v) PROVE LensInv'
  <2>1. focus' = [focus EXCEPT !.pos = inRange(v)] /\ focus.manual
        /\ sent' = [sent EXCEPT !.lens = inRange(v)]
    BY <1>3 DEF moveLens, sendLens
  <2>2. v \in Int
    BY ControlsAssumption DEF Typed
  <2>3. QED
    BY <1>0, <1>3, <2>1, <2>2, InRangeRounds DEF moveLens, LensPulledIn
<1>4. CASE ExposureStep
  <2>1. UNCHANGED <<sensor, limits_valid, focus, pulled, slipped>> /\ sent'.lens = sent.lens
        /\ DOMAIN sent' = DOMAIN sent
    BY <1>4 DEF ExposureStep, toggleAutoAe, toggleLock, moveShutter, moveLock,
                sendExposure, sendFrameDuration
  <2>2. QED
    BY <2>1 DEF LensPulledIn
<1>5. CASE SurroundStep
  <2>1. CASE limitsChange
    <3>1. UNCHANGED <<focus, sent>> /\ sensor' \in Sensors /\ limits_valid' \in BOOLEAN
          /\ slipped' = (slipped \/ (limits_valid /\ focus.manual /\ sent.lens # focus.pos))
          /\ ~pulled'
      BY <2>1 DEF limitsChange
    <3>2. focus.manual /\ ~slipped' => sent.lens \in {focus.pos, WithinFallback(focus.pos)}
      BY <3>1
    <3>3. QED
      BY <3>1, <3>2 DEF LensPulledIn
  <2>2. CASE stageChange
    BY <2>2 DEF stageChange, LensPulledIn
  <2>3. CASE reload
    <3>1. 0 * LensStep = 0
      BY ControlsAssumption
    <3>2. quantize(0) = 0
      BY <3>1, QuantizeMultiple
    <3>3. focus' \in [manual : BOOLEAN, pos : Nat] /\ ~focus'.manual /\ focus'.pos = 0
      BY <2>3 DEF reload, FreshFocus
    <3>4. QED
      BY <2>3, <3>2, <3>3 DEF reload, LensPulledIn
  <2>4. QED
    BY <1>5, <2>1, <2>2, <2>3 DEF SurroundStep
<1>6. CASE UNCHANGED controlVars
  BY <1>6 DEF controlVars, LensPulledIn
<1>7. QED
  BY <1>1, <1>2, <1>3, <1>4, <1>5, <1>6 DEF ControlsNext, FocusStep

(* However late the limits arrive and whichever server they are of, once   *)
(* a frame was drawn with them the manual focus the servers hold lies in   *)
(* the sensor's range, up to the rounding to the step (drawFocus).         *)
THEOREM LensIsPulledIn == ControlsSpec => []LensPulledIn
<1>1. LensInv => LensPulledIn
  BY DEF LensInv
<1>2. QED
  BY <1>1, LensInvInit, LensInvNext, PTL DEF ControlsSpec

-----------------------------------------------------------------------------
(* The parameters of a config: cfg is what the loader makes of the file,   *)
(* the capture values are numbers everywhere, and a field of the panel     *)
(* that nobody edited still holds what the file gives, cut to the field,   *)
(* or that brought into the widget's range by an Apply.                    *)
CaptureNumbers(p) == \A k \in CaptureKeys : k \in DOMAIN p /\ p[k] \in Int

Untouched(k) == reads(yaml, k) /\ k \notin edited

ParamsInv ==
  /\ yaml \in Yamls /\ accepts(yaml) /\ cfg = loaded(yaml)
  /\ DOMAIN panel = Field /\ CaptureNumbers(panel)
  /\ \A k \in SaveKeys : Untouched(k) => applied(k, panel[k]) = fieldGives(k, yaml[k])

(* What was brought into the range of its widget stays as it is.           *)
LEMMA AppliedOnce ==
  ASSUME NEW k \in SaveKeys, NEW v
  PROVE  applied(k, applied(k, v)) = applied(k, v)
<1>1. CASE k \in {"batch_size", "checkerboard_rows"}
  BY <1>1 DEF applied, atLeast
<1>2. CASE k = "aruco_num_threads"
  <2>1. Top[k] \in Nat
    BY <1>2, ParamsAssumption DEF Aruco
  <2>2. QED
    BY <1>2, <2>1 DEF applied, between, atLeast, atMost
<1>3. CASE k = "checkerboard_subpix_window"
  <2>1. Top[k] \in Nat
    BY <1>3, ParamsAssumption
  <2>2. QED
    BY <1>3, <2>1 DEF applied, between, atLeast, atMost
<1>4. QED
  BY <1>1, <1>2, <1>3 DEF applied

LEMMA LoadedNumbers ==
  ASSUME NEW y \in Yamls, accepts(y)
  PROVE  CaptureNumbers(loaded(y))
<1> SUFFICES ASSUME NEW k \in CaptureKeys PROVE loaded(y)[k] \in Int /\ k \in DOMAIN loaded(y)
  BY DEF CaptureNumbers
<1>1. k \in Key /\ k # "checkerboard_subpix_window"
  BY DEF Key, CaptureKeys
<1>2. Default[k] \in Int /\ Top[k] \in Int
  BY <1>1, ParamsAssumption
<1>3. CASE reads(y, k)
  <2>1. allowed(k, y[k])
    BY <1>1, <1>3 DEF accepts
  <2>2. y[k] \in Int
    BY <1>2, <2>1 DEF allowed, bottom
  <2>3. QED
    BY <1>1, <1>3, <2>2 DEF loaded
<1>4. CASE ~reads(y, k)
  BY <1>1, <1>2, <1>4 DEF loaded
<1>5. QED
  BY <1>3, <1>4

(* A panel made for a file holds what the file gives.                      *)
LEMMA SeededFields ==
  ASSUME NEW y \in Yamls, accepts(y)
  PROVE  LET p == fieldsOf(y, loaded(y)) IN
         /\ DOMAIN p = Field /\ CaptureNumbers(p)
         /\ \A k \in SaveKeys : reads(y, k) => p[k] = inField(k, y[k])
<1> DEFINE p == fieldsOf(y, loaded(y))
<1>1. DOMAIN p = Field
  BY DEF fieldsOf
<1>2. \A k \in CaptureKeys : k \in Field /\ p[k] = loaded(y)[k]
  BY DEF fieldsOf, inField, Field, CaptureKeys
<1>3. CaptureNumbers(p)
  BY <1>1, <1>2, LoadedNumbers DEF CaptureNumbers
<1>4. ASSUME NEW k \in SaveKeys, reads(y, k) PROVE p[k] = inField(k, y[k])
  <2>1. k \in Field /\ k \in Key /\ k # "mode"
    BY DEF Field, Key, SaveKeys, Checkerboard, Aruco, Writing
  <2>2. loaded(y)[k] = y[k] /\ y[k] # Absent
    BY <1>4, <2>1 DEF loaded, reads
  <2>3. QED
    BY <2>1, <2>2 DEF fieldsOf
<1>5. QED
  BY <1>1, <1>3, <1>4

LEMMA ParamsInvInit == ParamsInit => ParamsInv
BY SeededFields DEF ParamsInit, ParamsInv, Untouched, fieldGives

LEMMA ChangeKeepsParamsInv ==
  ASSUME ParamsInv, NEW k \in SaveKeys \cup CaptureKeys, NEW v \in Int, change(k, v)
  PROVE  ParamsInv'
<1>1. k \in Field
  BY DEF Field
<1>2. panel' = [panel EXCEPT ![k] = v] /\ edited' = edited \cup {k} /\ yaml' = yaml /\ cfg' = cfg
  BY DEF change
<1>3. DOMAIN panel' = Field /\ CaptureNumbers(panel')
  BY <1>1, <1>2 DEF ParamsInv, CaptureNumbers
<1>4. \A j \in SaveKeys : j # k => panel'[j] = panel[j]
  BY <1>2 DEF ParamsInv, Field
<1>5. QED
  BY <1>2, <1>3, <1>4 DEF ParamsInv, Untouched

LEMMA ParamsInvNext == ParamsInv /\ [ParamsStep]_paramVars => ParamsInv'
<1> SUFFICES ASSUME ParamsInv, [ParamsStep]_paramVars PROVE ParamsInv'
  OBVIOUS
<1>1. ASSUME NEW y \in Yamls, load(y) PROVE ParamsInv'
  BY <1>1, SeededFields DEF load, seeded, ParamsInv, Untouched, fieldGives
<1>2. ASSUME NEW m \in DetectionMode, selectMode(m) PROVE ParamsInv'
  <2>1. \A k \in SaveKeys \cup CaptureKeys : k # "mode" /\ k \in Field
    BY DEF SaveKeys, CaptureKeys, Checkerboard, Aruco, Writing, Field
  <2>2. \A k \in SaveKeys \cup CaptureKeys : panel'[k] = panel[k]
    BY <1>2, <2>1 DEF selectMode, ParamsInv
  <2>3. DOMAIN panel' = Field
    BY <1>2 DEF selectMode, ParamsInv
  <2>4. QED
    BY <1>2, <2>2, <2>3 DEF selectMode, ParamsInv, Untouched, CaptureNumbers
<1>3. ASSUME NEW v \in Entry, NEW k \in SaveKeys, editSave(k, v) PROVE ParamsInv'
  <2>1. v \in Int
    BY ParamsAssumption DEF Entry
  <2>2. QED
    BY <1>3, <2>1, ChangeKeepsParamsInv DEF editSave
<1>4. ASSUME NEW v \in Entry, NEW k \in CaptureKeys, editCapture(k, v) PROVE ParamsInv'
  <2>1. entered(k, v) \in Int
    BY ParamsAssumption DEF entered, Entry, between, atLeast, atMost, bottom
  <2>2. QED
    BY <1>4, <2>1, ChangeKeepsParamsInv DEF editCapture
<1>5. CASE apply
  <2>1. \A f \in Field : panel'[f] = applied(f, panel[f])
    BY <1>5 DEF apply
  <2>2. \A k \in CaptureKeys : k \in Field /\ applied(k, panel[k]) = panel[k]
    BY DEF Field, applied, CaptureKeys
  <2>3. CaptureNumbers(panel') /\ DOMAIN panel' = Field
    BY <1>5, <2>1, <2>2 DEF apply, ParamsInv, CaptureNumbers
  <2>4. ASSUME NEW k \in SaveKeys, Untouched(k)
        PROVE  applied(k, panel'[k]) = fieldGives(k, yaml[k])
    <3>1. applied(k, panel[k]) = fieldGives(k, yaml[k]) /\ k \in Field
      BY <2>4 DEF ParamsInv, Field
    <3>2. QED
      BY <2>1, <3>1, AppliedOnce
  <2>5. QED
    BY <1>5, <2>3, <2>4 DEF apply, ParamsInv, Untouched
<1>6. ASSUME UNCHANGED <<yaml, cfg, panel, edited>> PROVE ParamsInv'
  BY <1>6 DEF ParamsInv, Untouched, CaptureNumbers
<1>7. QED
  BY <1>1, <1>2, <1>3, <1>4, <1>5, <1>6
     DEF ParamsStep, clientStart, panelCapture, clientCapture, requestFrom, paramVars

(* What is clamped is in the server's range, or left out.                  *)
LEMMA ClampedAccepted ==
  ASSUME NEW k \in CaptureKeys, NEW v \in Int, clamped(k, v) # Absent
  PROVE  IF k = "stack_analogue_gain" THEN clamped(k, v) \in 2..Top[k]
         ELSE clamped(k, v) \in bottom(k)..Top[k]
BY ParamsAssumption
   DEF clamped, bottom, between, atLeast, atMost, CaptureKeys

LEMMA RequestsStayAccepted ==
  ParamsInv /\ RequestsAccepted /\ [ParamsStep]_paramVars => RequestsAccepted'
<1> SUFFICES ASSUME ParamsInv, RequestsAccepted, [ParamsStep]_paramVars
             PROVE  RequestsAccepted'
  OBVIOUS
<1>1. ASSUME NEW asked, CaptureNumbers(asked), requestFrom(asked) PROVE RequestsAccepted'
  BY <1>1, ClampedAccepted DEF requestFrom, RequestsAccepted, CaptureNumbers
<1>2. CASE panelCapture
  <2>1. CaptureNumbers([k \in CaptureKeys |-> panel[k]])
    BY DEF ParamsInv, CaptureNumbers
  <2>2. QED
    BY <1>1, <1>2, <2>1 DEF panelCapture
<1>3. ASSUME NEW v \in Entry, NEW k \in CaptureKeys, clientCapture(k, v)
      PROVE  RequestsAccepted'
  <2>1. CaptureNumbers(cfg) /\ v \in Int
    BY LoadedNumbers, ParamsAssumption DEF ParamsInv, Entry
  <2>2. CaptureNumbers([[j \in CaptureKeys |-> cfg[j]] EXCEPT ![k] = v])
    BY <2>1 DEF CaptureNumbers
  <2>3. QED
    BY <1>1, <1>3, <2>2 DEF clientCapture
<1>4. ASSUME request' = NoRequest PROVE RequestsAccepted'
  BY <1>4 DEF NoRequest, RequestsAccepted
<1>5. ASSUME request' = request PROVE RequestsAccepted'
  BY <1>5 DEF RequestsAccepted
<1>6. QED
  BY <1>2, <1>3, <1>4, <1>5
     DEF ParamsStep, load, selectMode, editSave, editCapture, change, apply, clientStart, paramVars

(* Whatever the file holds, the user types or a caller asks for, a capture *)
(* request holds no value out of the server's range (triggerCapture and    *)
(* stackCapture of WebSocketClient).                                       *)
THEOREM RequestsInRange == ParamsSpec => []RequestsAccepted
<1>1. ParamsInit => RequestsAccepted
  BY DEF ParamsInit, RequestsAccepted, NoRequest
<1>2. QED
  BY <1>1, ParamsInvInit, ParamsInvNext, RequestsStayAccepted, PTL DEF ParamsSpec

LEMMA KeysOfAMode ==
  ASSUME NEW m PROVE keysOf(m) \subseteq SaveKeys \cup Guards
BY DEF keysOf, SaveKeys

LEMMA SentStaysAsConfigured ==
  ParamsInv /\ SentAsConfigured /\ [ParamsStep]_paramVars => SentAsConfigured'
<1> SUFFICES ASSUME ParamsInv, SentAsConfigured, [ParamsStep]_paramVars
             PROVE  SentAsConfigured'
  OBVIOUS
<1>0. \A k \in Key : reads(yaml, k) => cfg[k] = yaml[k]
  BY DEF ParamsInv, loaded
<1>1. CASE apply
  <2>1. params' = [mode |-> panel.mode, by |-> "panel", of |-> buildSaveParams(panel')]
        /\ yaml' = yaml /\ edited' = edited /\ cfg' = cfg
    BY <1>1 DEF apply
  <2>2. SUFFICES ASSUME NEW k \in DOMAIN params'.of, reads(yaml, k), k \notin edited
                 PROVE  params'.of[k] = fieldGives(k, yaml[k])
    BY <2>1 DEF SentAsConfigured
  <2>3. k \in SaveKeys \cup Guards
        /\ params'.of[k] = IF k \in Guards THEN cfg[k] ELSE panel'[k]
    BY <2>1, KeysOfAMode DEF buildSaveParams
  <2>4. CASE k \in Guards
    <3>1. fieldGives(k, yaml[k]) = yaml[k]
      BY <2>4 DEF Guards, fieldGives, applied, inField
    <3>2. QED
      BY <1>0, <2>2, <2>3, <2>4, <3>1 DEF Key
  <2>5. CASE k \in SaveKeys /\ k \notin Guards
    <3>1. applied(k, panel[k]) = fieldGives(k, yaml[k]) /\ k \in Field
      BY <2>2, <2>5 DEF ParamsInv, Untouched, Field
    <3>2. QED
      BY <1>1, <2>2, <2>3, <2>5, <3>1 DEF apply
  <2>6. QED
    BY <2>3, <2>4, <2>5
<1>2. ASSUME NEW m \in DetectionMode, NEW save \in {0, 1},
             NEW n \in 1..Top["aruco_num_threads"], clientStart(m, save, n)
      PROVE  SentAsConfigured'
  <2> DEFINE p == savingParamsFromConfig(m)
  <2>1. params' = [mode |-> m, by |-> "client",
                   of |-> [k \in DOMAIN p |-> CASE k = "save_frames" -> save
                                               [] k \in Aruco -> n
                                               [] OTHER -> p[k]]]
        /\ yaml' = yaml /\ edited' = edited
    BY <1>2 DEF clientStart
  <2>2. \A k \in DOMAIN p : k \in Key /\ p[k] = cfg[k]
    BY KeysOfAMode DEF savingParamsFromConfig, Key
  <2> HIDE DEF p
  <2>3. QED
    BY <1>0, <2>1, <2>2 DEF SentAsConfigured, ByCaller
<1>3. ASSUME params' = NoParams PROVE SentAsConfigured'
  BY <1>3 DEF NoParams, SentAsConfigured
<1>4. ASSUME params' = params, yaml' = yaml, edited \subseteq edited'
      PROVE  SentAsConfigured'
  BY <1>4 DEF SentAsConfigured
<1>5. QED
  BY <1>1, <1>2, <1>3, <1>4
     DEF ParamsStep, load, selectMode, editSave, editCapture, change, panelCapture,
         clientCapture, requestFrom, paramVars

(* After any reloads, mode switches, edits and earlier Applies, a key the  *)
(* file gives for its mode and nobody edited is sent as the file gives it: *)
(* by the panel (buildSaveParams) cut to its field and brought into its    *)
(* widget's range, by Client (savingParamsFromConfig) as it is, unless the *)
(* caller of Client decides about it.                                      *)
THEOREM ConfigReachesTheServer == ParamsSpec => []SentAsConfigured
<1>1. ParamsInit => DOMAIN params.of = {}
  <2> DEFINE nothing == [k \in {} |-> 0]
  <2>1. DOMAIN nothing = {}
    OBVIOUS
  <2> HIDE DEF nothing
  <2>2. NoParams.of = nothing
    BY DEF NoParams, nothing
  <2>3. QED
    BY <2>1, <2>2 DEF ParamsInit
<1>2. ParamsInit => SentAsConfigured
  BY <1>1 DEF SentAsConfigured
<1>3. QED
  BY <1>2, ParamsInvInit, ParamsInvNext, SentStaysAsConfigured, PTL DEF ParamsSpec

-----------------------------------------------------------------------------
(* A whole number of microseconds goes to the nearest 1/1024 ms and from   *)
(* there to the nearest microsecond: less than half a microsecond is lost. *)
LEMMA NearestMs ==
  ASSUME NEW us \in Nat
  PROVE  /\ toMs(us) \in Nat
         /\ 2 * 1024 * us - 1000 < 2 * 1000 * toMs(us)
         /\ 2 * 1000 * toMs(us) <= 2 * 1024 * us + 1000
BY DEF toMs, rescaled

LEMMA NearestUs ==
  ASSUME NEW ms \in Nat
  PROVE  /\ toUs(ms) \in Nat
         /\ 2 * 1000 * ms - 1024 < 2 * 1024 * toUs(ms)
         /\ 2 * 1024 * toUs(ms) <= 2 * 1000 * ms + 1024
BY DEF toUs, rescaled

(* The exposure of a stack survives the float of milliseconds in which the *)
(* panel keeps it, as long as neighbouring floats are at most 1/1024 ms    *)
(* apart (exposures up to 16.384 s; the slider ends at 10 s).              *)
THEOREM ExposureIsKept == ASSUME NEW us \in Nat PROVE ExposureSurvives(us)
<1>1. PICK ms : ms = toMs(us)
  OBVIOUS
<1>2. ms \in Nat /\ toUs(ms) \in Nat
  BY <1>1, NearestMs, NearestUs
<1>3. 2 * 1024 * us - 1000 < 2 * 1000 * ms /\ 2 * 1000 * ms <= 2 * 1024 * us + 1000
  BY <1>1, NearestMs
<1>4. 2 * 1000 * ms - 1024 < 2 * 1024 * toUs(ms) /\ 2 * 1024 * toUs(ms) <= 2 * 1000 * ms + 1024
  BY <1>2, NearestUs
<1>5. toUs(ms) = us
  BY <1>2, <1>3, <1>4
<1>6. QED
  BY <1>1, <1>5 DEF ExposureSurvives
=============================================================================
