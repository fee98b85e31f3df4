----------------------- MODULE CaptureProtocol_proofs -----------------------
(***************************************************************************)
(* Proofs about the capture bookkeeping (CaptureProtocol), for any number  *)
(* of cameras, requests and connections and every width of the capture id. *)
(*                                                                         *)
(* Two things are counted.  Of each kind, the requests the client has on   *)
(* record against those that still wait for their answer, wherever they    *)
(* are; and for each result, on its way or already acked, the frames that  *)
(* follow it against the entries it announces.                             *)
(***************************************************************************)
EXTENDS CaptureProtocol, FiniteSetTheorems, SequenceTheorems, TLAPS

(* The requests of kind k in a record s in which all are of one kind.      *)
Uniform(s) == \A i \in 1..Len(s) : s[i] = s[1]
Recorded(s, k) == IF s # <<>> /\ s[1] = k THEN Len(s) ELSE 0

(* The positions of q that hold an element of M.                           *)
Hits(q, M) == {i \in 1..Len(q) : q[i] \in M}
AnswerOf(k) == {m \in Message : m.type # "frame" /\ m.kind = k}
One(b) == IF b THEN 1 ELSE 0

(* The requests of kind k that wait for an answer: with the caller, on the *)
(* way to the server, with the server, or answered and not yet handled.    *)
WithCaller(k) == One(caller.pc \in {"noted", "send", "undo"} /\ caller.recorded
                       /\ caller.kind = k)
OnTheWay(k)   == Cardinality(Hits(toServer, {k}))
WithServer(k) == One(server.state = "taking" /\ server.kind = k)
Answered(k)   == Cardinality(Hits(toClient, AnswerOf(k)))
Awaited(k)    == WithCaller(k) + OnTheWay(k) + WithServer(k) + Answered(k)

OnRecord(k) == Recorded(capture_requests, k)

RequestInv ==
  /\ Uniform(capture_requests)
  /\ caller.pc # "idle" =>
       \A i \in 1..Len(capture_requests) : capture_requests[i] = caller.kind
  /\ caller.pc \in {"noted", "send", "undo"} /\ ~caller.recorded => capture_requests = <<>>
  /\ \A k \in KindT : net = "idle" => OnRecord(k) <= Awaited(k)
  /\ \A k \in KindT : ~lost /\ (up \/ net = "idle") => Awaited(k) <= OnRecord(k)

(* Without a connection nothing is on its way.                             *)
LinkInv ==
  /\ ~up => toServer = <<>> /\ toClient = <<>> /\ server.state = "free"
  /\ net = "open" => up
  /\ net = "close" => ~up
  /\ server.state = "sending" <=> server.left # {}

(* The frames of q that follow position s with no result in between, and   *)
(* whether no result follows s.                                            *)
Stretch(q, s) == {p \in 1..Len(q) : /\ p > s /\ q[p].type = "frame"
                                    /\ \A r \in (s + 1)..p : q[r].type # "result"}
LastOne(q, s) == \A r \in 1..Len(q) : r > s => q[r].type # "result"
Unsent(q, s, sv) == IF LastOne(q, s) THEN sv.left ELSE {}

(* The frames that follow position s, and those the server sv has still to *)
(* send for it, are as many as are due, and all belong to the capture a.   *)
FramesFit(q, s, a, due, sv) ==
  /\ Cardinality(Stretch(q, s)) + Cardinality(Unsent(q, s, sv)) = due
  /\ \A p \in Stretch(q, s) :
       q[p].kind = a.kind /\ q[p].id = a.id % IdMod /\ q[p].cams \subseteq a.cams
  /\ Unsent(q, s, sv) # {} => sv.kind = a.kind /\ sv.id = a.id /\ sv.left \subseteq a.cams

(* The acked capture, and the frames it still waits for.                   *)
Acked == [kind |-> capture_kind, id |-> capture_id, cams |-> capture_entries]
Due   == IF net = "idle" /\ capture_acked
         THEN Cardinality(capture_entries) - capture_received ELSE 0

FrameInv ==
  /\ FramesFit(toClient, 0, Acked, Due, server)
  /\ \A s \in 1..Len(toClient) : toClient[s].type = "result"
       => FramesFit(toClient, s, toClient[s], Cardinality(toClient[s].cams), server)

CaptureInv == TypeOK /\ LinkInv /\ RequestInv /\ FrameInv

-----------------------------------------------------------------------------
(* Counting positions of a sequence.                                       *)
LEMMA UpTo ==
  ASSUME NEW n \in Nat, NEW S \in SUBSET (1..n)
  PROVE  IsFiniteSet(S) /\ Cardinality(S) \in Nat /\ (Cardinality(S) = 0 <=> S = {})
<1>1. IsFiniteSet(1..n)
  BY FS_Interval
<1>2. IsFiniteSet(S)
  BY <1>1, FS_Subset
<1>3. QED
  BY <1>2, FS_CardinalityType, FS_EmptySet

LEMMA Shift ==
  ASSUME NEW S \in SUBSET Int, NEW T \in SUBSET Int, IsFiniteSet(S),
         \A p \in Int : p \in T <=> p + 1 \in S
  PROVE  Cardinality(T) = Cardinality(S)
<1>. DEFINE f == [p \in S |-> p - 1]
<1>1. \A p \in S : p - 1 \in T
  <2>1. TAKE p \in S
  <2>2. p \in Int /\ p - 1 \in Int /\ (p - 1) + 1 = p
    OBVIOUS
  <2>3. QED
    BY <2>2
<1>2. f \in Injection(S, T)
  BY <1>1 DEF Injection, IsInjective
<1>3. \A t \in T : \E p \in S : f[p] = t
  <2>1. TAKE t \in T
  <2>2. t + 1 \in S /\ f[t + 1] = t
    OBVIOUS
  <2>3. QED
    BY <2>2
<1>4. f \in Surjection(S, T)
  BY <1>1, <1>3 DEF Surjection
<1>5. ExistsBijection(S, T)
  BY <1>2, <1>4 DEF ExistsBijection, Bijection
<1>6. QED
  BY <1>5, FS_Bijection

LEMMA HitsAppend ==
  ASSUME NEW S, NEW q \in Seq(S), NEW m \in S, NEW M
  PROVE  Cardinality(Hits(Append(q, m), M)) = Cardinality(Hits(q, M)) + One(m \in M)
<1>1. /\ Len(q) \in Nat /\ Len(Append(q, m)) = Len(q) + 1
      /\ \A i \in 1..Len(q) : Append(q, m)[i] = q[i]
      /\ Append(q, m)[Len(q) + 1] = m
  BY AppendProperties, LenProperties
<1>2. IsFiniteSet(Hits(q, M)) /\ Cardinality(Hits(q, M)) \in Nat
  BY <1>1, UpTo DEF Hits
<1>3. Len(q) + 1 \notin Hits(q, M)
  BY <1>1 DEF Hits
<1>4. CASE m \in M
  <2>1. Hits(Append(q, m), M) = Hits(q, M) \cup {Len(q) + 1}
    BY <1>1, <1>4 DEF Hits
  <2>2. QED
    BY <1>2, <1>3, <1>4, <2>1, FS_AddElement DEF One
<1>5. CASE m \notin M
  <2>1. Hits(Append(q, m), M) = Hits(q, M)
    BY <1>1, <1>5 DEF Hits
  <2>2. QED
    BY <1>2, <1>5, <2>1 DEF One
<1>6. QED
  BY <1>4, <1>5

LEMMA HitsTail ==
  ASSUME NEW S, NEW q \in Seq(S), q # <<>>, NEW M
  PROVE  Cardinality(Hits(q, M)) = Cardinality(Hits(Tail(q), M)) + One(Head(q) \in M)
<1>. DEFINE R == {i \in 2..Len(q) : q[i] \in M}
<1>1. /\ Len(q) \in Nat \ {0} /\ Len(Tail(q)) = Len(q) - 1 /\ Head(q) = q[1]
      /\ \A i \in 1..(Len(q) - 1) : Tail(q)[i] = q[i + 1]
  BY HeadTailProperties, EmptySeq
<1>2. IsFiniteSet(R) /\ Cardinality(R) \in Nat /\ 1 \notin R
  <2>1. R \in SUBSET (1..Len(q)) /\ 1 \notin R
    BY <1>1
  <2>2. QED
    BY <1>1, <2>1, UpTo
<1>3. Cardinality(Hits(Tail(q), M)) = Cardinality(R)
  <2>1. R \in SUBSET Int /\ Hits(Tail(q), M) \in SUBSET Int
    BY <1>1 DEF Hits
  <2>2. \A p \in Int : p \in Hits(Tail(q), M) <=> p + 1 \in R
    <3>1. TAKE p \in Int
    <3>2. p \in 1..(Len(q) - 1) <=> p + 1 \in 2..Len(q)
      BY <1>1
    <3>3. QED
      BY <1>1, <3>2 DEF Hits
  <2>3. QED
    BY <1>2, <2>1, <2>2, Shift
<1>4. CASE Head(q) \in M
  <2>1. Hits(q, M) = R \cup {1}
    BY <1>1, <1>4 DEF Hits
  <2>2. QED
    BY <1>2, <1>3, <1>4, <2>1, FS_AddElement DEF One
<1>5. CASE Head(q) \notin M
  <2>1. Hits(q, M) = R
    BY <1>1, <1>5 DEF Hits
  <2>2. QED
    BY <1>2, <1>3, <1>5, <2>1 DEF One
<1>6. QED
  BY <1>4, <1>5

LEMMA HitsType ==
  ASSUME NEW S, NEW q \in Seq(S), NEW M
  PROVE  /\ Cardinality(Hits(q, M)) \in Nat
         /\ \A i \in 1..Len(q) : q[i] \in M => Cardinality(Hits(q, M)) >= 1
         /\ q = <<>> => Cardinality(Hits(q, M)) = 0
<1>1. Len(q) \in Nat
  BY LenProperties
<1>2. Cardinality(Hits(q, M)) \in Nat /\ (Cardinality(Hits(q, M)) = 0 <=> Hits(q, M) = {})
  BY <1>1, UpTo DEF Hits
<1>3. q = <<>> => Hits(q, M) = {}
  BY DEF Hits
<1>4. ASSUME NEW i \in 1..Len(q), q[i] \in M
      PROVE  Cardinality(Hits(q, M)) >= 1
  <2>1. Hits(q, M) # {}
    BY <1>4 DEF Hits
  <2>. DEFINE n == Cardinality(Hits(q, M))
  <2>2. n \in Nat /\ n # 0
    BY <1>2, <2>1
  <2>. HIDE DEF n
  <2>3. n >= 1
    BY <2>2
  <2>4. QED
    BY <2>3 DEF n
<1>5. QED
  BY <1>2, <1>3, <1>4

-----------------------------------------------------------------------------
(* Taking a request out of a record of one kind.                           *)
Reduced(w, s) == w \in Seq(KindT) /\ Len(w) = Len(s) - 1 /\ \A i \in 1..Len(w) : w[i] = s[1]

LEMMA RemoveAtReduces ==
  ASSUME NEW s \in Seq(KindT), Uniform(s), NEW i \in 1..Len(s)
  PROVE  Reduced(RemoveAt(s, i), s)
<1>. DEFINE a == SubSeq(s, 1, i - 1)
            b == SubSeq(s, i + 1, Len(s))
<1>1. Len(s) \in Nat /\ i \in Nat /\ i >= 1 /\ i <= Len(s) /\ \A j \in 1..Len(s) : s[j] \in KindT
  BY LenProperties
<1>2. /\ a \in Seq(KindT) /\ Len(a) = i - 1
      /\ \A j \in 1..Len(a) : a[j] = s[1]
  <2>1. \A j \in 1..(i - 1) : s[j] \in KindT
    BY <1>1
  <2>2. /\ a \in Seq(KindT) /\ Len(a) = (IF 1 <= i - 1 THEN (i - 1) - 1 + 1 ELSE 0)
        /\ \A j \in 1..((i - 1) - 1 + 1) : a[j] = s[1 + j - 1]
    BY <1>1, <2>1, SubSeqProperties
  <2>3. Len(a) = i - 1
    BY <1>1, <2>2
  <2>4. ASSUME NEW j \in 1..Len(a)
        PROVE  a[j] = s[1]
    <3>1. j \in 1..((i - 1) - 1 + 1) /\ 1 + j - 1 = j /\ j \in 1..Len(s)
      BY <1>1, <2>3
    <3>2. QED
      BY <2>2, <3>1 DEF Uniform
  <2>5. QED
    BY <2>2, <2>3, <2>4
<1>3. /\ b \in Seq(KindT) /\ Len(b) = Len(s) - i
      /\ \A j \in 1..Len(b) : b[j] = s[1]
  <2>1. \A j \in (i + 1)..Len(s) : s[j] \in KindT
    BY <1>1
  <2>2. /\ b \in Seq(KindT) /\ Len(b) = (IF i + 1 <= Len(s) THEN Len(s) - (i + 1) + 1 ELSE 0)
        /\ \A j \in 1..(Len(s) - (i + 1) + 1) : b[j] = s[(i + 1) + j - 1]
    BY <1>1, <2>1, SubSeqProperties
  <2>3. Len(b) = Len(s) - i
    BY <1>1, <2>2
  <2>4. ASSUME NEW j \in 1..Len(b)
        PROVE  b[j] = s[1]
    <3>1. j \in 1..(Len(s) - (i + 1) + 1) /\ (i + 1) + j - 1 \in 1..Len(s)
      BY <1>1, <2>3
    <3>2. QED
      BY <2>2, <3>1 DEF Uniform
  <2>5. QED
    BY <2>2, <2>3, <2>4
<1>4. RemoveAt(s, i) = a \o b
  BY DEF RemoveAt
<1>. HIDE DEF a, b
<1>5. /\ a \o b \in Seq(KindT) /\ Len(a \o b) = Len(a) + Len(b)
      /\ \A j \in 1..(Len(a) + Len(b)) :
           (a \o b)[j] = IF j <= Len(a) THEN a[j] ELSE b[j - Len(a)]
  BY <1>2, <1>3, ConcatProperties
<1>6. Len(a) + Len(b) = Len(s) - 1 /\ Len(a) \in Nat /\ Len(b) \in Nat
  BY <1>1, <1>2, <1>3
<1>7. ASSUME NEW j \in 1..Len(a \o b)
      PROVE  (a \o b)[j] = s[1]
  <2>1. j \in 1..(Len(a) + Len(b))
    BY <1>5
  <2>2. CASE j <= Len(a)
    BY <1>2, <1>5, <1>6, <2>1, <2>2
  <2>3. CASE ~(j <= Len(a))
    <3>1. j - Len(a) \in 1..Len(b)
      BY <1>6, <2>1, <2>3
    <3>2. QED
      BY <1>3, <1>5, <2>1, <2>3, <3>1
  <2>4. QED
    BY <2>2, <2>3
<1>8. QED
  BY <1>4, <1>5, <1>6, <1>7 DEF Reduced

(* The newest of a kind, the oldest of a kind and the oldest.              *)
LEMMA WithoutNewest ==
  ASSUME NEW s \in Seq(KindT), Uniform(s), NEW k
  PROVE  IF s # <<>> /\ s[1] = k THEN Reduced(withoutNewest(s, k), s)
         ELSE withoutNewest(s, k) = s
<1>. DEFINE at == {i \in 1..Len(s) : s[i] = k}
            top == CHOOSE i \in at : \A j \in at : j <= i
<1>1. Len(s) \in Nat /\ (s # <<>> => Len(s) \in Nat \ {0}) /\ (s = <<>> => Len(s) = 0)
  BY LenProperties, EmptySeq
<1>2. withoutNewest(s, k) = IF at = {} THEN s ELSE RemoveAt(s, top)
  BY DEF withoutNewest
<1>3. CASE s # <<>> /\ s[1] = k
  <2>1. 1 \in at /\ Len(s) \in at /\ \A j \in at : j <= Len(s)
    BY <1>1, <1>3 DEF Uniform
  <2>2. top \in at
    BY <2>1
  <2>3. top \in 1..Len(s)
    BY <2>2
  <2>. HIDE DEF at, top
  <2>4. withoutNewest(s, k) = RemoveAt(s, top)
    BY <1>2, <2>1
  <2>5. QED
    BY <1>3, <2>3, <2>4, RemoveAtReduces
<1>4. CASE ~(s # <<>> /\ s[1] = k)
  <2>1. at = {}
    BY <1>1, <1>4 DEF Uniform
  <2>2. QED
    BY <1>2, <1>4, <2>1
<1>5. QED
  BY <1>3, <1>4

withoutOldest(s, k) ==
  LET at == SelectInSeq(s, LAMBDA r : r = k)
  IN  IF at = 0 THEN s ELSE RemoveAt(s, at)

LEMMA WithoutOldestOfKind ==
  ASSUME NEW s \in Seq(KindT), Uniform(s), NEW k
  PROVE  IF s # <<>> /\ s[1] = k THEN Reduced(withoutOldest(s, k), s)
         ELSE withoutOldest(s, k) = s
<1>. DEFINE I == {i \in 1..Len(s) : s[i] = k}
            at == IF I # {} THEN Min(I) ELSE 0
            w == IF at = 0 THEN s ELSE RemoveAt(s, at)
<1>1. Len(s) \in Nat /\ (s # <<>> => Len(s) \in Nat \ {0}) /\ (s = <<>> => Len(s) = 0)
  BY LenProperties, EmptySeq
<1>2. CASE s # <<>> /\ s[1] = k
  <2>1. 1 \in I /\ \A j \in I : 1 <= j
    BY <1>1, <1>2
  <2>2. Min(I) \in I
    BY <2>1 DEF Min
  <2>3. at \in 1..Len(s) /\ at # 0
    BY <1>1, <2>1, <2>2
  <2>. HIDE DEF at
  <2>4. Reduced(w, s)
    BY <2>3, RemoveAtReduces
  <2>5. QED
    BY <1>2, <2>4 DEF at, SelectInSeq, withoutOldest
<1>3. CASE ~(s # <<>> /\ s[1] = k)
  <2>1. I = {}
    BY <1>1, <1>3 DEF Uniform
  <2>2. w = s
    BY <2>1
  <2>3. QED
    BY <1>3, <2>2 DEF SelectInSeq, withoutOldest
<1>4. QED
  BY <1>2, <1>3

LEMMA TailReduces ==
  ASSUME NEW s \in Seq(KindT), Uniform(s), s # <<>>
  PROVE  Reduced(Tail(s), s)
<1>1. /\ Tail(s) \in Seq(KindT) /\ Len(Tail(s)) = Len(s) - 1
      /\ \A i \in 1..Len(Tail(s)) : Tail(s)[i] = s[i + 1] /\ Len(s) \in Nat
  BY HeadTailProperties, LenProperties
<1>2. ASSUME NEW i \in 1..Len(Tail(s))
      PROVE  Tail(s)[i] = s[1]
  <2>1. i + 1 \in 1..Len(s)
    BY <1>1
  <2>2. QED
    BY <1>1, <2>1 DEF Uniform
<1>3. QED
  BY <1>1, <1>2 DEF Reduced

LEMMA ReducedFacts ==
  ASSUME NEW s \in Seq(KindT), Uniform(s), s # <<>>, NEW w, Reduced(w, s)
  PROVE  /\ w \in Seq(KindT) /\ Uniform(w)
         /\ \A x : (\A i \in 1..Len(s) : s[i] = x) => (\A i \in 1..Len(w) : w[i] = x)
         /\ \A k : Recorded(w, k) = IF s[1] = k THEN Recorded(s, k) - 1 ELSE Recorded(s, k)
<1>1. Len(s) \in Nat \ {0} /\ Len(w) \in Nat /\ w \in Seq(KindT) /\ Len(w) = Len(s) - 1
      /\ \A i \in 1..Len(w) : w[i] = s[1]
  BY EmptySeq, LenProperties DEF Reduced
<1>2. (w = <<>> <=> Len(w) = 0) /\ (w # <<>> => w[1] = s[1])
  BY <1>1, EmptySeq
<1>3. Uniform(w)
  BY <1>1 DEF Uniform
<1>4. \A k : Recorded(w, k) = IF s[1] = k THEN Recorded(s, k) - 1 ELSE Recorded(s, k)
  BY <1>1, <1>2 DEF Recorded
<1>5. QED
  BY <1>1, <1>3, <1>4

LEMMA RecordedType ==
  ASSUME NEW s \in Seq(KindT), NEW k
  PROVE  /\ Recorded(s, k) \in Nat
         /\ Recorded(s, k) > 0 <=> s # <<>> /\ s[1] = k
         /\ Recorded(<<>>, k) = 0
BY LenProperties, EmptySeq DEF Recorded

-----------------------------------------------------------------------------
(* The stretch of frames behind a result, as messages come and go.         *)
LEMMA StretchType ==
  ASSUME NEW q \in Seq(Message), NEW s \in Nat
  PROVE  /\ IsFiniteSet(Stretch(q, s)) /\ Cardinality(Stretch(q, s)) \in Nat
         /\ Cardinality(Stretch(q, s)) = 0 <=> Stretch(q, s) = {}
         /\ Stretch(q, s) \in SUBSET (1..Len(q))
<1>1. Len(q) \in Nat /\ Stretch(q, s) \in SUBSET (1..Len(q))
  BY LenProperties DEF Stretch
<1>2. QED
  BY <1>1, UpTo

LEMMA StretchAppend ==
  ASSUME NEW q \in Seq(Message), NEW m \in Message, NEW s \in 0..Len(q)
  PROVE  /\ Stretch(Append(q, m), s)
              = IF m.type = "frame" /\ LastOne(q, s) THEN Stretch(q, s) \cup {Len(q) + 1}
                ELSE Stretch(q, s)
         /\ LastOne(Append(q, m), s) <=> LastOne(q, s) /\ m.type # "result"
         /\ \A p \in Stretch(q, s) : Append(q, m)[p] = q[p]
         /\ Append(q, m)[Len(q) + 1] = m
         /\ Len(q) + 1 \notin Stretch(q, s)
<1>. DEFINE a == Append(q, m)
<1>1. /\ Len(q) \in Nat /\ s \in Nat /\ s <= Len(q) /\ Len(a) = Len(q) + 1
      /\ \A i \in 1..Len(q) : a[i] = q[i]
      /\ a[Len(q) + 1] = m
  BY AppendProperties, LenProperties
<1>. HIDE DEF a
<1>2. LastOne(a, s) <=> LastOne(q, s) /\ m.type # "result"
  <2>1. \A r \in 1..(Len(q) + 1) : r \in 1..Len(q) \/ r = Len(q) + 1
    BY <1>1
  <2>2. Len(q) + 1 > s /\ Len(q) + 1 \in 1..(Len(q) + 1) /\ \A r \in 1..Len(q) : r \in 1..(Len(q) + 1)
    BY <1>1
  <2>3. QED
    BY <1>1, <2>1, <2>2 DEF LastOne
<1>3. \A p \in 1..Len(q) : p \in Stretch(a, s) <=> p \in Stretch(q, s)
  <2>1. TAKE p \in 1..Len(q)
  <2>2. p \in 1..Len(a) /\ a[p] = q[p]
    BY <1>1
  <2>3. \A r \in (s + 1)..p : a[r] = q[r]
    BY <1>1
  <2>4. QED
    BY <2>2, <2>3 DEF Stretch
<1>4. Len(q) + 1 \in Stretch(a, s) <=> m.type = "frame" /\ LastOne(q, s)
  <2>1. \A r \in (s + 1)..(Len(q) + 1) : (r \in 1..Len(q) /\ r > s) \/ r = Len(q) + 1
    BY <1>1
  <2>2. \A r \in 1..Len(q) : r > s => r \in (s + 1)..(Len(q) + 1)
    BY <1>1
  <2>3. Len(q) + 1 > s /\ Len(q) + 1 \in 1..(Len(q) + 1)
    BY <1>1
  <2>4. m.type = "frame" => ((\A r \in (s + 1)..(Len(q) + 1) : a[r].type # "result")
                               <=> LastOne(q, s))
    BY <1>1, <2>1, <2>2 DEF LastOne
  <2>5. QED
    BY <1>1, <2>3, <2>4 DEF Stretch
<1>5. Len(q) + 1 \notin Stretch(q, s) /\ Stretch(q, s) \in SUBSET (1..Len(q))
      /\ Stretch(a, s) \in SUBSET (1..(Len(q) + 1))
  BY <1>1 DEF Stretch
<1>6. \A p \in 1..(Len(q) + 1) : p \in 1..Len(q) \/ p = Len(q) + 1
  BY <1>1
<1>7. Stretch(a, s) = IF m.type = "frame" /\ LastOne(q, s) THEN Stretch(q, s) \cup {Len(q) + 1}
                      ELSE Stretch(q, s)
  <2>1. CASE m.type = "frame" /\ LastOne(q, s)
    <3>1. \A p : p \in Stretch(a, s) <=> p \in Stretch(q, s) \/ p = Len(q) + 1
      BY <1>3, <1>4, <1>5, <1>6, <2>1
    <3>2. QED
      BY <2>1, <3>1
  <2>2. CASE ~(m.type = "frame" /\ LastOne(q, s))
    <3>1. \A p : p \in Stretch(a, s) <=> p \in Stretch(q, s)
      BY <1>3, <1>4, <1>5, <1>6, <2>2
    <3>2. Stretch(a, s) = Stretch(q, s)
      BY <3>1
    <3>3. QED
      BY <2>2, <3>2
  <2>3. QED
    BY <2>1, <2>2
<1>8. QED
  BY <1>1, <1>2, <1>5, <1>7 DEF a

(* Behind the last message there is nothing yet.                           *)
LEMMA StretchEnd ==
  ASSUME NEW q \in Seq(Message)
  PROVE  Stretch(q, Len(q)) = {} /\ LastOne(q, Len(q))
<1>1. Len(q) \in Nat
  BY LenProperties
<1>2. QED
  BY <1>1 DEF Stretch, LastOne

LEMMA StretchTail ==
  ASSUME NEW q \in Seq(Message), q # <<>>, NEW s \in Nat
  PROVE  /\ Cardinality(Stretch(Tail(q), s)) = Cardinality(Stretch(q, s + 1))
         /\ LastOne(Tail(q), s) <=> LastOne(q, s + 1)
         /\ \A p \in Stretch(Tail(q), s) : p + 1 \in Stretch(q, s + 1) /\ Tail(q)[p] = q[p + 1]
<1>. DEFINE t == Tail(q)
<1>1. /\ Len(q) \in Nat \ {0} /\ Len(t) = Len(q) - 1
      /\ \A i \in 1..(Len(q) - 1) : t[i] = q[i + 1]
  BY HeadTailProperties, EmptySeq
<1>. HIDE DEF t
<1>2. \A p \in Int : p \in Stretch(t, s) <=> p + 1 \in Stretch(q, s + 1)
  <2>1. TAKE p \in Int
  <2>2. CASE p \in 1..(Len(q) - 1)
    <3>1. p + 1 \in 1..Len(q) /\ (p > s <=> p + 1 > s + 1) /\ t[p] = q[p + 1]
      BY <1>1, <2>2
    <3>2. (\A r \in (s + 1)..p : t[r].type # "result")
            <=> (\A r \in ((s + 1) + 1)..(p + 1) : q[r].type # "result")
      <4>1. ASSUME NEW r \in (s + 1)..p
            PROVE  r + 1 \in ((s + 1) + 1)..(p + 1) /\ t[r] = q[r + 1]
        BY <1>1, <2>2
      <4>2. ASSUME NEW r \in ((s + 1) + 1)..(p + 1)
            PROVE  r - 1 \in (s + 1)..p /\ t[r - 1] = q[r]
        <5>1. r - 1 \in (s + 1)..p /\ r - 1 \in 1..(Len(q) - 1) /\ (r - 1) + 1 = r
          BY <1>1, <2>2
        <5>2. QED
          BY <1>1, <5>1
      <4>3. QED
        BY <4>1, <4>2
    <3>3. QED
      BY <1>1, <2>2, <3>1, <3>2 DEF Stretch
  <2>3. CASE p \notin 1..(Len(q) - 1)
    <3>1. p \notin Stretch(t, s)
      BY <1>1, <2>3 DEF Stretch
    <3>2. p + 1 \notin 1..Len(q) \/ ~(p + 1 > s + 1)
      BY <1>1, <2>3
    <3>3. QED
      BY <3>1, <3>2 DEF Stretch
  <2>4. QED
    BY <2>2, <2>3
<1>3. Cardinality(Stretch(t, s)) = Cardinality(Stretch(q, s + 1))
  <2>1. s + 1 \in Nat
    OBVIOUS
  <2>2. IsFiniteSet(Stretch(q, s + 1)) /\ Stretch(q, s + 1) \in SUBSET Int
    BY <1>1, <2>1, StretchType
  <2>3. Stretch(t, s) \in SUBSET Int
    BY <1>1 DEF Stretch
  <2>4. QED
    BY <1>2, <2>2, <2>3, Shift
<1>4. LastOne(t, s) <=> LastOne(q, s + 1)
  <2>1. ASSUME NEW r \in 1..(Len(q) - 1), r > s
        PROVE  r + 1 \in 1..Len(q) /\ r + 1 > s + 1 /\ t[r] = q[r + 1]
    BY <1>1, <2>1
  <2>2. ASSUME NEW r \in 1..Len(q), r > s + 1
        PROVE  r - 1 \in 1..(Len(q) - 1) /\ r - 1 > s /\ t[r - 1] = q[r]
    <3>1. r - 1 \in 1..(Len(q) - 1) /\ r - 1 > s /\ (r - 1) + 1 = r
      BY <1>1, <2>2
    <3>2. QED
      BY <1>1, <3>1
  <2>3. QED
    BY <1>1, <2>1, <2>2 DEF LastOne
<1>5. \A p \in Stretch(t, s) : p + 1 \in Stretch(q, s + 1) /\ t[p] = q[p + 1]
  <2>1. \A p \in Stretch(t, s) : p \in Int /\ p \in 1..(Len(q) - 1)
    BY <1>1 DEF Stretch
  <2>2. QED
    BY <1>1, <1>2, <2>1
<1>6. QED
  BY <1>3, <1>4, <1>5 DEF t

LEMMA StretchHead ==
  ASSUME NEW q \in Seq(Message), q # <<>>, q[1].type # "result"
  PROVE  /\ Stretch(q, 0) = IF q[1].type = "frame" THEN Stretch(q, 1) \cup {1}
                            ELSE Stretch(q, 1)
         /\ LastOne(q, 0) <=> LastOne(q, 1)
         /\ 1 \notin Stretch(q, 1)
<1>1. Len(q) \in Nat \ {0} /\ 0 + 1 = 1 /\ 1 \in 1..Len(q)
  BY EmptySeq
<1>2. LastOne(q, 0) <=> LastOne(q, 1)
  <2>1. \A r \in 1..Len(q) : r > 0 /\ (r > 1 \/ r = 1)
    BY <1>1
  <2>2. QED
    BY <2>1 DEF LastOne
<1>3. 1 \notin Stretch(q, 1)
  BY DEF Stretch
<1>4. 1 \in Stretch(q, 0) <=> q[1].type = "frame"
  <2>1. \A r \in (0 + 1)..1 : r = 1
    OBVIOUS
  <2>2. QED
    BY <1>1, <2>1 DEF Stretch
<1>5. \A p \in 2..Len(q) : p \in Stretch(q, 0) <=> p \in Stretch(q, 1)
  <2>1. TAKE p \in 2..Len(q)
  <2>2. p \in 1..Len(q) /\ p > 0 /\ p > 1
    BY <1>1
  <2>3. (\A r \in (0 + 1)..p : q[r].type # "result")
          <=> (\A r \in (1 + 1)..p : q[r].type # "result")
    <3>1. \A r \in (0 + 1)..p : r = 1 \/ r \in (1 + 1)..p
      BY <2>2
    <3>2. \A r \in (1 + 1)..p : r \in (0 + 1)..p
      BY <2>2
    <3>3. QED
      BY <3>1, <3>2
  <2>4. QED
    BY <2>2, <2>3 DEF Stretch
<1>6. Stretch(q, 0) \in SUBSET (1..Len(q)) /\ Stretch(q, 1) \in SUBSET (1..Len(q))
      /\ \A p \in 1..Len(q) : p = 1 \/ p \in 2..Len(q)
  BY <1>1 DEF Stretch
<1>7. CASE q[1].type = "frame"
  <2>1. \A p : p \in Stretch(q, 0) <=> p \in Stretch(q, 1) \/ p = 1
    BY <1>3, <1>4, <1>5, <1>6, <1>7
  <2>2. QED
    BY <1>2, <1>3, <1>7, <2>1
<1>8. CASE q[1].type # "frame"
  <2>1. \A p : p \in Stretch(q, 0) <=> p \in Stretch(q, 1)
    BY <1>3, <1>4, <1>5, <1>6, <1>8
  <2>2. QED
    BY <1>2, <1>3, <1>8, <2>1
<1>9. QED
  BY <1>7, <1>8

-----------------------------------------------------------------------------
(* What is due for a result, as messages come and go.                      *)
ServerT == [state : {"free", "taking", "sending"}, kind : KindT, id : Nat, left : SUBSET Cam]

LEMMA CamsFinite ==
  ASSUME NEW S \in SUBSET Cam
  PROVE  IsFiniteSet(S) /\ Cardinality(S) \in Nat /\ (Cardinality(S) = 0 <=> S = {})
<1>1. IsFiniteSet(S)
  BY CaptureAssumption, FS_Subset
<1>2. QED
  BY <1>1, FS_CardinalityType, FS_EmptySet

LEMMA UnsentType ==
  ASSUME NEW q, NEW s, NEW sv \in ServerT
  PROVE  Unsent(q, s, sv) \in SUBSET Cam
BY DEF Unsent, ServerT

LEMMA FitAppendRefusal ==
  ASSUME NEW q \in Seq(Message), NEW m \in Message, m.type = "refusal", NEW s \in 0..Len(q),
         NEW a, NEW due, NEW sv, FramesFit(q, s, a, due, sv)
  PROVE  FramesFit(Append(q, m), s, a, due, sv)
<1>0. /\ Stretch(Append(q, m), s)
           = (IF m.type = "frame" /\ LastOne(q, s) THEN Stretch(q, s) \cup {Len(q) + 1}
              ELSE Stretch(q, s))
      /\ LastOne(Append(q, m), s) <=> LastOne(q, s) /\ m.type # "result"
      /\ \A p \in Stretch(q, s) : Append(q, m)[p] = q[p]
      /\ Append(q, m)[Len(q) + 1] = m
      /\ Len(q) + 1 \notin Stretch(q, s)
  BY StretchAppend
<1>1. /\ Stretch(Append(q, m), s) = Stretch(q, s) /\ (LastOne(Append(q, m), s) <=> LastOne(q, s))
      /\ \A p \in Stretch(q, s) : Append(q, m)[p] = q[p]
  BY <1>0
<1>2. Unsent(Append(q, m), s, sv) = Unsent(q, s, sv)
  BY <1>1 DEF Unsent
<1>3. QED
  BY <1>1, <1>2 DEF FramesFit

(* A result of the server; nothing is left to send for the one before.     *)
LEMMA FitAppendResult ==
  ASSUME NEW q \in Seq(Message), NEW m \in Message, m.type = "result", NEW s \in 0..Len(q),
         NEW a, NEW due, NEW sv, sv.left = {}, NEW tv, FramesFit(q, s, a, due, sv)
  PROVE  FramesFit(Append(q, m), s, a, due, tv)
<1>1. /\ Stretch(Append(q, m), s) = Stretch(q, s) /\ ~LastOne(Append(q, m), s)
      /\ \A p \in Stretch(q, s) : Append(q, m)[p] = q[p]
  BY StretchAppend
<1>2. Unsent(Append(q, m), s, tv) = Unsent(q, s, sv) /\ Unsent(Append(q, m), s, tv) = {}
  BY <1>1 DEF Unsent
<1>3. QED
  BY <1>1, <1>2 DEF FramesFit

LEMMA FitNewResult ==
  ASSUME NEW q \in Seq(Message), NEW m \in Message, m.type = "result",
         NEW tv, tv.left = m.cams, tv.kind = m.kind, tv.id = m.id
  PROVE  FramesFit(Append(q, m), Len(q) + 1, m, Cardinality(m.cams), tv)
<1>1. Append(q, m) \in Seq(Message) /\ Len(Append(q, m)) = Len(q) + 1
  BY AppendProperties
<1>2. Stretch(Append(q, m), Len(q) + 1) = {} /\ LastOne(Append(q, m), Len(q) + 1)
  <2>1. Stretch(Append(q, m), Len(Append(q, m))) = {} /\ LastOne(Append(q, m), Len(Append(q, m)))
    BY <1>1, StretchEnd
  <2>2. QED
    BY <1>1, <2>1
<1>3. m.cams \in SUBSET Cam
  BY DEF Message
<1>4. Cardinality({}) + Cardinality(m.cams) = Cardinality(m.cams)
  BY <1>3, CamsFinite, FS_EmptySet
<1>5. QED
  BY <1>2, <1>4 DEF FramesFit, Unsent

LEMMA FitAppendFrame ==
  ASSUME NEW q \in Seq(Message), NEW m \in Message, m.type = "frame", NEW s \in 0..Len(q),
         NEW a, NEW due, NEW sv \in ServerT, NEW tv, NEW c \in sv.left,
         m.kind = sv.kind, m.id = sv.id % IdMod, m.cams = {c},
         tv.kind = sv.kind, tv.id = sv.id, tv.left = sv.left \ {c},
         FramesFit(q, s, a, due, sv)
  PROVE  FramesFit(Append(q, m), s, a, due, tv)
<1>0. /\ Stretch(Append(q, m), s)
           = (IF m.type = "frame" /\ LastOne(q, s) THEN Stretch(q, s) \cup {Len(q) + 1}
              ELSE Stretch(q, s))
      /\ LastOne(Append(q, m), s) <=> LastOne(q, s) /\ m.type # "result"
      /\ \A p \in Stretch(q, s) : Append(q, m)[p] = q[p]
      /\ Append(q, m)[Len(q) + 1] = m
      /\ Len(q) + 1 \notin Stretch(q, s)
  BY StretchAppend
<1>1. /\ Stretch(Append(q, m), s)
           = (IF LastOne(q, s) THEN Stretch(q, s) \cup {Len(q) + 1} ELSE Stretch(q, s))
      /\ LastOne(Append(q, m), s) <=> LastOne(q, s)
      /\ \A p \in Stretch(q, s) : Append(q, m)[p] = q[p]
      /\ Append(q, m)[Len(q) + 1] = m
      /\ Len(q) + 1 \notin Stretch(q, s)
  BY <1>0
<1>2. CASE ~LastOne(q, s)
  <2>1. Unsent(Append(q, m), s, tv) = {} /\ Unsent(q, s, sv) = {}
    BY <1>1, <1>2 DEF Unsent
  <2>2. QED
    BY <1>1, <1>2, <2>1 DEF FramesFit
<1>3. CASE LastOne(q, s)
  <2>. DEFINE S == Stretch(q, s)
              T == Stretch(Append(q, m), s)
  <2>1. Unsent(Append(q, m), s, tv) = sv.left \ {c} /\ Unsent(q, s, sv) = sv.left /\ sv.left # {}
    BY <1>1, <1>3 DEF Unsent
  <2>2. T = S \cup {Len(q) + 1}
    BY <1>1, <1>3
  <2>3. IsFiniteSet(S) /\ Cardinality(S) \in Nat
    <3>1. s \in Nat
      BY LenProperties
    <3>2. QED
      BY <3>1, StretchType
  <2>4. Cardinality(T) = Cardinality(S) + 1
    BY <1>1, <2>2, <2>3, FS_AddElement
  <2>5. sv.left \in SUBSET Cam
    BY DEF ServerT
  <2>6. Cardinality(sv.left \ {c}) = Cardinality(sv.left) - 1 /\ Cardinality(sv.left) \in Nat
    BY <2>5, CamsFinite, FS_RemoveElement
  <2>7. Cardinality(S) + Cardinality(sv.left) = due
        /\ sv.kind = a.kind /\ sv.id = a.id /\ sv.left \subseteq a.cams
    BY <2>1 DEF FramesFit
  <2>8. Cardinality(T) + Cardinality(sv.left \ {c}) = due
    BY <2>3, <2>4, <2>6, <2>7
  <2>9. ASSUME NEW p \in T
        PROVE  /\ Append(q, m)[p].kind = a.kind /\ Append(q, m)[p].id = a.id % IdMod
               /\ Append(q, m)[p].cams \subseteq a.cams
    <3>1. CASE p \in S
      BY <1>1, <3>1 DEF FramesFit
    <3>2. CASE p = Len(q) + 1
      BY <1>1, <2>7, <3>2
    <3>3. QED
      BY <2>2, <3>1, <3>2
  <2>10. sv.left \ {c} \subseteq a.cams
    BY <2>7
  <2>11. QED
    BY <2>1, <2>7, <2>8, <2>9, <2>10 DEF FramesFit
<1>4. QED
  BY <1>2, <1>3

LEMMA FitTail ==
  ASSUME NEW q \in Seq(Message), q # <<>>, NEW s \in Nat, NEW a, NEW due, NEW sv,
         FramesFit(q, s + 1, a, due, sv)
  PROVE  FramesFit(Tail(q), s, a, due, sv)
<1>1. /\ Cardinality(Stretch(Tail(q), s)) = Cardinality(Stretch(q, s + 1))
      /\ LastOne(Tail(q), s) <=> LastOne(q, s + 1)
      /\ \A p \in Stretch(Tail(q), s) : p + 1 \in Stretch(q, s + 1) /\ Tail(q)[p] = q[p + 1]
  BY StretchTail
<1>2. Unsent(Tail(q), s, sv) = Unsent(q, s + 1, sv)
  BY <1>1 DEF Unsent
<1>3. QED
  BY <1>1, <1>2 DEF FramesFit

LEMMA FitHeadRefusal ==
  ASSUME NEW q \in Seq(Message), q # <<>>, q[1].type = "refusal", NEW a, NEW due, NEW sv,
         FramesFit(q, 0, a, due, sv)
  PROVE  FramesFit(q, 1, a, due, sv)
<1>1. Stretch(q, 0) = Stretch(q, 1) /\ (LastOne(q, 0) <=> LastOne(q, 1))
  BY StretchHead
<1>2. Unsent(q, 0, sv) = Unsent(q, 1, sv)
  BY <1>1 DEF Unsent
<1>3. QED
  BY <1>1, <1>2 DEF FramesFit

(* A frame at the head is due to the acked capture, and one of its own.    *)
LEMMA FitHeadFrame ==
  ASSUME NEW q \in Seq(Message), q # <<>>, q[1].type = "frame", NEW a, NEW due, NEW sv \in ServerT,
         FramesFit(q, 0, a, due, sv)
  PROVE  /\ FramesFit(q, 1, a, due - 1, sv)
         /\ due \in Nat /\ due > 0
         /\ q[1].kind = a.kind /\ q[1].id = a.id % IdMod /\ q[1].cams \subseteq a.cams
<1>1. Stretch(q, 0) = Stretch(q, 1) \cup {1} /\ (LastOne(q, 0) <=> LastOne(q, 1))
      /\ 1 \notin Stretch(q, 1)
  BY StretchHead
<1>2. IsFiniteSet(Stretch(q, 1)) /\ Cardinality(Stretch(q, 1)) \in Nat
  BY StretchType
<1>3. Cardinality(Stretch(q, 0)) = Cardinality(Stretch(q, 1)) + 1
  BY <1>1, <1>2, FS_AddElement
<1>4. Unsent(q, 0, sv) = Unsent(q, 1, sv)
  BY <1>1 DEF Unsent
<1>5. Cardinality(Unsent(q, 1, sv)) \in Nat
  BY UnsentType, CamsFinite
<1>6. Cardinality(Stretch(q, 0)) + Cardinality(Unsent(q, 1, sv)) = due
  BY <1>4 DEF FramesFit
<1>7. /\ Cardinality(Stretch(q, 1)) + Cardinality(Unsent(q, 1, sv)) = due - 1
      /\ due \in Nat /\ due > 0
  <2>. DEFINE x == Cardinality(Stretch(q, 1))
              y == Cardinality(Unsent(q, 1, sv))
              z == Cardinality(Stretch(q, 0))
  <2>1. x \in Nat /\ y \in Nat /\ z = x + 1 /\ z + y = due
    BY <1>2, <1>3, <1>5, <1>6
  <2>. HIDE DEF x, y, z
  <2>2. x + y = due - 1 /\ due \in Nat /\ due > 0
    BY <2>1
  <2>3. QED
    BY <2>2 DEF x, y
<1>8. QED
  BY <1>1, <1>4, <1>7 DEF FramesFit

-----------------------------------------------------------------------------
(* The types and the link, action by action.                               *)
CallerT == [pc : {"idle", "decided", "noted", "send", "undo"}, kind : KindT, recorded : BOOLEAN]

LEMMA Typed ==
  ASSUME TypeOK
  PROVE  /\ connected \in BOOLEAN /\ up \in BOOLEAN /\ lost \in BOOLEAN
         /\ capture_requests \in Seq(KindT) /\ capture_acked \in BOOLEAN /\ capture_kind \in KindT
         /\ capture_id \in Nat /\ capture_entries \in SUBSET Cam
         /\ capture_received \in 0..Cardinality(capture_entries)
         /\ caller \in CallerT /\ net \in {"idle", "open", "close", "reset"}
         /\ toServer \in Seq(KindT) /\ toClient \in Seq(Message) /\ server \in ServerT
         /\ asked \in 0..MaxRequest /\ conns \in 0..MaxConn
BY DEF TypeOK, CallerT, ServerT

LEMMA CallerTypes ==
  ASSUME TypeOK, LinkInv, Uniform(capture_requests),
         \/ \E k \in Kind : decide(k)
         \/ CallerStep
  PROVE  TypeOK' /\ LinkInv'
<1>0. Kind \subseteq KindT /\ MaxRequest \in Nat /\ MaxConn \in Nat
  BY CaptureAssumption DEF KindT
<1>1. ASSUME NEW k \in Kind, decide(k)
      PROVE  TypeOK' /\ LinkInv'
  <2>1. caller' \in CallerT /\ asked' \in 0..MaxRequest
    BY <1>0, <1>1, Typed DEF decide, CallerT
  <2>2. UNCHANGED <<connected, capture, net, socket, server, lost>>
    BY <1>1 DEF decide
  <2>3. QED
    BY <2>1, <2>2 DEF TypeOK, LinkInv, CallerT, capture, socket
<1>2. CASE noteCaptureRequested
  <2>1. caller' \in CallerT /\ caller.kind \in KindT
    BY <1>2, Typed DEF noteCaptureRequested, CallerT
  <2>2. capture_requests' \in Seq(KindT)
    BY <1>2, <2>1, Typed, AppendProperties DEF noteCaptureRequested
  <2>3. QED
    BY <1>2, <2>1, <2>2 DEF noteCaptureRequested, TypeOK, LinkInv, CallerT, socket
<1>3. CASE sendCommandCheck
  <2>1. caller' \in CallerT
    BY <1>3, Typed DEF sendCommandCheck, CallerT
  <2>2. QED
    BY <1>3, <2>1 DEF sendCommandCheck, TypeOK, LinkInv, CallerT, capture, socket
<1>4. CASE sendCommandSend
  <2>1. caller' \in CallerT /\ caller.kind \in KindT
    <3>1. Idle \in CallerT /\ caller \in CallerT
      BY Typed DEF CallerT, Idle, KindT
    <3>2. caller' = Idle \/ caller' = [caller EXCEPT !.pc = "undo"]
      BY <1>4 DEF sendCommandSend
    <3>3. QED
      BY <3>1, <3>2 DEF CallerT
  <2>2. toServer' \in Seq(KindT) /\ lost' \in BOOLEAN /\ (~up => toServer' = toServer)
    BY <1>4, <2>1, Typed, AppendProperties DEF sendCommandSend
  <2>3. UNCHANGED <<connected, capture, net, up, toClient, conns, server, asked>>
    BY <1>4 DEF sendCommandSend
  <2>4. QED
    BY <2>1, <2>2, <2>3 DEF TypeOK, LinkInv, CallerT, capture
<1>5. CASE undoRequest
  <2>1. caller' \in CallerT
    BY <1>5, Typed DEF undoRequest, CallerT, Idle, KindT
  <2>2. capture_requests' \in Seq(KindT)
    BY <1>5, Typed, WithoutNewest DEF undoRequest, Reduced
  <2>3. QED
    BY <1>5, <2>1, <2>2 DEF undoRequest, TypeOK, LinkInv, CallerT, socket
<1>6. QED
  BY <1>1, <1>2, <1>3, <1>4, <1>5 DEF CallerStep

LEMMA ServerTypes ==
  ASSUME TypeOK, LinkInv, ServerStep
  PROVE  TypeOK' /\ LinkInv'
<1>1. CASE serverAccepts
  <2>1. toServer' \in Seq(KindT) /\ Head(toServer) \in KindT
    BY <1>1, Typed, HeadTailProperties DEF serverAccepts
  <2>2. server' \in ServerT /\ server'.state = "taking" /\ server'.left = {}
    BY <1>1, <2>1, Typed DEF serverAccepts, ServerT
  <2>3. QED
    BY <1>1, <2>1, <2>2 DEF serverAccepts, TypeOK, LinkInv, ServerT, capture
<1>2. CASE serverRefuses
  <2>1. toServer' \in Seq(KindT) /\ Head(toServer) \in KindT
    BY <1>2, Typed, HeadTailProperties DEF serverRefuses
  <2>2. [type |-> "refusal", kind |-> Head(toServer), id |-> 0, cams |-> {}] \in Message
    BY <2>1 DEF Message
  <2>3. toClient' \in Seq(Message)
    BY <1>2, <2>2, Typed, AppendProperties DEF serverRefuses
  <2>4. QED
    BY <1>2, <2>1, <2>3 DEF serverRefuses, TypeOK, LinkInv, capture
<1>3. ASSUME NEW S \in SUBSET Cam, serverResult(S)
      PROVE  TypeOK' /\ LinkInv'
  <2>1. [type |-> "result", kind |-> server.kind, id |-> server.id, cams |-> S] \in Message
    BY <1>3, Typed DEF Message, ServerT
  <2>2. toClient' \in Seq(Message)
    BY <1>3, <2>1, Typed, AppendProperties DEF serverResult
  <2>3. server' \in ServerT /\ (server'.state = "sending" <=> server'.left # {})
    BY <1>3, Typed DEF serverResult, ServerT
  <2>4. QED
    BY <1>3, <2>2, <2>3 DEF serverResult, TypeOK, LinkInv, ServerT, capture
<1>4. ASSUME NEW c \in Cam, serverFrame(c)
      PROVE  TypeOK' /\ LinkInv'
  <2>1. server.id \in Nat /\ server.kind \in KindT /\ IdMod \in Nat \ {0}
    BY Typed, CaptureAssumption DEF ServerT
  <2>2. server.id % IdMod \in Nat
    BY <2>1
  <2>3. [type |-> "frame", kind |-> server.kind, id |-> server.id % IdMod, cams |-> {c}]
          \in Message
    BY <1>4, <2>1, <2>2 DEF Message
  <2>4. toClient' \in Seq(Message)
    BY <1>4, <2>3, Typed, AppendProperties DEF serverFrame
  <2>5. server' \in ServerT /\ (server'.state = "sending" <=> server'.left # {})
    <3>1. server' = [server EXCEPT !.left = server.left \ {c},
                                   !.state = IF server.left = {c} THEN "free" ELSE "sending"]
      BY <1>4, Typed DEF serverFrame, ServerT
    <3>2. server.left \ {c} \in SUBSET Cam /\ (server.left \ {c} = {} <=> server.left = {c})
      BY <1>4, Typed DEF serverFrame, ServerT
    <3>3. QED
      BY <3>1, <3>2, Typed DEF ServerT
  <2>6. QED
    BY <1>4, <2>4, <2>5 DEF serverFrame, TypeOK, LinkInv, ServerT, capture
<1>5. QED
  BY <1>1, <1>2, <1>3, <1>4 DEF ServerStep

LEMMA NetTypes ==
  ASSUME TypeOK, LinkInv, RequestInv, FrameInv, socketOpens \/ socketDrops \/ NetStep
  PROVE  TypeOK' /\ LinkInv'
<1>0. MaxConn \in Nat /\ Uniform(capture_requests)
  BY CaptureAssumption DEF RequestInv
<1>1. CASE socketOpens
  <2>1. conns' \in 0..MaxConn
    BY <1>0, <1>1, Typed DEF socketOpens
  <2>2. QED
    BY <1>1, <2>1 DEF socketOpens, TypeOK, LinkInv, capture
<1>2. CASE socketDrops
  <2>1. server' \in ServerT /\ server'.state = "free" /\ server'.left = {}
    BY <1>2, Typed DEF socketDrops, ServerT, Free, KindT
  <2>2. <<>> \in Seq(KindT) /\ <<>> \in Seq(Message)
    OBVIOUS
  <2>3. QED
    BY <1>2, <2>1, <2>2 DEF socketDrops, TypeOK, LinkInv, ServerT, capture
<1>3. CASE storeConnected
  BY <1>3 DEF storeConnected, TypeOK, LinkInv, capture, socket
<1>4. CASE resetCaptures
  <2>1. caller' \in CallerT
    BY <1>4, Typed DEF resetCaptures, CallerT
  <2>2. <<>> \in Seq(KindT) /\ 0 \in 0..Cardinality({})
    BY FS_EmptySet
  <2>3. lost' \in BOOLEAN
    BY <1>4 DEF resetCaptures, Outstanding
  <2>4. /\ capture_requests' = <<>> /\ capture_acked' = FALSE /\ capture_entries' = {}
        /\ capture_received' = 0 /\ UNCHANGED <<capture_kind, capture_id>>
    BY <1>4 DEF resetCaptures, clearCaptures
  <2>5. QED
    BY <1>4, <2>1, <2>2, <2>3, <2>4 DEF resetCaptures, TypeOK, LinkInv, CallerT, socket
<1>5. ASSUME NEW type, receives(type)
      PROVE  /\ toClient' \in Seq(Message) /\ toClient # <<>> /\ Head(toClient) \in Message
             /\ UNCHANGED <<connected, caller, net, up, toServer, conns, server, asked, lost>>
             /\ LinkInv'
  <2>1. /\ toClient' = Tail(toClient) /\ toClient # <<>>
        /\ UNCHANGED <<connected, caller, net, up, toServer, conns, server, asked, lost>> /\ up
    BY <1>5 DEF receives
  <2>2. toClient' \in Seq(Message) /\ Head(toClient) \in Message
    BY <2>1, Typed, HeadTailProperties
  <2>3. QED
    BY <2>1, <2>2 DEF LinkInv
<1>6. CASE handleResult
  <2>. DEFINE m == Head(toClient)
  <2>1. receives("result") /\ noteCaptureAcked(m.kind, m.id, m.cams)
    BY <1>6 DEF handleResult
  <2>2. m.kind \in KindT /\ m.id \in Nat /\ m.cams \in SUBSET Cam
    BY <1>5, <2>1 DEF Message
  <2>. HIDE DEF m
  <2>3. 0 \in 0..Cardinality(m.cams)
    BY <2>2, CamsFinite
  <2>4. capture_requests' \in Seq(KindT)
    <3>1. capture_requests' = withoutOldest(capture_requests, m.kind)
      BY <2>1 DEF noteCaptureAcked, withoutOldest, SelectInSeq
    <3>2. QED
      BY <1>0, <3>1, Typed, WithoutOldestOfKind DEF Reduced
  <2>5. capture_acked' = TRUE /\ capture_kind' = m.kind /\ capture_id' = m.id
        /\ capture_entries' = m.cams /\ capture_received' = 0
    BY <2>1 DEF noteCaptureAcked
  <2>6. /\ toClient' \in Seq(Message) /\ LinkInv'
        /\ UNCHANGED <<connected, caller, net, up, toServer, conns, server, asked, lost>>
    BY <1>5, <2>1
  <2>7. QED
    BY <2>2, <2>3, <2>4, <2>5, <2>6 DEF TypeOK
<1>7. CASE handleError
  <2>1. receives("refusal") /\ refusedOldest
        /\ UNCHANGED <<capture_acked, capture_kind, capture_id, capture_entries, capture_received>>
    BY <1>7 DEF handleError
  <2>2. capture_requests' \in Seq(KindT)
    BY <2>1, Typed, HeadTailProperties DEF refusedOldest
  <2>3. /\ toClient' \in Seq(Message) /\ LinkInv'
        /\ UNCHANGED <<connected, caller, net, up, toServer, conns, server, asked, lost>>
    BY <1>5, <2>1
  <2>4. QED
    BY <2>1, <2>2, <2>3 DEF TypeOK
<1>8. CASE onAssembled
  <2>1. /\ receives("frame")
        /\ capture_received' = IF matched(Head(toClient)) THEN capture_received + 1
                               ELSE capture_received
        /\ UNCHANGED <<capture_requests, capture_acked, capture_kind, capture_id, capture_entries>>
    BY <1>8 DEF onAssembled
  <2>2. Cardinality(capture_entries) \in Nat
    BY Typed, CamsFinite
  <2>3. capture_received' \in 0..Cardinality(capture_entries)
    BY <2>1, <2>2, Typed DEF matched
  <2>4. /\ toClient' \in Seq(Message) /\ LinkInv'
        /\ UNCHANGED <<connected, caller, net, up, toServer, conns, server, asked, lost>>
    BY <1>5, <2>1
  <2>5. QED
    BY <2>1, <2>3, <2>4 DEF TypeOK
<1>9. QED
  BY <1>1, <1>2, <1>3, <1>4, <1>6, <1>7, <1>8 DEF NetStep

-----------------------------------------------------------------------------
(* The record of requests, action by action.                               *)
LEMMA AwaitedType ==
  ASSUME TypeOK, NEW k
  PROVE  /\ WithCaller(k) \in 0..1 /\ OnTheWay(k) \in Nat /\ WithServer(k) \in 0..1
         /\ Answered(k) \in Nat /\ Awaited(k) \in Nat /\ OnRecord(k) \in Nat
<1>1. WithCaller(k) \in 0..1 /\ WithServer(k) \in 0..1
  BY DEF WithCaller, WithServer, One
<1>2. OnTheWay(k) \in Nat /\ Answered(k) \in Nat
  BY Typed, HitsType DEF OnTheWay, Answered
<1>3. OnRecord(k) \in Nat
  BY Typed, RecordedType DEF OnRecord
<1>4. QED
  BY <1>1, <1>2, <1>3 DEF Awaited

(* Nothing of the request's way changes.                                   *)
LEMMA AwaitedSame ==
  ASSUME UNCHANGED <<toServer, toClient, server>>, NEW k, WithCaller(k)' = WithCaller(k)
  PROVE  Awaited(k)' = Awaited(k)
BY DEF Awaited, OnTheWay, WithServer, Answered

LEMMA DecideRequests ==
  ASSUME TypeOK, RequestInv, NEW kind \in Kind, decide(kind)
  PROVE  RequestInv'
<1>1. /\ caller.pc = "idle" /\ caller' = [pc |-> "decided", kind |-> kind, recorded |-> FALSE]
      /\ UNCHANGED <<capture_requests, net, up, lost, toServer, toClient, server>>
      /\ \/ ~InProgress
         \/ {capture_requests[i] : i \in DOMAIN capture_requests}
              \cup (IF receiving THEN {capture_kind} ELSE {}) = {kind}
  BY DEF decide, capture, socket
<1>2. \A i \in 1..Len(capture_requests) : capture_requests[i] = kind
  <2>1. DOMAIN capture_requests = 1..Len(capture_requests)
    BY Typed, LenProperties
  <2>2. CASE ~InProgress
    BY <2>2 DEF InProgress
  <2>3. CASE {capture_requests[i] : i \in DOMAIN capture_requests}
               \cup (IF receiving THEN {capture_kind} ELSE {}) = {kind}
    BY <2>1, <2>3
  <2>4. QED
    BY <1>1, <2>2, <2>3
<1>3. \A k : WithCaller(k)' = WithCaller(k)
  BY <1>1 DEF WithCaller, One
<1>4. \A k : Awaited(k)' = Awaited(k) /\ OnRecord(k)' = OnRecord(k)
  BY <1>1, <1>3, AwaitedSame DEF OnRecord
<1>5. caller'.pc = "decided" /\ caller'.kind = kind
  BY <1>1
<1>6. QED
  BY <1>1, <1>2, <1>4, <1>5 DEF RequestInv, Uniform

LEMMA NoteRequests ==
  ASSUME TypeOK, RequestInv, noteCaptureRequested
  PROVE  RequestInv'
<1>. DEFINE s == capture_requests
            kd == caller.kind
            w == Append(s, kd)
<1>1. /\ caller.pc = "decided" /\ capture_requests' = w
      /\ caller' = [caller EXCEPT !.pc = "noted", !.recorded = TRUE]
      /\ UNCHANGED <<net, up, lost, toServer, toClient, server>>
  BY DEF noteCaptureRequested, socket
<1>2. s \in Seq(KindT) /\ caller \in CallerT /\ kd \in KindT /\ Len(s) \in Nat
      /\ (s = <<>> <=> Len(s) = 0)
  BY Typed, LenProperties, EmptySeq DEF CallerT
<1>3. caller'.pc = "noted" /\ caller'.recorded = TRUE /\ caller'.kind = kd
  BY <1>1, <1>2 DEF CallerT
<1>4. /\ w \in Seq(KindT) /\ Len(w) = Len(s) + 1 /\ w # <<>> /\ w[Len(s) + 1] = kd
      /\ \A i \in 1..Len(s) : w[i] = s[i]
  BY <1>2, AppendProperties
<1>5. \A i \in 1..Len(s) : s[i] = kd
  BY <1>1 DEF RequestInv
<1>. HIDE DEF w
<1>6. \A i \in 1..Len(w) : w[i] = kd
  <2>1. TAKE i \in 1..Len(w)
  <2>2. i \in 1..Len(s) \/ i = Len(s) + 1
    BY <1>2, <1>4
  <2>3. QED
    BY <1>4, <1>5, <2>2
<1>7. w[1] = kd /\ (s # <<>> => s[1] = kd)
  BY <1>2, <1>4, <1>5, <1>6
<1>8. ASSUME NEW k \in KindT
      PROVE  (net = "idle" => OnRecord(k)' <= Awaited(k)')
             /\ (~lost /\ (up \/ net = "idle") => Awaited(k)' <= OnRecord(k)')
  <2>1. OnRecord(k)' = Recorded(w, k) /\ OnRecord(k) = Recorded(s, k)
    BY <1>1 DEF OnRecord
  <2>2. Recorded(w, k) = Recorded(s, k) + One(k = kd)
    <3>1. CASE k = kd
      <4>1. Recorded(w, k) = Len(s) + 1 /\ Recorded(s, k) = Len(s)
        BY <1>2, <1>4, <1>7, <3>1 DEF Recorded
      <4>2. QED
        BY <3>1, <4>1 DEF One
    <3>2. CASE k # kd
      <4>1. Recorded(w, k) = 0 /\ Recorded(s, k) = 0
        BY <1>4, <1>7, <3>2 DEF Recorded
      <4>2. QED
        BY <3>2, <4>1 DEF One
    <3>3. QED
      BY <3>1, <3>2
  <2>3. WithCaller(k)' = One(k = kd) /\ WithCaller(k) = 0
    BY <1>1, <1>3 DEF WithCaller, One
  <2>4. OnTheWay(k)' = OnTheWay(k) /\ WithServer(k)' = WithServer(k) /\ Answered(k)' = Answered(k)
    BY <1>1 DEF OnTheWay, WithServer, Answered
  <2>5. Awaited(k)' = Awaited(k) + One(k = kd)
    <3>1. One(k = kd) \in Nat
      BY DEF One
    <3>2. QED
      BY <2>3, <2>4, <3>1, AwaitedType DEF Awaited
  <2>6. One(k = kd) \in Nat
    BY DEF One
  <2>7. QED
    BY <2>1, <2>2, <2>5, <2>6, AwaitedType DEF RequestInv
<1>9. QED
  BY <1>1, <1>3, <1>6, <1>7, <1>8 DEF RequestInv, Uniform

LEMMA CheckRequests ==
  ASSUME TypeOK, RequestInv, sendCommandCheck
  PROVE  RequestInv'
<1>1. /\ caller.pc = "noted" /\ caller' = [caller EXCEPT !.pc = IF connected THEN "send" ELSE "undo"]
      /\ UNCHANGED <<capture_requests, net, up, lost, toServer, toClient, server>>
  BY DEF sendCommandCheck, capture, socket
<1>2. caller'.pc \in {"send", "undo"} /\ caller'.recorded = caller.recorded
      /\ caller'.kind = caller.kind
  BY <1>1, Typed DEF CallerT
<1>3. \A k : WithCaller(k)' = WithCaller(k)
  BY <1>1, <1>2 DEF WithCaller
<1>4. \A k : Awaited(k)' = Awaited(k) /\ OnRecord(k)' = OnRecord(k)
  BY <1>1, <1>3, AwaitedSame DEF OnRecord
<1>5. QED
  BY <1>1, <1>2, <1>4 DEF RequestInv, Uniform

LEMMA SendRequests ==
  ASSUME TypeOK, RequestInv, sendCommandSend
  PROVE  RequestInv'
<1>1. caller.pc = "send" /\ caller \in CallerT /\ caller.kind \in KindT
      /\ UNCHANGED <<capture_requests, net, up, toClient, server>>
  BY Typed DEF sendCommandSend, CallerT, capture
<1>2. CASE ~up
  <2>1. caller' = [caller EXCEPT !.pc = "undo"] /\ UNCHANGED <<toServer, lost>>
    BY <1>2 DEF sendCommandSend
  <2>2. caller'.pc = "undo" /\ caller'.recorded = caller.recorded /\ caller'.kind = caller.kind
    BY <1>1, <2>1 DEF CallerT
  <2>3. \A k : WithCaller(k)' = WithCaller(k)
    BY <1>1, <2>2 DEF WithCaller
  <2>4. \A k : Awaited(k)' = Awaited(k) /\ OnRecord(k)' = OnRecord(k)
    BY <1>1, <2>1, <2>3, AwaitedSame DEF OnRecord
  <2>5. QED
    BY <1>1, <2>1, <2>2, <2>4 DEF RequestInv, Uniform
<1>3. CASE up
  <2>1. /\ toServer' = Append(toServer, caller.kind) /\ caller' = Idle
        /\ lost' <=> lost \/ ~caller.recorded
    BY <1>3 DEF sendCommandSend
  <2>2. caller'.pc = "idle"
    BY <2>1 DEF Idle
  <2>3. ASSUME NEW k \in KindT
        PROVE  (net = "idle" => OnRecord(k)' <= Awaited(k)')
               /\ (~lost' => Awaited(k)' <= OnRecord(k)')
    <3>1. OnTheWay(k)' = OnTheWay(k) + One(caller.kind \in {k})
      BY <1>1, <2>1, Typed, HitsAppend DEF OnTheWay
    <3>2. WithCaller(k)' = 0 /\ WithCaller(k) = One(caller.recorded /\ caller.kind = k)
      BY <1>1, <2>2 DEF WithCaller, One
    <3>3. WithServer(k)' = WithServer(k) /\ Answered(k)' = Answered(k)
      BY <1>1 DEF WithServer, Answered
    <3>4. One(caller.kind \in {k}) \in 0..1
          /\ (caller.recorded => One(caller.kind \in {k}) = One(caller.recorded /\ caller.kind = k))
          /\ One(caller.recorded /\ caller.kind = k) <= One(caller.kind \in {k})
      BY DEF One
    <3>5. Awaited(k) <= Awaited(k)' /\ (caller.recorded => Awaited(k)' = Awaited(k))
      BY <3>1, <3>2, <3>3, <3>4, AwaitedType DEF Awaited
    <3>6. OnRecord(k)' = OnRecord(k)
      BY <1>1 DEF OnRecord
    <3>7. Awaited(k)' \in Nat
      BY <3>1, <3>2, <3>3, <3>4, AwaitedType DEF Awaited
    <3>8. QED
      BY <1>3, <2>1, <3>5, <3>6, <3>7, AwaitedType DEF RequestInv
  <2>4. QED
    BY <1>1, <2>2, <2>3 DEF RequestInv, Uniform
<1>4. QED
  BY <1>2, <1>3, Typed

LEMMA UndoRequests ==
  ASSUME TypeOK, RequestInv, undoRequest
  PROVE  RequestInv'
<1>. DEFINE s == capture_requests
            kd == caller.kind
            w == withoutNewest(s, kd)
<1>1. /\ caller.pc = "undo" /\ capture_requests' = w /\ caller' = Idle
      /\ UNCHANGED <<net, up, lost, toServer, toClient, server>>
  BY DEF undoRequest, socket
<1>2. s \in Seq(KindT) /\ Uniform(s) /\ caller \in CallerT /\ kd \in KindT /\ caller'.pc = "idle"
      /\ caller.recorded \in BOOLEAN
  BY <1>1, Typed DEF RequestInv, CallerT, Idle
<1>3. IF s # <<>> /\ s[1] = kd THEN Reduced(w, s) ELSE w = s
  BY <1>2, WithoutNewest
<1>4. s # <<>> => s[1] = kd
  <2>1. s # <<>> => 1 \in 1..Len(s)
    BY <1>2, EmptySeq
  <2>2. QED
    BY <1>1, <2>1 DEF RequestInv
<1>. HIDE DEF w
<1>5. Uniform(w) /\ w \in Seq(KindT)
  BY <1>2, <1>3, ReducedFacts
<1>6. ASSUME NEW k \in KindT
      PROVE  (net = "idle" => OnRecord(k)' <= Awaited(k)')
             /\ (~lost /\ (up \/ net = "idle") => Awaited(k)' <= OnRecord(k)')
  <2>1. OnRecord(k)' = Recorded(w, k) /\ OnRecord(k) = Recorded(s, k)
    BY <1>1 DEF OnRecord
  <2>2. WithCaller(k)' = 0 /\ WithCaller(k) = One(caller.recorded /\ kd = k)
    BY <1>1, <1>2 DEF WithCaller, One
  <2>3. OnTheWay(k)' = OnTheWay(k) /\ WithServer(k)' = WithServer(k) /\ Answered(k)' = Answered(k)
    BY <1>1 DEF OnTheWay, WithServer, Answered
  <2>4. One(caller.recorded /\ kd = k) \in 0..1
    BY DEF One
  <2>5. Awaited(k)' = Awaited(k) - One(caller.recorded /\ kd = k) /\ Awaited(k)' \in Nat
    BY <2>2, <2>3, <2>4, AwaitedType DEF Awaited
  <2>6. (net = "idle" => OnRecord(k) <= Awaited(k))
        /\ (~lost /\ (up \/ net = "idle") => Awaited(k) <= OnRecord(k))
    BY DEF RequestInv
  <2>7. CASE s # <<>>
    <3>1. Recorded(w, k) = (IF kd = k THEN Recorded(s, k) - 1 ELSE Recorded(s, k))
      BY <1>2, <1>3, <1>4, <2>7, ReducedFacts
    <3>2. caller.recorded
      BY <1>1, <2>7 DEF RequestInv
    <3>3. One(caller.recorded /\ kd = k) = IF kd = k THEN 1 ELSE 0
      BY <3>2 DEF One
    <3>4. QED
      BY <2>1, <2>5, <2>6, <3>1, <3>3, AwaitedType
  <2>8. CASE s = <<>>
    <3>1. OnRecord(k)' = 0 /\ OnRecord(k) = 0
      BY <1>2, <1>3, <2>1, <2>8, RecordedType
    <3>2. QED
      BY <2>4, <2>5, <2>6, <3>1, AwaitedType
  <2>9. QED
    BY <2>7, <2>8
<1>7. QED
  BY <1>1, <1>2, <1>5, <1>6 DEF RequestInv

(* The server and the socket leave the record alone.                       *)
LEMMA ServerRequests ==
  ASSUME TypeOK, LinkInv, RequestInv, ServerStep
  PROVE  RequestInv'
<1>1. /\ UNCHANGED <<capture_requests, caller, net, up, lost>>
  BY DEF ServerStep, serverAccepts, serverRefuses, serverResult, serverFrame, capture
<1>2. \A k : WithCaller(k)' = WithCaller(k) /\ OnRecord(k)' = OnRecord(k)
  BY <1>1 DEF WithCaller, OnRecord
<1>3. SUFFICES ASSUME NEW k \in KindT
               PROVE  Awaited(k)' = Awaited(k)
  BY <1>1, <1>2 DEF RequestInv, Uniform
<1>4. CASE serverAccepts
  <2>1. /\ toServer # <<>> /\ toServer' = Tail(toServer) /\ server.state = "free"
        /\ server' = [state |-> "taking", kind |-> Head(toServer),
                      id |-> server.id + 1, left |-> {}]
        /\ UNCHANGED toClient
    BY <1>4 DEF serverAccepts
  <2>2. OnTheWay(k) = OnTheWay(k)' + One(Head(toServer) \in {k})
    BY <2>1, Typed, HitsTail DEF OnTheWay
  <2>3. WithServer(k) = 0 /\ WithServer(k)' = One(Head(toServer) \in {k})
    BY <2>1 DEF WithServer, One
  <2>4. Answered(k)' = Answered(k)
    BY <2>1 DEF Answered
  <2>5. OnTheWay(k)' \in Nat /\ One(Head(toServer) \in {k}) \in Nat
    <3>1. Tail(toServer) \in Seq(KindT)
      BY <2>1, Typed, HeadTailProperties
    <3>2. QED
      BY <2>1, <3>1, HitsType DEF OnTheWay, One
  <2>6. QED
    BY <1>2, <2>2, <2>3, <2>4, <2>5, AwaitedType DEF Awaited
<1>5. CASE serverRefuses
  <2>. DEFINE m == [type |-> "refusal", kind |-> Head(toServer), id |-> 0, cams |-> {}]
  <2>1. /\ toServer # <<>> /\ toServer' = Tail(toServer) /\ toClient' = Append(toClient, m)
        /\ UNCHANGED server
    BY <1>5 DEF serverRefuses
  <2>2. Head(toServer) \in KindT /\ Tail(toServer) \in Seq(KindT)
    BY <2>1, Typed, HeadTailProperties
  <2>3. m \in Message /\ m.type # "frame" /\ m.kind = Head(toServer)
    BY <2>2 DEF Message
  <2>. HIDE DEF m
  <2>4. m \in AnswerOf(k) <=> Head(toServer) \in {k}
    BY <2>3 DEF AnswerOf
  <2>5. Answered(k)' = Answered(k) + One(m \in AnswerOf(k))
    BY <2>1, <2>3, Typed, HitsAppend DEF Answered
  <2>6. OnTheWay(k) = OnTheWay(k)' + One(Head(toServer) \in {k})
    BY <2>1, Typed, HitsTail DEF OnTheWay
  <2>7. One(m \in AnswerOf(k)) = One(Head(toServer) \in {k}) /\ One(Head(toServer) \in {k}) \in Nat
    BY <2>4 DEF One
  <2>8. OnTheWay(k)' \in Nat
    BY <2>1, <2>2, HitsType DEF OnTheWay
  <2>9. WithServer(k)' = WithServer(k)
    BY <2>1 DEF WithServer
  <2>10. QED
    BY <1>2, <2>5, <2>6, <2>7, <2>8, <2>9, AwaitedType DEF Awaited
<1>6. ASSUME NEW S \in SUBSET Cam, serverResult(S)
      PROVE  Awaited(k)' = Awaited(k)
  <2>. DEFINE m == [type |-> "result", kind |-> server.kind, id |-> server.id, cams |-> S]
  <2>1. /\ server.state = "taking" /\ toClient' = Append(toClient, m) /\ UNCHANGED toServer
        /\ server' = [server EXCEPT !.state = IF S = {} THEN "free" ELSE "sending", !.left = S]
    BY <1>6 DEF serverResult
  <2>2. m \in Message /\ m.type # "frame" /\ m.kind = server.kind
    BY <1>6, Typed DEF Message, ServerT
  <2>. HIDE DEF m
  <2>3. m \in AnswerOf(k) <=> server.kind = k
    BY <2>2 DEF AnswerOf
  <2>4. Answered(k)' = Answered(k) + One(m \in AnswerOf(k))
    BY <2>1, <2>2, Typed, HitsAppend DEF Answered
  <2>5. server'.state # "taking"
    BY <2>1, Typed DEF ServerT
  <2>6. WithServer(k) = One(m \in AnswerOf(k)) /\ WithServer(k)' = 0
    BY <2>1, <2>3, <2>5 DEF WithServer, One
  <2>7. OnTheWay(k)' = OnTheWay(k)
    BY <2>1 DEF OnTheWay
  <2>8. QED
    BY <1>2, <2>4, <2>6, <2>7, AwaitedType DEF Awaited
<1>7. ASSUME NEW c \in Cam, serverFrame(c)
      PROVE  Awaited(k)' = Awaited(k)
  <2>. DEFINE m == [type |-> "frame", kind |-> server.kind, id |-> server.id % IdMod, cams |-> {c}]
  <2>1. /\ server.state = "sending" /\ toClient' = Append(toClient, m) /\ UNCHANGED toServer
        /\ server' = [server EXCEPT !.left = @ \ {c},
                                    !.state = IF server.left = {c} THEN "free" ELSE @]
    BY <1>7 DEF serverFrame
  <2>2. m \in Message /\ m.type = "frame"
    <3>1. server.id \in Nat /\ server.kind \in KindT /\ IdMod \in Nat \ {0}
      BY Typed, CaptureAssumption DEF ServerT
    <3>2. server.id % IdMod \in Nat
      BY <3>1
    <3>3. QED
      BY <1>7, <3>1, <3>2 DEF Message
  <2>. HIDE DEF m
  <2>3. m \notin AnswerOf(k)
    BY <2>2 DEF AnswerOf
  <2>4. Answered(k)' = Answered(k) + One(m \in AnswerOf(k)) /\ One(m \in AnswerOf(k)) = 0
    BY <2>1, <2>2, <2>3, Typed, HitsAppend DEF Answered, One
  <2>5. server'.state # "taking"
    BY <2>1, Typed DEF ServerT
  <2>6. WithServer(k) = 0 /\ WithServer(k)' = 0
    BY <2>1, <2>5 DEF WithServer, One
  <2>7. OnTheWay(k)' = OnTheWay(k)
    BY <2>1 DEF OnTheWay
  <2>8. QED
    BY <1>2, <2>4, <2>6, <2>7, AwaitedType DEF Awaited
<1>8. QED
  BY <1>4, <1>5, <1>6, <1>7 DEF ServerStep

LEMMA SocketRequests ==
  ASSUME TypeOK, LinkInv, RequestInv, socketOpens \/ socketDrops \/ storeConnected
  PROVE  RequestInv'
<1>1. CASE socketOpens
  <2>1. /\ ~up /\ net = "idle" /\ up' = TRUE /\ net' = "open"
        /\ UNCHANGED <<capture_requests, caller, lost, toServer, toClient, server>>
    BY <1>1 DEF socketOpens, capture
  <2>2. \A k : Awaited(k)' = Awaited(k) /\ OnRecord(k)' = OnRecord(k)
    BY <2>1, AwaitedSame DEF OnRecord, WithCaller
  <2>3. QED
    BY <2>1, <2>2 DEF RequestInv, Uniform
<1>2. CASE socketDrops
  <2>1. ~up' /\ net' = "close" /\ UNCHANGED <<capture_requests, caller>>
    BY <1>2 DEF socketDrops, capture
  <2>2. QED
    BY <2>1 DEF RequestInv, Uniform
<1>3. CASE storeConnected
  <2>1. /\ net \in {"open", "close"} /\ net' = "reset"
        /\ UNCHANGED <<capture_requests, caller, lost, up, toServer, toClient, server>>
    BY <1>3 DEF storeConnected, capture, socket
  <2>2. \A k : Awaited(k)' = Awaited(k) /\ OnRecord(k)' = OnRecord(k)
    BY <2>1, AwaitedSame DEF OnRecord, WithCaller
  <2>3. QED
    BY <2>1, <2>2 DEF RequestInv, Uniform
<1>4. QED
  BY <1>1, <1>2, <1>3

LEMMA ResetRequests ==
  ASSUME TypeOK, LinkInv, RequestInv, resetCaptures
  PROVE  RequestInv'
<1>1. /\ net = "reset" /\ net' = "idle" /\ capture_requests' = <<>> /\ (lost' <=> Outstanding)
      /\ caller' = [caller EXCEPT !.recorded = FALSE]
      /\ UNCHANGED <<up, toServer, toClient, server>>
  BY DEF resetCaptures, clearCaptures, socket
<1>2. caller'.recorded = FALSE
  BY <1>1, Typed DEF CallerT
<1>3. ASSUME NEW k \in KindT
      PROVE  OnRecord(k)' <= Awaited(k)' /\ (~lost' => Awaited(k)' <= OnRecord(k)')
  <2>1. OnRecord(k)' = 0
    BY <1>1 DEF OnRecord, Recorded
  <2>2. WithCaller(k)' = 0
    BY <1>2 DEF WithCaller, One
  <2>3. OnTheWay(k)' = OnTheWay(k) /\ WithServer(k)' = WithServer(k) /\ Answered(k)' = Answered(k)
    BY <1>1 DEF OnTheWay, WithServer, Answered
  <2>4. ~lost' => OnTheWay(k) = 0 /\ WithServer(k) = 0 /\ Answered(k) = 0
    <3>1. SUFFICES ASSUME toServer = <<>>, server.state = "free", toClient = <<>>
                   PROVE  OnTheWay(k) = 0 /\ WithServer(k) = 0 /\ Answered(k) = 0
      BY <1>1 DEF Outstanding
    <3>2. QED
      BY <3>1, Typed, HitsType DEF OnTheWay, WithServer, Answered, One
  <2>5. QED
    BY <2>1, <2>2, <2>3, <2>4, AwaitedType DEF Awaited
<1>4. Len(capture_requests') = 0
  BY <1>1
<1>5. Uniform(capture_requests)' /\ \A i \in 1..Len(capture_requests') : FALSE
  BY <1>4 DEF Uniform
<1>6. QED
  BY <1>1, <1>3, <1>5 DEF RequestInv

(* A message is taken from the socket.                                     *)
LEMMA Received ==
  ASSUME TypeOK, NEW type, receives(type)
  PROVE  /\ net = "idle" /\ up /\ toClient # <<>> /\ Head(toClient) \in Message
         /\ Head(toClient).type = type /\ Head(toClient) = toClient[1]
         /\ toClient' = Tail(toClient) /\ toClient' \in Seq(Message)
         /\ UNCHANGED <<connected, caller, net, up, toServer, conns, server, asked, lost>>
         /\ \A k : Awaited(k) = Awaited(k)' + One(Head(toClient) \in AnswerOf(k))
         /\ \A k : Awaited(k)' \in Nat
<1>1. /\ net = "idle" /\ up /\ toClient # <<>> /\ Head(toClient).type = type
      /\ toClient' = Tail(toClient)
      /\ UNCHANGED <<connected, caller, net, up, toServer, conns, server, asked, lost>>
  BY DEF receives
<1>2. Head(toClient) \in Message /\ Tail(toClient) \in Seq(Message)
  BY <1>1, Typed, HeadTailProperties
<1>3. Head(toClient) = toClient[1]
  BY <1>1, Typed
<1>4. ASSUME NEW k
      PROVE  Awaited(k) = Awaited(k)' + One(Head(toClient) \in AnswerOf(k)) /\ Awaited(k)' \in Nat
  <2>1. WithCaller(k)' = WithCaller(k) /\ OnTheWay(k)' = OnTheWay(k) /\ WithServer(k)' = WithServer(k)
    BY <1>1 DEF WithCaller, OnTheWay, WithServer
  <2>2. Answered(k) = Answered(k)' + One(Head(toClient) \in AnswerOf(k))
    BY <1>1, Typed, HitsTail DEF Answered
  <2>3. Answered(k)' \in Nat /\ One(Head(toClient) \in AnswerOf(k)) \in Nat
    BY <1>1, <1>2, HitsType DEF Answered, One
  <2>4. QED
    BY <2>1, <2>2, <2>3, AwaitedType DEF Awaited
<1>5. QED
  BY <1>1, <1>2, <1>3, <1>4

LEMMA ResultRequests ==
  ASSUME TypeOK, RequestInv, handleResult
  PROVE  RequestInv'
<1>. DEFINE m == Head(toClient)
            s == capture_requests
            w == withoutOldest(s, m.kind)
<1>1. receives("result") /\ noteCaptureAcked(m.kind, m.id, m.cams)
  BY DEF handleResult
<1>2. /\ net = "idle" /\ up /\ m \in Message /\ m.type = "result"
      /\ UNCHANGED <<caller, net, up, lost>>
      /\ \A k : Awaited(k) = Awaited(k)' + One(m \in AnswerOf(k)) /\ Awaited(k)' \in Nat
  BY <1>1, Received
<1>3. capture_requests' = w
  BY <1>1 DEF noteCaptureAcked, withoutOldest, SelectInSeq
<1>. HIDE DEF m
<1>4. s \in Seq(KindT) /\ Uniform(s)
  BY Typed DEF RequestInv
<1>5. IF s # <<>> /\ s[1] = m.kind THEN Reduced(w, s) ELSE w = s
  BY <1>4, WithoutOldestOfKind
<1>. HIDE DEF w
<1>6. /\ Uniform(w) /\ (s = <<>> => w = <<>>)
      /\ \A x : (\A i \in 1..Len(s) : s[i] = x) => (\A i \in 1..Len(w) : w[i] = x)
  BY <1>4, <1>5, ReducedFacts
<1>7. ASSUME NEW k \in KindT
      PROVE  OnRecord(k)' <= Awaited(k)' /\ (~lost => Awaited(k)' <= OnRecord(k)')
  <2>1. OnRecord(k)' = Recorded(w, k) /\ OnRecord(k) = Recorded(s, k)
    BY <1>3 DEF OnRecord
  <2>2. OnRecord(k) <= Awaited(k) /\ (~lost => Awaited(k) <= OnRecord(k))
    BY <1>2 DEF RequestInv
  <2>3. One(m \in AnswerOf(k)) = IF m.kind = k THEN 1 ELSE 0
    BY <1>2 DEF AnswerOf, One
  <2>4. Awaited(k) = Awaited(k)' + One(m \in AnswerOf(k)) /\ Awaited(k)' \in Nat
    BY <1>2
  <2>5. (Recorded(s, k) > 0 <=> s # <<>> /\ s[1] = k) /\ Recorded(s, k) \in Nat
    BY <1>4, RecordedType
  <2>6. CASE s # <<>> /\ s[1] = m.kind
    <3>1. Recorded(w, k) = (IF m.kind = k THEN Recorded(s, k) - 1 ELSE Recorded(s, k))
      BY <1>4, <1>5, <2>6, ReducedFacts
    <3>2. QED
      BY <2>1, <2>2, <2>3, <2>4, <2>5, <3>1
  <2>7. CASE ~(s # <<>> /\ s[1] = m.kind)
    <3>1. Recorded(w, k) = Recorded(s, k) /\ (m.kind = k => Recorded(s, k) = 0)
      BY <1>5, <2>5, <2>7
    <3>2. QED
      BY <2>1, <2>2, <2>3, <2>4, <2>5, <3>1
  <2>8. QED
    BY <2>6, <2>7
<1>8. QED
  BY <1>2, <1>3, <1>6, <1>7 DEF RequestInv

(* A refusal, without a lost request, is of the kind the record is of.     *)
LEMMA RefusalOnRecord ==
  ASSUME TypeOK, RequestInv, net = "idle", ~lost, toClient # <<>>,
         Head(toClient).type = "refusal"
  PROVE  capture_requests # <<>> /\ capture_requests[1] = Head(toClient).kind
<1>. DEFINE m == Head(toClient)
            k == m.kind
<1>1. m \in Message /\ m = toClient[1] /\ 1 \in 1..Len(toClient) /\ toClient \in Seq(Message)
  BY Typed, HeadTailProperties, EmptySeq
<1>2. k \in KindT /\ m \in AnswerOf(k)
  BY <1>1 DEF Message, AnswerOf
<1>3. Answered(k) >= 1
  BY <1>1, <1>2, HitsType DEF Answered
<1>. HIDE DEF m, k
<1>4. Awaited(k) <= OnRecord(k)
  BY <1>2 DEF RequestInv
<1>5. OnRecord(k) > 0
  BY <1>3, <1>4, AwaitedType DEF Awaited
<1>6. capture_requests # <<>> /\ capture_requests[1] = k
  BY <1>5, Typed, RecordedType DEF OnRecord
<1>7. QED
  BY <1>6 DEF k, m

LEMMA ErrorRequests ==
  ASSUME TypeOK, RequestInv, handleError
  PROVE  RequestInv'
<1>. DEFINE m == Head(toClient)
            s == capture_requests
            w == IF s = <<>> THEN <<>> ELSE Tail(s)
<1>1. receives("refusal") /\ capture_requests' = w
  BY DEF handleError, refusedOldest
<1>2. /\ net = "idle" /\ up /\ m \in Message /\ m.type = "refusal" /\ toClient # <<>>
      /\ UNCHANGED <<caller, net, up, lost>>
      /\ \A k : Awaited(k) = Awaited(k)' + One(m \in AnswerOf(k)) /\ Awaited(k)' \in Nat
  BY <1>1, Received
<1>3. ~lost => s # <<>> /\ s[1] = m.kind
  BY <1>2, RefusalOnRecord
<1>. HIDE DEF m
<1>4. s \in Seq(KindT) /\ Uniform(s)
  BY Typed DEF RequestInv
<1>5. IF s # <<>> THEN Reduced(w, s) ELSE w = s
  BY <1>4, TailReduces
<1>. HIDE DEF w
<1>6. /\ Uniform(w) /\ (s = <<>> => w = <<>>)
      /\ \A x : (\A i \in 1..Len(s) : s[i] = x) => (\A i \in 1..Len(w) : w[i] = x)
  BY <1>4, <1>5, ReducedFacts
<1>7. ASSUME NEW k \in KindT
      PROVE  OnRecord(k)' <= Awaited(k)' /\ (~lost => Awaited(k)' <= OnRecord(k)')
  <2>1. OnRecord(k)' = Recorded(w, k) /\ OnRecord(k) = Recorded(s, k)
    BY <1>1 DEF OnRecord
  <2>2. OnRecord(k) <= Awaited(k) /\ (~lost => Awaited(k) <= OnRecord(k))
    BY <1>2 DEF RequestInv
  <2>3. One(m \in AnswerOf(k)) = IF m.kind = k THEN 1 ELSE 0
    BY <1>2 DEF AnswerOf, One
  <2>4. Awaited(k) = Awaited(k)' + One(m \in AnswerOf(k)) /\ Awaited(k)' \in Nat
    BY <1>2
  <2>5. (Recorded(s, k) > 0 <=> s # <<>> /\ s[1] = k) /\ Recorded(s, k) \in Nat
    BY <1>4, RecordedType
  <2>6. CASE s # <<>>
    <3>1. Recorded(w, k) = (IF s[1] = k THEN Recorded(s, k) - 1 ELSE Recorded(s, k))
      BY <1>4, <1>5, <2>6, ReducedFacts
    <3>2. QED
      BY <1>3, <2>1, <2>2, <2>3, <2>4, <2>5, <3>1
  <2>7. CASE s = <<>>
    <3>1. Recorded(w, k) = 0 /\ lost
      BY <1>3, <1>5, <2>5, <2>7, Typed
    <3>2. QED
      BY <2>1, <2>4, <3>1
  <2>8. QED
    BY <2>6, <2>7
<1>8. QED
  BY <1>1, <1>2, <1>6, <1>7 DEF RequestInv

LEMMA FrameRequests ==
  ASSUME TypeOK, RequestInv, onAssembled
  PROVE  RequestInv'
<1>. DEFINE m == Head(toClient)
<1>1. receives("frame") /\ UNCHANGED capture_requests
  BY DEF onAssembled
<1>2. /\ m \in Message /\ m.type = "frame" /\ UNCHANGED <<caller, net, up, lost>>
      /\ \A k : Awaited(k) = Awaited(k)' + One(m \in AnswerOf(k)) /\ Awaited(k)' \in Nat
  BY <1>1, Received
<1>. HIDE DEF m
<1>3. \A k : One(m \in AnswerOf(k)) = 0
  BY <1>2 DEF AnswerOf, One
<1>4. \A k : Awaited(k)' = Awaited(k) /\ OnRecord(k)' = OnRecord(k)
  BY <1>1, <1>2, <1>3 DEF OnRecord
<1>5. QED
  BY <1>1, <1>2, <1>4 DEF RequestInv, Uniform

-----------------------------------------------------------------------------
(* The frames, action by action.                                           *)
LEMMA FitNoLeft ==
  ASSUME NEW q, NEW s, NEW a, NEW due, NEW sv, NEW tv, sv.left = {}, tv.left = {},
         FramesFit(q, s, a, due, sv)
  PROVE  FramesFit(q, s, a, due, tv)
<1>1. Unsent(q, s, sv) = {} /\ Unsent(q, s, tv) = {}
  BY DEF Unsent
<1>2. QED
  BY <1>1 DEF FramesFit

(* Nothing due: whose it would be does not matter.                         *)
LEMMA FitNothing ==
  ASSUME NEW q \in Seq(Message), NEW s \in Nat, NEW a, NEW b, NEW sv \in ServerT,
         FramesFit(q, s, a, 0, sv)
  PROVE  FramesFit(q, s, b, 0, sv) /\ Stretch(q, s) = {} /\ Unsent(q, s, sv) = {}
<1>. DEFINE x == Cardinality(Stretch(q, s))
            y == Cardinality(Unsent(q, s, sv))
<1>1. /\ x \in Nat /\ y \in Nat /\ (x = 0 <=> Stretch(q, s) = {})
      /\ (y = 0 <=> Unsent(q, s, sv) = {}) /\ x + y = 0
  BY StretchType, UnsentType, CamsFinite DEF FramesFit
<1>. HIDE DEF x, y
<1>2. x = 0 /\ y = 0
  BY <1>1
<1>3. QED
  BY <1>1, <1>2 DEF FramesFit

LEMMA EmptyFits ==
  ASSUME NEW a, NEW sv, sv.left = {}
  PROVE  /\ FramesFit(<<>>, 0, a, 0, sv)
         /\ \A due : FramesFit(<<>>, 0, a, due, sv) => due = 0
<1>1. Stretch(<<>>, 0) = {} /\ Unsent(<<>>, 0, sv) = {}
  BY DEF Stretch, Unsent
<1>2. Cardinality({}) = 0 /\ Cardinality({}) + Cardinality({}) = 0
  BY FS_EmptySet
<1>3. QED
  BY <1>1, <1>2 DEF FramesFit

LEMMA SameFrames ==
  ASSUME FrameInv, UNCHANGED <<toClient, server>>, Acked' = Acked, Due' = Due
  PROVE  FrameInv'
BY DEF FrameInv

LEMMA CallerFrames ==
  ASSUME FrameInv, (\E k \in Kind : decide(k)) \/ CallerStep \/ storeConnected
  PROVE  FrameInv'
<1>1. /\ UNCHANGED <<toClient, server, capture_acked, capture_kind, capture_id, capture_entries,
                     capture_received>>
      /\ net = "idle" <=> net' = "idle"
  BY DEF decide, CallerStep, noteCaptureRequested, sendCommandCheck, sendCommandSend,
         undoRequest, storeConnected, capture, socket
<1>2. Acked' = Acked /\ Due' = Due
  BY <1>1 DEF Acked, Due
<1>3. QED
  BY <1>1, <1>2, SameFrames

LEMMA ServerFrames ==
  ASSUME TypeOK, LinkInv, FrameInv, ServerStep
  PROVE  FrameInv'
<1>0. /\ toClient \in Seq(Message) /\ Len(toClient) \in Nat /\ server \in ServerT
      /\ 0 \in 0..Len(toClient) /\ \A s \in 1..Len(toClient) : s \in 0..Len(toClient)
  BY Typed, LenProperties
<1>1. UNCHANGED <<capture, net>>
  BY DEF ServerStep, serverAccepts, serverRefuses, serverResult, serverFrame
<1>2. Acked' = Acked /\ Due' = Due
  BY <1>1 DEF Acked, Due, capture
<1>3. CASE serverAccepts
  <2>1. UNCHANGED toClient /\ server'.left = {} /\ server.left = {}
    BY <1>3 DEF serverAccepts, LinkInv
  <2>2. QED
    BY <1>2, <2>1, FitNoLeft DEF FrameInv
<1>4. ASSUME NEW m \in Message, toClient' = Append(toClient, m), m.type # "result",
             \A s \in 0..Len(toClient) : \A a, due :
               FramesFit(toClient, s, a, due, server) => FramesFit(toClient', s, a, due, server')
      PROVE  FrameInv'
  <2>1. /\ Len(toClient') = Len(toClient) + 1 /\ toClient'[Len(toClient) + 1] = m
        /\ \A s \in 1..Len(toClient) : toClient'[s] = toClient[s]
    BY <1>0, <1>4, AppendProperties
  <2>2. \A s \in 1..Len(toClient') : s \in 1..Len(toClient) \/ s = Len(toClient) + 1
    BY <1>0, <2>1
  <2>3. FramesFit(toClient', 0, Acked', Due', server')
    BY <1>0, <1>2, <1>4 DEF FrameInv
  <2>4. ASSUME NEW s \in 1..Len(toClient'), toClient'[s].type = "result"
        PROVE  FramesFit(toClient', s, toClient'[s], Cardinality(toClient'[s].cams), server')
    <3>1. s \in 1..Len(toClient)
      BY <1>4, <2>1, <2>2, <2>4
    <3>2. FramesFit(toClient, s, toClient[s], Cardinality(toClient[s].cams), server)
      BY <2>1, <2>4, <3>1 DEF FrameInv
    <3>3. FramesFit(toClient', s, toClient[s], Cardinality(toClient[s].cams), server')
      BY <1>0, <1>4, <3>1, <3>2
    <3>4. QED
      BY <2>1, <3>1, <3>3
  <2>5. QED
    BY <2>3, <2>4 DEF FrameInv
<1>5. CASE serverRefuses
  <2>. DEFINE m == [type |-> "refusal", kind |-> Head(toServer), id |-> 0, cams |-> {}]
  <2>1. toServer # <<>> /\ toClient' = Append(toClient, m) /\ UNCHANGED server
    BY <1>5 DEF serverRefuses
  <2>2. m \in Message /\ m.type = "refusal"
    BY <2>1, Typed, HeadTailProperties DEF Message
  <2>. HIDE DEF m
  <2>3. \A s \in 0..Len(toClient) : \A a, due :
          FramesFit(toClient, s, a, due, server) => FramesFit(toClient', s, a, due, server')
    BY <1>0, <2>1, <2>2, FitAppendRefusal
  <2>4. QED
    BY <1>4, <2>1, <2>2, <2>3
<1>6. ASSUME NEW c \in Cam, serverFrame(c)
      PROVE  FrameInv'
  <2>. DEFINE m == [type |-> "frame", kind |-> server.kind, id |-> server.id % IdMod, cams |-> {c}]
  <2>1. /\ c \in server.left /\ toClient' = Append(toClient, m)
        /\ server' = [server EXCEPT !.left = @ \ {c},
                                    !.state = IF server.left = {c} THEN "free" ELSE @]
    BY <1>6 DEF serverFrame
  <2>2. /\ m \in Message /\ m.type = "frame" /\ m.kind = server.kind
        /\ m.id = server.id % IdMod /\ m.cams = {c}
    <3>1. server.id \in Nat /\ server.kind \in KindT /\ IdMod \in Nat \ {0}
      BY Typed, CaptureAssumption DEF ServerT
    <3>2. server.id % IdMod \in Nat
      BY <3>1
    <3>3. QED
      BY <1>6, <3>1, <3>2 DEF Message
  <2>. HIDE DEF m
  <2>3. server'.kind = server.kind /\ server'.id = server.id /\ server'.left = server.left \ {c}
    BY <1>0, <2>1 DEF ServerT
  <2>4. \A s \in 0..Len(toClient) : \A a, due :
          FramesFit(toClient, s, a, due, server) => FramesFit(toClient', s, a, due, server')
    BY <1>0, <2>1, <2>2, <2>3, FitAppendFrame
  <2>5. QED
    BY <1>4, <2>1, <2>2, <2>4
<1>7. ASSUME NEW S \in SUBSET Cam, serverResult(S)
      PROVE  FrameInv'
  <2>. DEFINE m == [type |-> "result", kind |-> server.kind, id |-> server.id, cams |-> S]
  <2>1. /\ server.left = {} /\ toClient' = Append(toClient, m)
        /\ server' = [server EXCEPT !.state = IF S = {} THEN "free" ELSE "sending", !.left = S]
    BY <1>7 DEF serverResult, LinkInv
  <2>2. /\ m \in Message /\ m.type = "result" /\ m.kind = server.kind /\ m.id = server.id
        /\ m.cams = S
    BY <1>0, <1>7 DEF Message, ServerT
  <2>. HIDE DEF m
  <2>3. server'.kind = m.kind /\ server'.id = m.id /\ server'.left = m.cams
    BY <1>0, <2>1, <2>2 DEF ServerT
  <2>4. /\ Len(toClient') = Len(toClient) + 1 /\ toClient'[Len(toClient) + 1] = m
        /\ \A s \in 1..Len(toClient) : toClient'[s] = toClient[s]
    BY <1>0, <2>1, <2>2, AppendProperties
  <2>5. \A s \in 1..Len(toClient') : s \in 1..Len(toClient) \/ s = Len(toClient) + 1
    BY <1>0, <2>4
  <2>6. \A s \in 0..Len(toClient) : \A a, due :
          FramesFit(toClient, s, a, due, server) => FramesFit(toClient', s, a, due, server')
    BY <1>0, <2>1, <2>2, FitAppendResult
  <2>7. FramesFit(toClient', 0, Acked', Due', server')
    BY <1>0, <1>2, <2>6 DEF FrameInv
  <2>8. FramesFit(toClient', Len(toClient) + 1, m, Cardinality(m.cams), server')
    BY <1>0, <2>1, <2>2, <2>3, FitNewResult
  <2>9. ASSUME NEW s \in 1..Len(toClient'), toClient'[s].type = "result"
        PROVE  FramesFit(toClient', s, toClient'[s], Cardinality(toClient'[s].cams), server')
    <3>1. CASE s \in 1..Len(toClient)
      <4>1. FramesFit(toClient, s, toClient[s], Cardinality(toClient[s].cams), server)
        BY <2>4, <2>9, <3>1 DEF FrameInv
      <4>2. FramesFit(toClient', s, toClient[s], Cardinality(toClient[s].cams), server')
        BY <1>0, <2>6, <3>1, <4>1
      <4>3. QED
        BY <2>4, <3>1, <4>2
    <3>2. CASE s = Len(toClient) + 1
      BY <2>4, <2>8, <3>2
    <3>3. QED
      BY <2>5, <3>1, <3>2
  <2>10. QED
    BY <2>7, <2>9 DEF FrameInv
<1>8. QED
  BY <1>3, <1>5, <1>6, <1>7 DEF ServerStep

LEMMA SocketFrames ==
  ASSUME TypeOK, LinkInv, FrameInv, socketOpens \/ socketDrops \/ resetCaptures
  PROVE  FrameInv'
<1>1. CASE socketOpens
  <2>1. /\ toClient = <<>> /\ server.left = {} /\ toClient' = <<>> /\ server' = server
        /\ net' = "open"
    BY <1>1 DEF socketOpens, LinkInv
  <2>2. Due' = 0 /\ Len(toClient') = 0
    BY <2>1 DEF Due
  <2>3. FramesFit(toClient', 0, Acked', Due', server')
    BY <2>1, <2>2, EmptyFits
  <2>4. QED
    BY <2>2, <2>3 DEF FrameInv
<1>2. CASE socketDrops
  <2>1. toClient' = <<>> /\ server'.left = {} /\ net' = "close"
    BY <1>2 DEF socketDrops, Free
  <2>2. Due' = 0 /\ Len(toClient') = 0
    BY <2>1 DEF Due
  <2>3. FramesFit(toClient', 0, Acked', Due', server')
    BY <2>1, <2>2, EmptyFits
  <2>4. QED
    BY <2>2, <2>3 DEF FrameInv
<1>3. CASE resetCaptures
  <2>1. net = "reset" /\ capture_acked' = FALSE /\ UNCHANGED <<toClient, server>>
    BY <1>3 DEF resetCaptures, clearCaptures, socket
  <2>2. Due = 0 /\ Due' = 0
    BY <2>1 DEF Due
  <2>3. FramesFit(toClient, 0, Acked, 0, server) /\ toClient \in Seq(Message) /\ server \in ServerT
    BY <2>2, Typed DEF FrameInv
  <2>4. FramesFit(toClient, 0, Acked', 0, server)
    BY <2>3, FitNothing
  <2>5. QED
    BY <2>1, <2>2, <2>4 DEF FrameInv
<1>4. QED
  BY <1>1, <1>2, <1>3

(* A message is handled: every result on its way moves up by one, and the  *)
(* acked capture is followed by what followed the message.                 *)
LEMMA HandledFrames ==
  ASSUME TypeOK, FrameInv, NEW type, receives(type),
         FramesFit(toClient, 1, Acked', Due', server)
  PROVE  FrameInv'
<1>1. /\ toClient # <<>> /\ toClient' = Tail(toClient) /\ server' = server
      /\ toClient \in Seq(Message)
  BY Received, Typed
<1>2. /\ Len(toClient) \in Nat \ {0} /\ Len(toClient') = Len(toClient) - 1
      /\ \A i \in 1..Len(toClient') : toClient'[i] = toClient[i + 1]
  BY <1>1, HeadTailProperties, EmptySeq
<1>3. FramesFit(toClient', 0, Acked', Due', server')
  <2>1. 0 \in Nat /\ 0 + 1 = 1
    OBVIOUS
  <2>2. QED
    BY <1>1, <2>1, FitTail
<1>4. ASSUME NEW s \in 1..Len(toClient'), toClient'[s].type = "result"
      PROVE  FramesFit(toClient', s, toClient'[s], Cardinality(toClient'[s].cams), server')
  <2>1. s \in Nat /\ s + 1 \in 1..Len(toClient) /\ toClient'[s] = toClient[s + 1]
    BY <1>2
  <2>2. FramesFit(toClient, s + 1, toClient[s + 1], Cardinality(toClient[s + 1].cams), server)
    BY <1>4, <2>1 DEF FrameInv
  <2>3. QED
    BY <1>1, <2>1, <2>2, FitTail
<1>5. QED
  BY <1>3, <1>4 DEF FrameInv

LEMMA AnswerFrames ==
  ASSUME TypeOK, FrameInv, handleResult \/ handleError \/ onAssembled
  PROVE  FrameInv'
<1>. DEFINE m == Head(toClient)
<1>1. ASSUME NEW type, receives(type)
      PROVE  /\ net = "idle" /\ net' = "idle" /\ toClient # <<>> /\ toClient \in Seq(Message)
             /\ m = toClient[1] /\ m.type = type /\ 1 \in 1..Len(toClient) /\ m \in Message
  BY <1>1, Received, Typed, EmptySeq
<1>2. CASE handleResult
  <2>1. /\ receives("result") /\ capture_acked' = TRUE /\ capture_kind' = m.kind
        /\ capture_id' = m.id /\ capture_entries' = m.cams /\ capture_received' = 0
    BY <1>2 DEF handleResult, noteCaptureAcked
  <2>2. net' = "idle" /\ m = toClient[1] /\ m.type = "result" /\ 1 \in 1..Len(toClient)
        /\ m \in Message
    BY <1>1, <2>1
  <2>. HIDE DEF m
  <2>3. Cardinality(m.cams) \in Nat
    BY <2>2, CamsFinite DEF Message
  <2>4. Due' = Cardinality(m.cams)
    BY <2>1, <2>2, <2>3 DEF Due
  <2>5. FramesFit(toClient, 1, m, Cardinality(m.cams), server)
    BY <2>2 DEF FrameInv
  <2>6. Acked'.kind = m.kind /\ Acked'.id = m.id /\ Acked'.cams = m.cams
    BY <2>1 DEF Acked
  <2>7. FramesFit(toClient, 1, Acked', Due', server)
    BY <2>4, <2>5, <2>6 DEF FramesFit
  <2>8. QED
    BY <2>1, <2>7, HandledFrames
<1>3. CASE handleError
  <2>1. receives("refusal")
        /\ UNCHANGED <<capture_acked, capture_kind, capture_id, capture_entries, capture_received>>
    BY <1>3 DEF handleError
  <2>2. Acked' = Acked /\ Due' = Due
    BY <1>1, <2>1 DEF Acked, Due
  <2>3. FramesFit(toClient, 1, Acked', Due', server)
    BY <1>1, <2>1, <2>2, FitHeadRefusal DEF FrameInv
  <2>4. QED
    BY <2>1, <2>3, HandledFrames
<1>4. CASE onAssembled
  <2>1. /\ receives("frame")
        /\ capture_received' = IF matched(m) THEN capture_received + 1 ELSE capture_received
        /\ UNCHANGED <<capture_requests, capture_acked, capture_kind, capture_id, capture_entries>>
    BY <1>4 DEF onAssembled
  <2>2. /\ FramesFit(toClient, 1, Acked, Due - 1, server) /\ Due \in Nat /\ Due > 0
        /\ m.kind = Acked.kind /\ m.id = Acked.id % IdMod
    BY <1>1, <2>1, Typed, FitHeadFrame DEF FrameInv
  <2>3. Acked' = Acked
    BY <2>1 DEF Acked
  <2>4. /\ net' = "idle" /\ capture_acked /\ Due = Cardinality(capture_entries) - capture_received
        /\ capture_received \in Nat /\ Cardinality(capture_entries) \in Nat
    BY <1>1, <2>1, <2>2, Typed, CamsFinite DEF Due
  <2>5. matched(m)
    BY <2>2, <2>4 DEF matched, Acked
  <2>6. Due' = Due - 1
    BY <2>1, <2>4, <2>5 DEF Due
  <2>7. QED
    BY <2>1, <2>2, <2>3, <2>6, HandledFrames
<1>5. QED
  BY <1>2, <1>3, <1>4

-----------------------------------------------------------------------------
LEMMA CaptureInvInit == Init => CaptureInv
<1> SUFFICES ASSUME Init PROVE CaptureInv
  OBVIOUS
<1>1. MaxRequest \in Nat /\ MaxConn \in Nat
  BY CaptureAssumption
<1>2. TypeOK
  <2>1. 0 \in 0..Cardinality({}) /\ 0 \in 0..MaxRequest /\ 0 \in 0..MaxConn
    BY <1>1, FS_EmptySet
  <2>2. <<>> \in Seq(KindT) /\ <<>> \in Seq(Message)
    OBVIOUS
  <2>3. Idle \in CallerT /\ Free \in ServerT
    BY DEF Idle, Free, CallerT, ServerT, KindT
  <2>4. QED
    BY <2>1, <2>2, <2>3 DEF Init, TypeOK, CallerT, ServerT, KindT
<1>3. LinkInv
  BY DEF Init, LinkInv, Free
<1>4. RequestInv
  <2>1. capture_requests = <<>> /\ Len(capture_requests) = 0 /\ caller.pc = "idle"
    BY DEF Init, Idle
  <2>2. ASSUME NEW k \in KindT
        PROVE  OnRecord(k) = 0 /\ Awaited(k) = 0
    <3>1. OnRecord(k) = 0 /\ WithCaller(k) = 0 /\ WithServer(k) = 0
      BY <2>1 DEF Init, Free, OnRecord, Recorded, WithCaller, WithServer, One
    <3>2. OnTheWay(k) = 0 /\ Answered(k) = 0
      BY <1>2, Typed, HitsType DEF Init, OnTheWay, Answered
    <3>3. QED
      BY <3>1, <3>2 DEF Awaited
  <2>3. QED
    BY <2>1, <2>2 DEF RequestInv, Uniform
<1>5. FrameInv
  <2>1. toClient = <<>> /\ Len(toClient) = 0 /\ server.left = {} /\ Due = 0
    BY DEF Init, Free, Due
  <2>2. QED
    BY <2>1, EmptyFits DEF FrameInv
<1>6. QED
  BY <1>2, <1>3, <1>4, <1>5 DEF CaptureInv

LEMMA CaptureInvStep ==
  ASSUME CaptureInv, [Next]_vars
  PROVE  CaptureInv'
<1>0. TypeOK /\ LinkInv /\ RequestInv /\ FrameInv /\ Uniform(capture_requests)
  BY DEF CaptureInv, RequestInv
<1>1. CASE UNCHANGED vars
  <2>1. UNCHANGED <<connected, capture_requests, capture_acked, capture_kind, capture_id,
                    capture_entries, capture_received, caller, net, up, toServer, toClient,
                    conns, server, asked, lost>>
    BY <1>1 DEF vars, capture, socket
  <2>2. TypeOK' /\ LinkInv'
    BY <1>0, <2>1 DEF TypeOK, LinkInv
  <2>3. \A k : Awaited(k)' = Awaited(k) /\ OnRecord(k)' = OnRecord(k)
    BY <2>1, AwaitedSame DEF OnRecord, WithCaller
  <2>4. RequestInv'
    BY <1>0, <2>1, <2>3 DEF RequestInv, Uniform
  <2>5. FrameInv'
    BY <1>0, <2>1, SameFrames DEF Acked, Due
  <2>6. QED
    BY <2>2, <2>4, <2>5 DEF CaptureInv
<1>2. CASE (\E k \in Kind : decide(k)) \/ CallerStep
  <2>1. TypeOK' /\ LinkInv' /\ FrameInv'
    BY <1>0, <1>2, CallerTypes, CallerFrames
  <2>2. RequestInv'
    BY <1>0, <1>2, DecideRequests, NoteRequests, CheckRequests, SendRequests, UndoRequests
       DEF CallerStep
  <2>3. QED
    BY <2>1, <2>2 DEF CaptureInv
<1>3. CASE ServerStep
  BY <1>0, <1>3, ServerTypes, ServerRequests, ServerFrames DEF CaptureInv
<1>4. CASE socketOpens \/ socketDrops \/ NetStep
  <2>1. TypeOK' /\ LinkInv'
    BY <1>0, <1>4, NetTypes
  <2>2. RequestInv'
    BY <1>0, <1>4, SocketRequests, ResetRequests, ResultRequests, ErrorRequests, FrameRequests
       DEF NetStep
  <2>3. FrameInv'
    BY <1>0, <1>4, CallerFrames, SocketFrames, AnswerFrames DEF NetStep
  <2>4. QED
    BY <2>1, <2>2, <2>3 DEF CaptureInv
<1>5. QED
  BY <1>1, <1>2, <1>3, <1>4 DEF Next

-----------------------------------------------------------------------------
(* Every capture frame finds the result that announced it, whatever        *)
(* requests overlap, whatever was lost with a connection, and for every    *)
(* number of id bits a frame carries (onAssembled, noteCaptureAcked).      *)
THEOREM FramesFindTheirResult == Spec => []FrameFindsItsResult
<1>1. CaptureInv => FrameFindsItsResult
  <2>1. SUFFICES ASSUME CaptureInv, net = "idle", toClient # <<>>, Head(toClient).type = "frame"
                 PROVE  /\ matched(Head(toClient))
                        /\ Head(toClient).cams \subseteq capture_entries
    BY DEF FrameFindsItsResult
  <2>2. TypeOK /\ FrameInv
    BY <2>1 DEF CaptureInv
  <2>3. toClient \in Seq(Message) /\ server \in ServerT /\ Head(toClient) = toClient[1]
    BY <2>1, <2>2, Typed
  <2>4. /\ Due \in Nat /\ Due > 0 /\ Head(toClient).kind = Acked.kind
        /\ Head(toClient).id = Acked.id % IdMod /\ Head(toClient).cams \subseteq Acked.cams
    BY <2>1, <2>2, <2>3, FitHeadFrame DEF FrameInv
  <2>5. capture_acked /\ capture_received < Cardinality(capture_entries)
    <3>1. Cardinality(capture_entries) \in Nat /\ capture_received \in Nat
      BY <2>2, Typed, CamsFinite
    <3>2. QED
      BY <2>4, <3>1 DEF Due
  <2>6. QED
    BY <2>4, <2>5 DEF matched, Acked
<1>2. QED
  BY <1>1, CaptureInvInit, CaptureInvStep, PTL DEF Spec

(* A refusal is reported with the kind of the request that was refused, as *)
(* long as no request crossed a reconnect (handleText, refusedOldest).     *)
THEOREM RefusalsNameTheirRequest == Spec => []RefusalNamesItsRequest
<1>1. CaptureInv => RefusalNamesItsRequest
  <2>1. SUFFICES ASSUME CaptureInv, net = "idle", ~lost, toClient # <<>>,
                        Head(toClient).type = "refusal"
                 PROVE  capture_requests # <<>>
                        /\ Head(capture_requests) = Head(toClient).kind
    BY DEF RefusalNamesItsRequest
  <2>2. capture_requests # <<>> /\ capture_requests[1] = Head(toClient).kind
    BY <2>1, RefusalOnRecord DEF CaptureInv
  <2>3. Head(capture_requests) = capture_requests[1]
    BY <2>1, <2>2, Typed DEF CaptureInv
  <2>4. QED
    BY <2>2, <2>3
<1>2. QED
  BY <1>1, CaptureInvInit, CaptureInvStep, PTL DEF Spec

(* captureProgress() says in progress exactly as long as the server owes   *)
(* an answer or a frame: while it does, unless a request crossed a         *)
(* reconnect, and never when it does not and both threads are idle.        *)
THEOREM ProgressIsExact == Spec => []InProgressIffOutstanding
<1>1. ASSUME CaptureInv
      PROVE  InProgressWhileOutstanding
  <2>0. TypeOK /\ LinkInv /\ RequestInv /\ FrameInv
    BY <1>1 DEF CaptureInv
  <2>1. SUFFICES ASSUME Outstanding, ~lost, capture_requests = <<>>
                 PROVE  receiving
    BY DEF InProgressWhileOutstanding, InProgress
  <2>2. up
    BY <2>0, <2>1 DEF LinkInv, Outstanding
  <2>3. \A k \in KindT : OnTheWay(k) = 0 /\ WithServer(k) = 0 /\ Answered(k) = 0
    <3>1. TAKE k \in KindT
    <3>2. OnRecord(k) = 0
      BY <2>1 DEF OnRecord, Recorded
    <3>3. Awaited(k) <= 0
      BY <2>0, <2>1, <2>2, <3>2 DEF RequestInv
    <3>4. QED
      BY <2>0, <3>3, AwaitedType DEF Awaited
  <2>4. toServer = <<>>
    <3>1. SUFFICES ASSUME toServer # <<>>
                   PROVE  FALSE
      OBVIOUS
    <3>2. 1 \in 1..Len(toServer) /\ toServer[1] \in KindT /\ toServer \in Seq(KindT)
      BY <2>0, <3>1, Typed, EmptySeq, LenProperties
    <3>3. OnTheWay(toServer[1]) >= 1
      BY <3>2, HitsType DEF OnTheWay
    <3>4. QED
      BY <2>3, <3>2, <3>3
  <2>5. server.state # "taking"
    BY <2>0, <2>3, Typed DEF WithServer, One, ServerT
  <2>6. ASSUME NEW i \in 1..Len(toClient)
        PROVE  toClient[i].type = "frame"
    <3>1. toClient \in Seq(Message) /\ toClient[i] \in Message
      BY <2>0, Typed, LenProperties
    <3>2. toClient[i].kind \in KindT
      BY <3>1 DEF Message
    <3>3. toClient[i].type # "frame" => Answered(toClient[i].kind) >= 1
      BY <3>1, HitsType DEF Answered, AnswerOf
    <3>4. QED
      BY <2>3, <3>2, <3>3
  <2>7. LastOne(toClient, 0)
    BY <2>6 DEF LastOne
  <2>8. Due # 0
    <3>1. SUFFICES ASSUME Due = 0
                   PROVE  FALSE
      OBVIOUS
    <3>2. Stretch(toClient, 0) = {} /\ Unsent(toClient, 0, server) = {}
      BY <2>0, <3>1, Typed, FitNothing DEF FrameInv
    <3>3. server.left = {}
      BY <2>7, <3>2 DEF Unsent
    <3>4. toClient # <<>>
      BY <2>0, <2>1, <2>4, <2>5, <3>3, Typed DEF LinkInv, Outstanding, ServerT
    <3>5. 1 \in 1..Len(toClient)
      BY <2>0, <3>4, Typed, EmptySeq
    <3>6. 1 \in Stretch(toClient, 0)
      BY <2>6, <3>5 DEF Stretch
    <3>7. QED
      BY <3>2, <3>6
  <2>9. QED
    <3>1. Cardinality(capture_entries) \in Nat /\ capture_received \in 0..Cardinality(capture_entries)
      BY <2>0, Typed, CamsFinite
    <3>2. QED
      BY <2>8, <3>1 DEF Due, receiving
<1>2. ASSUME CaptureInv
      PROVE  NothingLeftBehind
  <2>0. TypeOK /\ LinkInv /\ RequestInv /\ FrameInv
    BY <1>2 DEF CaptureInv
  <2>1. SUFFICES ASSUME toServer = <<>>, server.state = "free", toClient = <<>>,
                        caller.pc = "idle", net = "idle"
                 PROVE  capture_requests = <<>> /\ ~receiving
    BY DEF NothingLeftBehind, Outstanding, InProgress
  <2>2. ASSUME NEW k \in KindT
        PROVE  OnRecord(k) = 0
    <3>1. WithCaller(k) = 0 /\ WithServer(k) = 0
      BY <2>1 DEF WithCaller, WithServer, One
    <3>2. OnTheWay(k) = 0 /\ Answered(k) = 0
      BY <2>0, <2>1, Typed, HitsType DEF OnTheWay, Answered
    <3>3. Awaited(k) = 0 /\ OnRecord(k) <= Awaited(k)
      BY <2>0, <2>1, <3>1, <3>2 DEF Awaited, RequestInv
    <3>4. QED
      BY <2>0, <3>3, AwaitedType
  <2>3. capture_requests = <<>>
    <3>1. SUFFICES ASSUME capture_requests # <<>>
                   PROVE  FALSE
      OBVIOUS
    <3>2. capture_requests \in Seq(KindT) /\ capture_requests[1] \in KindT
      BY <2>0, <3>1, Typed, EmptySeq, LenProperties
    <3>3. OnRecord(capture_requests[1]) > 0
      BY <3>1, <3>2, RecordedType DEF OnRecord
    <3>4. QED
      BY <2>2, <3>2, <3>3
  <2>4. ~receiving
    <3>1. server.left = {}
      BY <2>0, <2>1 DEF LinkInv
    <3>2. Due = 0
      BY <2>0, <2>1, <3>1, EmptyFits DEF FrameInv
    <3>3. Cardinality(capture_entries) \in Nat /\ capture_received \in 0..Cardinality(capture_entries)
      BY <2>0, Typed, CamsFinite
    <3>4. QED
      BY <2>1, <3>2, <3>3 DEF Due, receiving
  <2>5. QED
    BY <2>3, <2>4
<1>3. CaptureInv => InProgressIffOutstanding
  BY <1>1, <1>2 DEF InProgressIffOutstanding
<1>4. QED
  BY <1>3, CaptureInvInit, CaptureInvStep, PTL DEF Spec
=============================================================================
