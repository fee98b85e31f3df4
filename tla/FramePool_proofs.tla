--------------------------- MODULE FramePool_proofs ---------------------------
(***************************************************************************)
(* Proofs about FramePool for any number of connections, cameras, readers  *)
(* and buffers and any cap of the free list.  The five invariants are      *)
(* inductive together: a push is safe because the sole owner stays sole,   *)
(* an acquire because a free buffer has no other reference, and a write    *)
(* because the writer's buffer came from acquire and has not been shared.  *)
(***************************************************************************)
EXTENDS FramePool, TLAPS

(* A thread inside release holds the buffer it was called with.            *)
ReleaseHasBuffer == \A t \in Thread : rel[t] # "idle" => ref[Param(t)] # NoBuf

IInv == /\ TypeOK
        /\ ReleaseHasBuffer
        /\ FreeIsUnreferenced
        /\ WriterIsExclusive
        /\ ReadersSeeWholeFrames
        /\ SoleOwnerIsStable

(* The places of different holders are different places.                   *)
LEMMA Places ==
  /\ \A n \in Net, u \in Uuid : Fly(n, u) \in FlyPlace
  /\ \A n \in Net : Local(n) \in LocalPlace
  /\ \A c \in Cam : Slot(c) \in SharedPlace /\ Still(c) \in SharedPlace
  /\ \A v \in Viewer : View(v) \in SharedPlace
  /\ \A k \in Keeper : Keep(k) \in SharedPlace
  /\ \A p \in Place : p \in FlyPlace \/ p \in LocalPlace \/ p \in SharedPlace
  /\ FlyPlace \subseteq Place /\ LocalPlace \subseteq Place
  /\ SharedPlace \subseteq Place
  /\ \A p \in FlyPlace : p \notin LocalPlace /\ p \notin SharedPlace
  /\ \A p \in LocalPlace : p \notin SharedPlace
  /\ \A m, n \in Net : Local(m) = Local(n) => m = n
  /\ \A p \in LocalPlace : \E n \in Net : p = Local(n)
<1>1. /\ \A n \in Net, u \in Uuid : Fly(n, u) \in FlyPlace
      /\ \A n \in Net : Local(n) \in LocalPlace
      /\ \A c \in Cam : Slot(c) \in SharedPlace /\ Still(c) \in SharedPlace
      /\ \A v \in Viewer : View(v) \in SharedPlace
      /\ \A k \in Keeper : Keep(k) \in SharedPlace
  BY DEF FlyPlace, LocalPlace, StorePlace, SharedPlace
<1>2. /\ \A p \in Place : p \in FlyPlace \/ p \in LocalPlace \/ p \in SharedPlace
      /\ FlyPlace \subseteq Place /\ LocalPlace \subseteq Place
      /\ SharedPlace \subseteq Place
  BY Zenon DEF Place
<1>3. \A p \in FlyPlace : p[1] = "fly"
  BY DEF FlyPlace, Fly
<1>4. \A p \in LocalPlace : p[1] = "local" /\ \E n \in Net : p = Local(n)
  BY DEF LocalPlace, Local
<1>5. \A p \in SharedPlace : p[1] \in {"slot", "still", "view", "keep"}
  BY DEF SharedPlace, StorePlace, Slot, Still, View, Keep
<1>6. \A m, n \in Net : Local(m) = Local(n) => m = n
  BY DEF Local
<1>7. QED
  BY <1>1, <1>2, <1>3, <1>4, <1>5, <1>6

(* Each thread calls release on a place of its own.                        *)
LEMMA Params ==
  /\ \A n \in Net : Param(n) = Local(n)
  /\ \A g \in Gl : Param(g) = View(g) /\ Param(g) \in SharedPlace
  /\ \A t \in Thread : Param(t) \in Place /\ Param(t) \notin StorePlace
                         /\ Param(t) \notin FlyPlace
  /\ \A t \in Thread, n \in Net : Param(t) = Local(n) => t = n
  /\ \A s, t \in Thread : Param(s) = Param(t) => s = t
<1>1. \A n \in Net : Param(n) = Local(n)
  BY DEF Param
<1>2. \A g \in Gl : Param(g) = View(g) /\ Param(g) \in SharedPlace
  BY Places, PoolAssumption DEF Param, Viewer
<1>3. \A g, h \in Gl : View(g) = View(h) => g = h
  BY DEF View
<1>4. \A p \in StorePlace : p \in SharedPlace /\ p[1] \in {"slot", "still"}
  BY DEF StorePlace, SharedPlace, Slot, Still
<1>5. \A g \in Gl : View(g) \notin StorePlace
  BY <1>4 DEF View
<1>6. QED
  BY <1>1, <1>2, <1>3, <1>4, <1>5, Places DEF Thread

LEMMA InitIInv == Init => IInv
<1> SUFFICES ASSUME Init PROVE IInv
  OBVIOUS
<1>1. free = <<>> /\ Len(free) = 0 /\ \A p \in Place : ref[p] = NoBuf
  BY DEF Init
<1>2. TypeOK
  BY <1>1, PoolAssumption DEF Init, TypeOK
<1>3. FreeIsUnreferenced
  BY <1>1 DEF FreeIsUnreferenced
<1>4. WriterIsExclusive
  BY <1>1 DEF WriterIsExclusive
<1>5. ReadersSeeWholeFrames
  BY <1>1, Places DEF ReadersSeeWholeFrames, Delivering
<1>6. SoleOwnerIsStable
  BY DEF Init, SoleOwnerIsStable
<1>7. ReleaseHasBuffer
  BY DEF Init, ReleaseHasBuffer
<1>8. QED
  BY <1>2, <1>3, <1>4, <1>5, <1>6, <1>7 DEF IInv

(* pop_back of a non-empty vector.                                         *)
LEMMA PopBack ==
  ASSUME NEW S, NEW s \in Seq(S), Len(s) # 0
  PROVE  /\ SubSeq(s, 1, Len(s) - 1) \in Seq(S)
         /\ Len(SubSeq(s, 1, Len(s) - 1)) = Len(s) - 1
         /\ \A i \in 1..(Len(s) - 1) : SubSeq(s, 1, Len(s) - 1)[i] = s[i]
<1>1. PICK k \in Nat : Len(s) = k + 1
  OBVIOUS
<1>2. /\ SubSeq(s, 1, k) \in Seq(S)
      /\ Len(SubSeq(s, 1, k)) = k
      /\ \A i \in 1..k : SubSeq(s, 1, k)[i] = s[i]
  BY <1>1
<1>3. Len(s) - 1 = k
  BY <1>1
<1>4. QED
  BY <1>2, <1>3

(* What acquire returns is no longer free and belongs to nobody.           *)
LEMMA AcquireFresh ==
  ASSUME TypeOK, FreeIsUnreferenced, NEW b \in Buf, acquire(b)
  PROVE  /\ free' \in Seq(Buf) /\ Len(free') <= Len(free)
         /\ \A i \in 1..Len(free') : free'[i] = free[i] /\ free'[i] # b
         /\ \A p \in Place : ref[p] # b
<1>1. CASE free = <<>>
  BY <1>1, PoolAssumption DEF acquire, TypeOK, Referenced
<1>2. CASE free # <<>>
  <2>1. Len(free) \in Nat \ {0} /\ b = free[Len(free)]
        /\ free' = SubSeq(free, 1, Len(free) - 1)
    BY <1>2 DEF acquire, TypeOK
  <2>2. /\ free' \in Seq(Buf) /\ Len(free') = Len(free) - 1
        /\ \A i \in 1..Len(free') : free'[i] = free[i]
    BY <2>1, PopBack DEF TypeOK
  <2>3. \A i \in 1..Len(free') : free'[i] # b
    BY <2>1, <2>2 DEF FreeIsUnreferenced
  <2>4. \A p \in Place : ref[p] # b
    BY <2>1, PoolAssumption DEF FreeIsUnreferenced, InFree
  <2>5. QED
    BY <2>1, <2>2, <2>3, <2>4
<1>3. QED
  BY <1>1, <1>2

LEMMA HandleStartIInv ==
  ASSUME IInv, NEW n \in Net, NEW u \in Uuid, handleStart(n, u)
  PROVE  IInv'
<1> USE DEF IInv
<1>1. PICK b \in Buf : /\ acquire(b)
                       /\ whole' = whole \ {b}
                       /\ ref' = IF ref[Fly(n, u)] = NoBuf
                                 THEN [ref EXCEPT ![Fly(n, u)] = b] ELSE ref
  BY DEF handleStart
<1>2. rel' = rel
  BY DEF handleStart
<1>3. Fly(n, u) \in Place /\ Fly(n, u) \in FlyPlace
  BY Places
<1>4. /\ free' \in Seq(Buf) /\ Len(free') <= Len(free)
      /\ \A i \in 1..Len(free') : free'[i] = free[i] /\ free'[i] # b
      /\ \A p \in Place : ref[p] # b
  BY <1>1, AcquireFresh
<1>5. \A p \in Place : ref'[p] = ref[p] \/ (p = Fly(n, u) /\ ref'[p] = b)
  BY <1>1, <1>3 DEF TypeOK
<1>6. TypeOK'
  BY <1>1, <1>2, <1>3, <1>4, PoolAssumption DEF TypeOK
<1>7. FreeIsUnreferenced'
  <2>1. Len(free) \in Nat /\ Len(free') \in Nat
    BY <1>4 DEF TypeOK
  <2>2. \A i, j \in 1..Len(free') : free'[i] = free'[j] => i = j
    BY <1>4, <2>1 DEF FreeIsUnreferenced
  <2>3. \A p \in Place : ref'[p] # NoBuf => ~InFree(ref[p])'
    BY <1>4, <1>5, <2>1 DEF FreeIsUnreferenced, InFree
  <2>4. QED
    BY <2>2, <2>3 DEF FreeIsUnreferenced
<1>8. \A p \in Place : ref[p] # NoBuf /\ Sole(p) => Sole(p)'
  BY <1>4, <1>5, PoolAssumption DEF TypeOK, Sole, InFree
<1>9. WriterIsExclusive'
  BY <1>2, <1>3, <1>4, <1>5, <1>8 DEF TypeOK, WriterIsExclusive, Writing, Sole, InFree
<1>10. ReadersSeeWholeFrames'
  BY <1>1, <1>2, <1>3, <1>4, <1>5, Places, PoolAssumption
     DEF ReadersSeeWholeFrames, Delivering
<1>11. SoleOwnerIsStable'
  BY <1>2, <1>3, <1>4, <1>5, <1>8, Params, PoolAssumption DEF SoleOwnerIsStable
<1>12. ReleaseHasBuffer'
  BY <1>2, <1>4, <1>5, Params, PoolAssumption DEF ReleaseHasBuffer
<1>13. QED
  BY <1>6, <1>7, <1>9, <1>10, <1>11, <1>12

LEMMA HeaderOnlyIInv ==
  ASSUME IInv, NEW n \in Net, handleStartHeaderOnly(n)
  PROVE  IInv'
<1> USE DEF IInv
<1>1. PICK b \in Buf : /\ acquire(b)
                       /\ whole' = whole \cup {b}
                       /\ ref' = [ref EXCEPT ![Local(n)] = b]
  BY DEF handleStartHeaderOnly
<1>2. rel' = rel /\ rel[n] = "idle"
  BY DEF handleStartHeaderOnly, Ready
<1>3. Local(n) \in Place /\ Local(n) \in LocalPlace
  BY Places
<1>4. /\ free' \in Seq(Buf) /\ Len(free') <= Len(free)
      /\ \A i \in 1..Len(free') : free'[i] = free[i] /\ free'[i] # b
      /\ \A p \in Place : ref[p] # b
  BY <1>1, AcquireFresh
<1>5. \A p \in Place : (p # Local(n) /\ ref'[p] = ref[p])
                       \/ (p = Local(n) /\ ref'[p] = b)
  BY <1>1, <1>3 DEF TypeOK
<1>6. TypeOK'
  BY <1>1, <1>2, <1>3, <1>4, PoolAssumption DEF TypeOK
<1>7. FreeIsUnreferenced'
  <2>1. Len(free) \in Nat /\ Len(free') \in Nat
    BY <1>4 DEF TypeOK
  <2>2. \A i, j \in 1..Len(free') : free'[i] = free'[j] => i = j
    BY <1>4, <2>1 DEF FreeIsUnreferenced
  <2>3. \A p \in Place : ref'[p] # NoBuf => ~InFree(ref[p])'
    BY <1>4, <1>5, <2>1 DEF FreeIsUnreferenced, InFree
  <2>4. QED
    BY <2>2, <2>3 DEF FreeIsUnreferenced
<1>8. \A p \in Place \ {Local(n)} : ref[p] # NoBuf /\ Sole(p) => Sole(p)'
  BY <1>4, <1>5, PoolAssumption DEF TypeOK, Sole, InFree
<1>9. WriterIsExclusive'
  BY <1>2, <1>3, <1>4, <1>5, <1>8 DEF TypeOK, WriterIsExclusive, Writing, Sole, InFree
<1>10. ReadersSeeWholeFrames'
  BY <1>1, <1>2, <1>3, <1>4, <1>5, Places, PoolAssumption
     DEF ReadersSeeWholeFrames, Delivering
<1>11. SoleOwnerIsStable'
  BY <1>2, <1>3, <1>4, <1>5, <1>8, Params, PoolAssumption DEF SoleOwnerIsStable
<1>12. ReleaseHasBuffer'
  BY <1>2, <1>4, <1>5, Params, PoolAssumption DEF ReleaseHasBuffer
<1>13. QED
  BY <1>6, <1>7, <1>9, <1>10, <1>11, <1>12

(* A step that only drops references keeps the invariant, if it makes no   *)
(* thread a writer or a pusher and taints no frame that is still shared.   *)
LEMMA DropIInv ==
  ASSUME IInv, TypeOK', ReleaseHasBuffer', free' = free,
         \A p \in Place : ref'[p] = ref[p] \/ ref'[p] = NoBuf,
         \A n \in Net : rel'[n] = "idle" => rel[n] = "idle" \/ ref'[Local(n)] = NoBuf,
         \A t \in Thread : rel'[t] = "push" => rel[t] = "push",
         \A p \in SharedPlace : ref'[p] # NoBuf => ref'[p] \in whole',
         \A n \in Net : Delivering(n)' => ref'[Local(n)] \in whole'
  PROVE  IInv'
<1> USE DEF IInv
<1>1. FreeIsUnreferenced'
  <2>1. \A p \in Place : ref'[p] # NoBuf => ~InFree(ref[p])'
    BY DEF FreeIsUnreferenced, InFree
  <2>2. QED
    BY <2>1 DEF FreeIsUnreferenced
<1>2. \A p \in Place : ref'[p] # NoBuf /\ Sole(p) => Sole(p)'
  BY DEF Sole, InFree
<1>3. WriterIsExclusive'
  BY <1>2 DEF WriterIsExclusive, Writing
<1>4. ReadersSeeWholeFrames'
  BY DEF ReadersSeeWholeFrames
<1>5. SoleOwnerIsStable'
  BY <1>2, Params DEF SoleOwnerIsStable, ReleaseHasBuffer
<1>6. QED
  BY <1>1, <1>3, <1>4, <1>5

(* A step that hands a second reference of a shared frame to an empty      *)
(* shared place keeps the invariant.                                       *)
LEMMA ShareIInv ==
  ASSUME IInv, NEW p \in StorePlace, NEW q \in SharedPlace,
         ref[p] # NoBuf, ref[q] = NoBuf,
         ref' = [ref EXCEPT ![q] = ref[p]], UNCHANGED <<free, whole, rel>>
  PROVE  IInv'
<1> USE DEF IInv
<1>1. p \in Place /\ q \in Place
  BY Places DEF SharedPlace
<1>2. \A r \in Place : ref'[r] = IF r = q THEN ref[p] ELSE ref[r]
  BY <1>1 DEF TypeOK
<1>3. TypeOK'
  BY <1>1 DEF TypeOK
<1>4. FreeIsUnreferenced'
  <2>1. \A r \in Place : ref'[r] # NoBuf => ~InFree(ref[r])'
    BY <1>1, <1>2 DEF FreeIsUnreferenced, InFree
  <2>2. QED
    BY <2>1 DEF FreeIsUnreferenced
<1>5. ~Writing(p) /\ ~Writing(q)
  BY Places DEF Writing, SharedPlace
<1>6. \A r \in Place : r # p /\ r # q /\ ref[r] # NoBuf /\ Sole(r) => Sole(r)'
  BY <1>1, <1>2 DEF Sole, InFree
<1>7. WriterIsExclusive'
  BY <1>2, <1>5, <1>6 DEF WriterIsExclusive, Writing
<1>8. ReadersSeeWholeFrames'
  BY <1>1, <1>2, Places DEF ReadersSeeWholeFrames, Delivering, SharedPlace
<1>9. ReleaseHasBuffer'
  BY <1>2, Params DEF ReleaseHasBuffer
<1>10. SoleOwnerIsStable'
  BY <1>1, <1>2, <1>6, Params DEF SoleOwnerIsStable
<1>11. QED
  BY <1>3, <1>4, <1>7, <1>8, <1>9, <1>10

(* A step that moves the only reference of a buffer from p to q, and lets  *)
(* go of what q pointed to, keeps the invariant.                           *)
LEMMA MoveIInv ==
  ASSUME IInv, TypeOK', ReleaseHasBuffer', free' = free,
         NEW p \in Place, NEW q \in Place, p # q, ref[p] # NoBuf, Sole(p),
         \A r \in Place : ref'[r] = IF r = p THEN NoBuf
                                    ELSE IF r = q THEN ref[p] ELSE ref[r],
         \A n \in Net : rel'[n] = "idle" =>
            rel[n] = "idle" \/ ref'[Local(n)] = NoBuf \/ Local(n) = q,
         \A t \in Thread : rel'[t] = "push" => rel[t] = "push" /\ Param(t) # q,
         \A r \in SharedPlace : ref'[r] # NoBuf => ref'[r] \in whole',
         \A n \in Net : Delivering(n)' => ref'[Local(n)] \in whole'
  PROVE  IInv'
<1> USE DEF IInv
<1>1. FreeIsUnreferenced'
  <2>1. \A r \in Place : ref'[r] # NoBuf => ~InFree(ref[r])'
    BY DEF FreeIsUnreferenced, InFree
  <2>2. QED
    BY <2>1 DEF FreeIsUnreferenced
<1>2. Sole(q)'
  BY DEF Sole, InFree
<1>3. \A r \in Place : r # p /\ r # q /\ ref[r] # NoBuf /\ Sole(r) => Sole(r)'
  BY DEF Sole, InFree
<1>4. WriterIsExclusive'
  BY <1>2, <1>3 DEF WriterIsExclusive, Writing
<1>5. ReadersSeeWholeFrames'
  BY DEF ReadersSeeWholeFrames
<1>6. SoleOwnerIsStable'
  BY <1>2, <1>3, Params DEF SoleOwnerIsStable, ReleaseHasBuffer
<1>7. QED
  BY <1>1, <1>4, <1>5, <1>6

LEMMA HandleLastChunkIInv ==
  ASSUME IInv, NEW n \in Net, NEW u \in Uuid, handleLastChunk(n, u)
  PROVE  IInv'
<1> USE DEF IInv
<1>1. /\ Fly(n, u) \in FlyPlace /\ Local(n) \in LocalPlace
      /\ Fly(n, u) \in Place /\ Local(n) \in Place /\ Fly(n, u) # Local(n)
      /\ \A r \in SharedPlace : r # Fly(n, u) /\ r # Local(n) /\ r \in Place
  BY Places
<1>2. /\ ref[Fly(n, u)] # NoBuf /\ ref[Local(n)] = NoBuf /\ rel[n] = "idle"
      /\ rel' = rel /\ free' = free /\ whole' = whole \cup {ref[Fly(n, u)]}
  BY DEF handleLastChunk, Ready
<1>3. /\ \A r \in Place : ref'[r] = IF r = Fly(n, u) THEN NoBuf
                                    ELSE IF r = Local(n) THEN ref[Fly(n, u)] ELSE ref[r]
      /\ TypeOK'
  BY <1>1 DEF TypeOK, handleLastChunk
<1>4. Sole(Fly(n, u))
  BY <1>1, <1>2 DEF WriterIsExclusive, Writing
<1>5. \A t \in Thread : rel[t] # "idle" => Param(t) # Local(n)
  BY <1>2, Params
<1>6. ReleaseHasBuffer'
  BY <1>1, <1>2, <1>3, <1>5, Params DEF ReleaseHasBuffer
<1>7. \A r \in SharedPlace : ref'[r] # NoBuf => ref'[r] \in whole'
  BY <1>1, <1>2, <1>3 DEF ReadersSeeWholeFrames
<1>8. \A m \in Net : Delivering(m)' => ref'[Local(m)] \in whole'
  BY <1>1, <1>2, <1>3, Places DEF ReadersSeeWholeFrames, Delivering
<1>9. QED
  BY <1>1, <1>2, <1>3, <1>4, <1>5, <1>6, <1>7, <1>8, MoveIInv

LEMMA AbandonIInv ==
  ASSUME IInv, NEW n \in Net, NEW u \in Uuid, abandon(n, u)
  PROVE  IInv'
<1> USE DEF IInv
<1>1. /\ Fly(n, u) \in FlyPlace /\ Local(n) \in LocalPlace
      /\ Fly(n, u) \in Place /\ Local(n) \in Place /\ Fly(n, u) # Local(n)
      /\ \A r \in SharedPlace : r # Fly(n, u) /\ r # Local(n) /\ r \in Place
  BY Places
<1>2. /\ ref[Fly(n, u)] # NoBuf /\ ref[Local(n)] = NoBuf /\ rel[n] = "idle"
      /\ free' = free /\ whole' = whole
      /\ \A t \in Thread : rel'[t] = IF t = n THEN "check" ELSE rel[t]
  BY DEF abandon, Ready, TypeOK, Thread
<1>3. /\ \A r \in Place : ref'[r] = IF r = Fly(n, u) THEN NoBuf
                                    ELSE IF r = Local(n) THEN ref[Fly(n, u)] ELSE ref[r]
      /\ TypeOK'
  BY <1>1 DEF TypeOK, abandon
<1>4. Sole(Fly(n, u))
  BY <1>1, <1>2 DEF WriterIsExclusive, Writing
<1>5. \A t \in Thread : t # n => Param(t) # Local(n)
  BY Params
<1>6. ReleaseHasBuffer'
  BY <1>1, <1>2, <1>3, <1>5, Params DEF ReleaseHasBuffer
<1>7. \A r \in SharedPlace : ref'[r] # NoBuf => ref'[r] \in whole'
  BY <1>1, <1>2, <1>3 DEF ReadersSeeWholeFrames
<1>8. \A m \in Net : m \in Thread
  BY DEF Thread
<1>9. \A m \in Net : Delivering(m)' => ref'[Local(m)] \in whole'
  BY <1>1, <1>2, <1>3, <1>8, Places DEF ReadersSeeWholeFrames, Delivering
<1>10. QED
  BY <1>1, <1>2, <1>3, <1>4, <1>5, <1>6, <1>7, <1>8, <1>9, MoveIInv

LEMMA PublishCaptureIInv ==
  ASSUME IInv, NEW n \in Net, NEW c \in Cam, publishCapture(n, c)
  PROVE  IInv'
<1> USE DEF IInv
<1>1. /\ Local(n) \in LocalPlace /\ Local(n) \in Place /\ Still(c) \in SharedPlace
      /\ Still(c) \in Place /\ Still(c) # Local(n) /\ Still(c) \in StorePlace
      /\ \A r \in SharedPlace : r # Local(n) /\ r \in Place
      /\ \A m \in Net : Local(m) \in Place /\ Local(m) # Still(c)
  BY Places DEF StorePlace
<1>2. /\ ref[Local(n)] # NoBuf /\ rel[n] = "idle"
      /\ free' = free /\ whole' = whole /\ rel' = rel
  BY DEF publishCapture, Delivering
<1>3. /\ \A r \in Place : ref'[r] = IF r = Local(n) THEN NoBuf
                                    ELSE IF r = Still(c) THEN ref[Local(n)] ELSE ref[r]
      /\ TypeOK'
  BY <1>1, PoolAssumption DEF TypeOK, publishCapture
<1>4. Sole(Local(n))
  BY <1>1, <1>2 DEF WriterIsExclusive, Writing
<1>5. \A t \in Thread : Param(t) # Still(c) /\ (rel[t] # "idle" => Param(t) # Local(n))
  BY <1>1, <1>2, Params
<1>6. ReleaseHasBuffer'
  BY <1>1, <1>2, <1>3, <1>5, Params DEF ReleaseHasBuffer
<1>7. \A r \in SharedPlace : ref'[r] # NoBuf => ref'[r] \in whole'
  BY <1>1, <1>2, <1>3 DEF ReadersSeeWholeFrames, Delivering
<1>8. \A m \in Net : Delivering(m)' => ref'[Local(m)] \in whole'
  BY <1>1, <1>2, <1>3 DEF ReadersSeeWholeFrames, Delivering
<1>9. QED
  BY <1>1, <1>2, <1>3, <1>4, <1>5, <1>6, <1>7, <1>8, MoveIInv

LEMMA PublishFrameIInv ==
  ASSUME IInv, NEW n \in Net, NEW c \in Cam, publishFrame(n, c)
  PROVE  IInv'
<1> USE DEF IInv
<1>1. /\ Local(n) \in LocalPlace /\ Local(n) \in Place /\ Slot(c) \in SharedPlace
      /\ Slot(c) \in Place /\ Slot(c) # Local(n) /\ Slot(c) \in StorePlace
      /\ \A r \in SharedPlace : r # Local(n) /\ r \in Place
      /\ \A m \in Net : Local(m) \in Place /\ Local(m) # Slot(c) /\ m \in Thread
  BY Places DEF StorePlace, Thread
<1>2. /\ ref[Local(n)] # NoBuf /\ rel[n] = "idle"
      /\ free' = free /\ whole' = whole
      /\ \A t \in Thread : rel'[t] = IF t # n THEN rel[t]
                                     ELSE IF ref[Slot(c)] = NoBuf THEN "idle" ELSE "check"
  BY <1>1 DEF publishFrame, Delivering, TypeOK
<1>3. /\ \A r \in Place : ref'[r] = IF r = Local(n) THEN ref[Slot(c)]
                                    ELSE IF r = Slot(c) THEN ref[Local(n)] ELSE ref[r]
      /\ TypeOK'
  BY <1>1 DEF TypeOK, publishFrame
<1>4. Sole(Local(n))
  BY <1>1, <1>2 DEF WriterIsExclusive, Writing
<1>5. \A t \in Thread : Param(t) # Slot(c) /\ (t # n => Param(t) # Local(n))
  BY <1>1, Params
<1>6. ReleaseHasBuffer'
  BY <1>1, <1>2, <1>3, <1>5, Params DEF ReleaseHasBuffer
<1>7. ReadersSeeWholeFrames'
  BY <1>1, <1>2, <1>3, Places DEF ReadersSeeWholeFrames, Delivering
<1>8. FreeIsUnreferenced'
  <2>1. \A r \in Place : ref'[r] # NoBuf => ~InFree(ref[r])'
    BY <1>1, <1>2, <1>3 DEF FreeIsUnreferenced, InFree
  <2>2. QED
    BY <1>2, <2>1 DEF FreeIsUnreferenced
<1>9. \A r \in Place : r # Local(n) /\ r # Slot(c) /\ ref[r] # NoBuf /\ Sole(r) => Sole(r)'
  BY <1>1, <1>2, <1>3, <1>4 DEF Sole, InFree
<1>10. ~Writing(Slot(c)) /\ (Writing(Local(n))' => ref'[Local(n)] = NoBuf)
  BY <1>1, <1>2, <1>3, Places DEF Writing
<1>11. WriterIsExclusive'
  BY <1>1, <1>2, <1>3, <1>9, <1>10 DEF WriterIsExclusive, Writing
<1>12. SoleOwnerIsStable'
  BY <1>2, <1>3, <1>5, <1>9, Params DEF SoleOwnerIsStable
<1>13. QED
  BY <1>3, <1>6, <1>7, <1>8, <1>11, <1>12

LEMMA HandleOverflowIInv ==
  ASSUME IInv, NEW n \in Net, NEW u \in Uuid, handleOverflow(n, u)
  PROVE  IInv'
<1> USE DEF IInv
<1>1. /\ Fly(n, u) \in FlyPlace /\ Fly(n, u) \in Place
      /\ \A r \in SharedPlace : r # Fly(n, u) /\ r \in Place
      /\ \A m \in Net : Local(m) # Fly(n, u) /\ Local(m) \in Place
  BY Places
<1>2. /\ ref[Fly(n, u)] # NoBuf /\ whole' = whole \ {ref[Fly(n, u)]}
      /\ rel' = rel /\ free' = free
  BY DEF handleOverflow
<1>3. /\ \A r \in Place : ref'[r] = IF r = Fly(n, u) THEN NoBuf ELSE ref[r]
      /\ TypeOK'
  BY <1>1 DEF TypeOK, handleOverflow
<1>4. Sole(Fly(n, u))
  BY <1>1, <1>2 DEF WriterIsExclusive, Writing
<1>5. ReleaseHasBuffer'
  BY <1>1, <1>2, <1>3, Params DEF ReleaseHasBuffer
<1>6. /\ \A r \in SharedPlace : ref'[r] # NoBuf => ref'[r] \in whole'
      /\ \A m \in Net : Delivering(m)' => ref'[Local(m)] \in whole'
  BY <1>1, <1>2, <1>3, <1>4 DEF ReadersSeeWholeFrames, Delivering, Sole
<1>7. QED
  BY <1>2, <1>3, <1>5, <1>6, DropIInv

(* dropUnknown and uploadDone only enter release.                          *)
LEMMA EnterReleaseIInv ==
  ASSUME IInv, NEW t \in Thread, rel[t] = "idle", ref[Param(t)] # NoBuf,
         rel' = [rel EXCEPT ![t] = "check"], UNCHANGED <<free, ref, whole>>
  PROVE  IInv'
<1> USE DEF IInv
<1>1. \A s \in Thread : rel'[s] = IF s = t THEN "check" ELSE rel[s]
  BY DEF TypeOK
<1>2. TypeOK'
  BY DEF TypeOK
<1>3. ReleaseHasBuffer'
  BY <1>1 DEF ReleaseHasBuffer, Param, Local, View
<1>4. \A n \in Net : n \in Thread /\ (rel'[n] = "idle" => rel[n] = "idle")
  BY <1>1 DEF Thread
<1>5. \A n \in Net : Delivering(n)' => ref'[Local(n)] \in whole'
  BY <1>4 DEF ReadersSeeWholeFrames, Delivering
<1>6. \A p \in SharedPlace : ref'[p] # NoBuf => ref'[p] \in whole'
  BY DEF ReadersSeeWholeFrames
<1>7. QED
  BY <1>1, <1>2, <1>3, <1>4, <1>5, <1>6, DropIInv

(* rebuild, latestDone and dropCapture let go of references outside        *)
(* release.                                                                *)
LEMMA LetGoIInv ==
  ASSUME IInv, TypeOK', UNCHANGED <<free, whole, rel>>,
         \A p \in Place : ref'[p] = ref[p] \/ (ref'[p] = NoBuf /\ p \in SharedPlace),
         \A t \in Thread : ref'[Param(t)] = ref[Param(t)]
  PROVE  IInv'
<1> USE DEF IInv
<1>1. ReleaseHasBuffer'
  BY DEF ReleaseHasBuffer, Param, Local, View
<1>2. /\ \A p \in SharedPlace : ref'[p] # NoBuf => ref'[p] \in whole'
      /\ \A n \in Net : Delivering(n)' => ref'[Local(n)] \in whole'
  BY Places DEF ReadersSeeWholeFrames, Delivering
<1>3. QED
  BY <1>1, <1>2, DropIInv

LEMMA ReleaseDropIInv ==
  ASSUME IInv, NEW t \in Thread, releaseDrop(t)
  PROVE  IInv'
<1> USE DEF IInv
<1>1. Param(t) \in Place /\ \A n \in Net : n \in Thread /\ Local(n) \in Place
  BY Params, Places DEF Thread
<1>2. /\ free' = free /\ whole' = whole /\ rel[t] = "drop"
      /\ \A s \in Thread : rel'[s] = IF s = t THEN "idle" ELSE rel[s]
  BY DEF releaseDrop, TypeOK
<1>3. /\ \A p \in Place : ref'[p] = IF p = Param(t) THEN NoBuf ELSE ref[p]
      /\ TypeOK'
  BY <1>1 DEF TypeOK, releaseDrop
<1>4. ReleaseHasBuffer'
  BY <1>1, <1>2, <1>3, Params DEF ReleaseHasBuffer
<1>5. \A n \in Net : rel'[n] = "idle" => rel[n] = "idle" \/ ref'[Local(n)] = NoBuf
  BY <1>1, <1>2, <1>3, Params
<1>6. /\ \A p \in SharedPlace : ref'[p] # NoBuf => ref'[p] \in whole'
      /\ \A n \in Net : Delivering(n)' => ref'[Local(n)] \in whole'
  BY <1>1, <1>2, <1>3, <1>5, Places DEF ReadersSeeWholeFrames, Delivering
<1>7. QED
  BY <1>2, <1>3, <1>4, <1>5, <1>6, DropIInv

LEMMA ReleaseCheckIInv ==
  ASSUME IInv, NEW t \in Thread, releaseCheck(t)
  PROVE  IInv'
<1> USE DEF IInv
<1>1. /\ free' = free /\ whole' = whole /\ ref' = ref /\ rel[t] = "check"
      /\ \A s \in Thread : rel'[s] = IF s = t THEN (IF Sole(Param(t)) THEN "push" ELSE "drop")
                                     ELSE rel[s]
      /\ TypeOK'
  BY DEF releaseCheck, TypeOK
<1>2. \A p : Sole(p)' <=> Sole(p)
  BY <1>1 DEF Sole, InFree
<1>3. \A n \in Net : n \in Thread /\ (rel'[n] = "idle" => rel[n] = "idle")
  BY <1>1 DEF Thread
<1>4. FreeIsUnreferenced'
  BY <1>1 DEF FreeIsUnreferenced, InFree
<1>5. WriterIsExclusive'
  BY <1>1, <1>2, <1>3 DEF WriterIsExclusive, Writing
<1>6. ReadersSeeWholeFrames'
  BY <1>1, <1>3 DEF ReadersSeeWholeFrames, Delivering
<1>7. ReleaseHasBuffer' /\ SoleOwnerIsStable'
  BY <1>1, <1>2 DEF ReleaseHasBuffer, SoleOwnerIsStable
<1>8. QED
  BY <1>1, <1>4, <1>5, <1>6, <1>7

LEMMA ReleasePushIInv ==
  ASSUME IInv, NEW t \in Thread, releasePush(t)
  PROVE  IInv'
<1> USE DEF IInv
<1> DEFINE b == ref[Param(t)]
<1>1. Param(t) \in Place /\ \A n \in Net : n \in Thread /\ Local(n) \in Place
  BY Params, Places DEF Thread
<1>2. /\ whole' = whole /\ rel[t] = "push"
      /\ \A s \in Thread : rel'[s] = IF s = t THEN "idle" ELSE rel[s]
      /\ \A p \in Place : ref'[p] = IF p = Param(t) THEN NoBuf ELSE ref[p]
  BY <1>1 DEF releasePush, TypeOK
<1>3. b \in Buf /\ Sole(Param(t))
  BY <1>1, <1>2 DEF SoleOwnerIsStable, TypeOK
<1>4. \/ free' = free
      \/ /\ free' = Append(free, b) /\ Len(free) < MaxFree
         /\ Len(free') = Len(free) + 1 /\ free'[Len(free) + 1] = b
         /\ \A i \in 1..Len(free) : free'[i] = free[i]
  BY <1>3 DEF releasePush, TypeOK
<1>5. /\ Len(free) \in Nat
      /\ Len(free') = Len(free) \/ Len(free') = Len(free) + 1
      /\ \A i \in 1..Len(free') : (i \in 1..Len(free) /\ free'[i] = free[i])
                                  \/ (i = Len(free) + 1 /\ free'[i] = b)
  BY <1>4 DEF TypeOK
<1>6. TypeOK'
  BY <1>1, <1>3, <1>4, PoolAssumption DEF TypeOK, releasePush
<1>7. \A p \in Place : ref'[p] # NoBuf => p # Param(t) /\ ref'[p] = ref[p] /\ ref[p] # b
  BY <1>1, <1>2, <1>3 DEF Sole
<1>8. \A p \in Place : ref'[p] # NoBuf /\ ~InFree(ref[p]) => ~InFree(ref[p])'
  BY <1>5, <1>7 DEF InFree
<1>9. FreeIsUnreferenced'
  <2>1. \A i \in 1..Len(free) : free[i] # b
    BY <1>3 DEF Sole, InFree
  <2>2. \A i, j \in 1..Len(free') : free'[i] = free'[j] => i = j
    BY <1>5, <2>1 DEF FreeIsUnreferenced
  <2>3. \A p \in Place : ref'[p] # NoBuf => ~InFree(ref[p])'
    BY <1>7, <1>8 DEF FreeIsUnreferenced
  <2>4. QED
    BY <2>2, <2>3 DEF FreeIsUnreferenced
<1>10. \A p \in Place : ref'[p] # NoBuf /\ Sole(p) => Sole(p)'
  <2>1. SUFFICES ASSUME NEW p \in Place, ref'[p] # NoBuf, Sole(p),
                        NEW q \in Place \ {p}
                 PROVE  ref'[q] # ref'[p] /\ ~InFree(ref[p])'
    BY <1>7, <1>8 DEF Sole
  <2>2. QED
    BY <2>1, <1>2, <1>7, <1>8 DEF Sole
<1>11. \A n \in Net : rel'[n] = "idle" => rel[n] = "idle" \/ ref'[Local(n)] = NoBuf
  BY <1>1, <1>2, Params
<1>12. WriterIsExclusive'
  BY <1>7, <1>10, <1>11 DEF WriterIsExclusive, Writing
<1>13. ReadersSeeWholeFrames'
  BY <1>1, <1>2, <1>11, Places DEF ReadersSeeWholeFrames, Delivering
<1>14. ReleaseHasBuffer'
  BY <1>1, <1>2, Params DEF ReleaseHasBuffer
<1>15. SoleOwnerIsStable'
  BY <1>2, <1>10, <1>14, Params DEF SoleOwnerIsStable, ReleaseHasBuffer
<1>16. QED
  BY <1>6, <1>9, <1>12, <1>13, <1>14, <1>15

LEMMA NextIInv == IInv /\ [Next]_vars => IInv'
<1> SUFFICES ASSUME IInv, [Next]_vars PROVE IInv'
  OBVIOUS
<1>1. CASE UNCHANGED vars
  BY <1>1 DEF vars, IInv, TypeOK, FreeIsUnreferenced, WriterIsExclusive, Writing,
              ReadersSeeWholeFrames, Delivering, SoleOwnerIsStable, Sole, InFree,
              ReleaseHasBuffer
<1>2. ASSUME NEW n \in Net, NetStep(n) PROVE IInv'
  <2>1. CASE dropUnknown(n)
    BY <2>1, EnterReleaseIInv, Params DEF dropUnknown, Delivering, Thread
  <2>2. QED
    BY <1>2, <2>1, HeaderOnlyIInv, HandleStartIInv, HandleLastChunkIInv,
       HandleOverflowIInv, AbandonIInv, PublishFrameIInv, PublishCaptureIInv
       DEF NetStep
<1>3. ASSUME NEW t \in Thread, ReleaseStep(t) PROVE IInv'
  BY <1>3, ReleaseCheckIInv, ReleaseDropIInv, ReleasePushIInv DEF ReleaseStep
<1>4. CASE rebuild
  <2>1. /\ TypeOK'
        /\ \A p \in Place : ref'[p] = IF p \in StorePlace THEN NoBuf ELSE ref[p]
    BY <1>4 DEF rebuild, IInv, TypeOK
  <2>2. QED
    BY <1>4, <2>1, LetGoIInv, Params, Places DEF rebuild, SharedPlace
<1>5. ASSUME NEW v \in Viewer, NEW c \in Cam, consumeIfNew(v, c) PROVE IInv'
  <2>1. Slot(c) \in StorePlace /\ View(v) \in SharedPlace
    BY Places DEF StorePlace
  <2>2. QED
    BY <1>5, <2>1, ShareIInv DEF consumeIfNew
<1>6. ASSUME NEW g \in Gl, uploadDone(g) PROVE IInv'
  BY <1>6, EnterReleaseIInv, Params DEF uploadDone, Thread
<1>7. ASSUME NEW a \in Api, latestDone(a) PROVE IInv'
  <2>1. View(a) \in SharedPlace /\ View(a) \in Place
    BY Places DEF Viewer
  <2>2. /\ TypeOK'
        /\ \A p \in Place : ref'[p] = IF p = View(a) THEN NoBuf ELSE ref[p]
    BY <1>7, <2>1 DEF latestDone, IInv, TypeOK
  <2>3. \A t \in Thread : Param(t) # View(a)
    <3>1. \A g \in Gl : View(g) # View(a)
      BY PoolAssumption DEF View
    <3>2. QED
      BY <2>1, <3>1, Params, Places DEF Thread
  <2>4. QED
    BY <1>7, <2>1, <2>2, <2>3, LetGoIInv, Params DEF latestDone
<1>8. ASSUME NEW k \in Keeper, dropCapture(k) PROVE IInv'
  <2>1. Keep(k) \in SharedPlace /\ Keep(k) \in Place
    BY Places
  <2>2. /\ TypeOK'
        /\ \A p \in Place : ref'[p] = IF p = Keep(k) THEN NoBuf ELSE ref[p]
    BY <1>8, <2>1 DEF dropCapture, IInv, TypeOK
  <2>3. \A t \in Thread : Param(t) # Keep(k)
    <3>1. \A g \in Gl : View(g) # Keep(k)
      BY DEF View, Keep
    <3>2. QED
      BY <2>1, <3>1, Params, Places DEF Thread
  <2>4. QED
    BY <1>8, <2>1, <2>2, <2>3, LetGoIInv, Params DEF dropCapture
<1>9. ASSUME NEW k \in Keeper, NEW c \in Cam, keepCapture(k, c) PROVE IInv'
  <2>1. Still(c) \in StorePlace /\ Keep(k) \in SharedPlace
    BY Places DEF StorePlace
  <2>2. QED
    BY <1>9, <2>1, ShareIInv DEF keepCapture
<1>10. QED
  BY <1>1, <1>2, <1>3, <1>4, <1>5, <1>6, <1>7, <1>8, <1>9 DEF Next

(* The invariant holds in every state of every instance.                   *)
THEOREM PoolIInv == Spec => []IInv
  BY InitIInv, NextIInv, PTL DEF Spec

(* Type correctness: in particular the free list stays within its cap      *)
(* although release tests use_count() before it takes the lock.            *)
THEOREM PoolTypeOK == Spec => []TypeOK
<1>1. IInv => TypeOK
  BY DEF IInv
<1>2. QED
  BY <1>1, PoolIInv, PTL

(* acquire never hands out a buffer that somebody still points to.         *)
THEOREM PoolFreeIsUnreferenced == Spec => []FreeIsUnreferenced
<1>1. IInv => FreeIsUnreferenced
  BY DEF IInv
<1>2. QED
  BY <1>1, PoolIInv, PTL

(* A network thread writes only into a buffer nobody else can reach.       *)
THEOREM PoolWriterIsExclusive == Spec => []WriterIsExclusive
<1>1. IInv => WriterIsExclusive
  BY DEF IInv
<1>2. QED
  BY <1>1, PoolIInv, PTL

(* No reader ever sees a torn frame.                                       *)
THEOREM PoolReadersSeeWholeFrames == Spec => []ReadersSeeWholeFrames
<1>1. IInv => ReadersSeeWholeFrames
  BY DEF IInv
<1>2. QED
  BY <1>1, PoolIInv, PTL

(* The unlocked use_count() == 1 of release is a stable answer.            *)
THEOREM PoolSoleOwnerIsStable == Spec => []SoleOwnerIsStable
<1>1. IInv => SoleOwnerIsStable
  BY DEF IInv
<1>2. QED
  BY <1>1, PoolIInv, PTL

-----------------------------------------------------------------------------
(* FramePool implements FrameLease.  Three facts about a step carry the    *)
(* refinement: what a thread writes next was shared by nobody, what is     *)
(* shared next was shared or complete before, and an observer only gets    *)
(* what was already shared.                                                *)
FreshWriter ==
  \A p \in Place : Writing(p)' /\ ref'[p] # NoBuf
                     => \A q \in SharedPlace : ref[q] # ref'[p]
SharedFromOwned ==
  \A p \in SharedPlace : ref'[p] # NoBuf =>
    \E q \in Place : (q \in SharedPlace \/ Writing(q)) /\ ref[q] = ref'[p]
ObservedFromShared ==
  \A o \in Viewer \cup Keeper : ref'[ObservedBy(o)] # NoBuf =>
    \E q \in SharedPlace : ref[q] = ref'[ObservedBy(o)]

LEMMA Observed ==
  \A o \in Viewer \cup Keeper : /\ ObservedBy(o) \in SharedPlace
                                /\ ObservedBy(o) \notin StorePlace
<1>1. \A p \in StorePlace : p[1] \in {"slot", "still"}
  BY DEF StorePlace, Slot, Still
<1>2. \A o : View(o) \notin StorePlace /\ Keep(o) \notin StorePlace
  BY <1>1 DEF View, Keep
<1>3. QED
  BY <1>2, Places DEF ObservedBy

LEMMA StepImplementsLease ==
  ASSUME IInv, IInv', FreshWriter, SharedFromOwned, ObservedFromShared
  PROVE  Lease!Next
<1> DEFINE rd(b) == {o \in Viewer \cup Keeper : ref[ObservedBy(o)] = b}
<1>1. \A b \in Buf : LeasePhase(b) = "writing" => rd(b) = {}
  BY Observed, Places, PoolAssumption
     DEF LeasePhase, IInv, WriterIsExclusive, Sole, Writing
<1>2. \A b \in Buf : LeasePhase(b)' = "writing" => rd(b)' = {}
  BY Observed, Places, PoolAssumption
     DEF LeasePhase, IInv, WriterIsExclusive, Sole, Writing
<1>3. \A b \in Buf : LeasePhase(b) = "idle" => rd(b) = {}
  BY Observed DEF LeasePhase
<1>4. \A b \in Buf : LeasePhase(b)' = "idle" => rd(b)' = {}
  BY Observed DEF LeasePhase
<1>5. \A b \in Buf : LeasePhase(b)' = "writing" => LeasePhase(b) \in {"idle", "writing"}
  BY PoolAssumption DEF FreshWriter, LeasePhase
<1>6. \A b \in Buf : LeasePhase(b)' = "shown" => LeasePhase(b) \in {"writing", "shown"}
  BY PoolAssumption DEF SharedFromOwned, LeasePhase
<1>7. \A b \in Buf : LeasePhase(b) = "writing" => rd(b)' = {} \/ LeasePhase(b)' # "shown"
  BY Places, PoolAssumption DEF ObservedFromShared, LeasePhase, IInv,
     WriterIsExclusive, Sole, Writing
<1>8. \A b \in Buf : LeasePhase(b)' \in {"idle", "writing", "shown"}
  BY DEF LeasePhase
<1>9. QED
  BY <1>1, <1>2, <1>3, <1>4, <1>5, <1>6, <1>7, <1>8
     DEF Lease!Next, Lease!LendOrWrite, Lease!ShowOrRead, Lease!Retire, Lease!Phase

LEMMA NextStep ==
  ASSUME IInv, Next
  PROVE  FreshWriter /\ SharedFromOwned /\ ObservedFromShared
<1> USE DEF IInv
<1>1. ASSUME NEW n \in Net, NEW u \in Uuid, handleStart(n, u)
      PROVE  FreshWriter /\ SharedFromOwned /\ ObservedFromShared
  <2>1. PICK b \in Buf : /\ \A p \in Place : ref[p] # b
                         /\ \A p \in Place : ref'[p] = ref[p]
                              \/ (p = Fly(n, u) /\ ref'[p] = b)
    BY <1>1, AcquireFresh, Places DEF handleStart, TypeOK
  <2>2. rel' = rel /\ Fly(n, u) \in FlyPlace
    BY <1>1, Places DEF handleStart
  <2>3. QED
    BY <2>1, <2>2, Places, Observed
       DEF FreshWriter, SharedFromOwned, ObservedFromShared, Writing,
           WriterIsExclusive, Sole
<1>2. ASSUME NEW n \in Net, handleStartHeaderOnly(n)
      PROVE  FreshWriter /\ SharedFromOwned /\ ObservedFromShared
  <2>1. PICK b \in Buf : /\ \A p \in Place : ref[p] # b
                         /\ \A p \in Place : ref'[p] = ref[p]
                              \/ (p = Local(n) /\ ref'[p] = b)
    BY <1>2, AcquireFresh, Places DEF handleStartHeaderOnly, TypeOK
  <2>2. rel' = rel /\ Local(n) \in LocalPlace
    BY <1>2, Places DEF handleStartHeaderOnly
  <2>3. QED
    BY <2>1, <2>2, Places, Observed
       DEF FreshWriter, SharedFromOwned, ObservedFromShared, Writing,
           WriterIsExclusive, Sole
<1>3. ASSUME NEW n \in Net, NEW u \in Uuid,
             handleLastChunk(n, u) \/ abandon(n, u)
      PROVE  FreshWriter /\ SharedFromOwned /\ ObservedFromShared
  <2>1. /\ \A p \in Place : ref'[p] = IF p = Fly(n, u) THEN NoBuf
                                      ELSE IF p = Local(n) THEN ref[Fly(n, u)] ELSE ref[p]
        /\ ref[Fly(n, u)] # NoBuf /\ Fly(n, u) \in FlyPlace /\ Local(n) \in LocalPlace
        /\ Fly(n, u) \in Place /\ Local(n) \in Place
        /\ \A p \in SharedPlace : p # Fly(n, u) /\ p # Local(n) /\ p \in Place
    BY <1>3, Places DEF handleLastChunk, abandon, TypeOK
  <2>2. \A m \in Net : rel'[m] = "idle" => rel[m] = "idle"
    BY <1>3 DEF handleLastChunk, abandon, TypeOK, Thread
  <2>3. Sole(Fly(n, u))
    BY <2>1 DEF WriterIsExclusive, Writing
  <2>4. FreshWriter
    BY <2>1, <2>2, <2>3, Places DEF FreshWriter, Writing, WriterIsExclusive, Sole
  <2>5. SharedFromOwned /\ ObservedFromShared
    BY <2>1, Places, Observed DEF SharedFromOwned, ObservedFromShared
  <2>6. QED
    BY <2>4, <2>5
<1>4. ASSUME NEW n \in Net, NEW c \in Cam, publishFrame(n, c)
      PROVE  FreshWriter /\ SharedFromOwned /\ ObservedFromShared
  <2>1. /\ \A p \in Place : ref'[p] = IF p = Local(n) THEN ref[Slot(c)]
                                      ELSE IF p = Slot(c) THEN ref[Local(n)] ELSE ref[p]
        /\ Local(n) \in LocalPlace /\ Local(n) \in Place
        /\ Slot(c) \in StorePlace /\ Slot(c) \in SharedPlace /\ Slot(c) \in Place
        /\ \A p \in SharedPlace : p # Local(n) /\ p \in Place
    BY <1>4, Places DEF publishFrame, TypeOK, StorePlace
  <2>2. /\ \A m \in Net : m # n => rel'[m] = rel[m]
        /\ rel'[n] = "idle" => ref'[Local(n)] = NoBuf
        /\ rel[n] = "idle"
    BY <1>4, <2>1 DEF publishFrame, Delivering, TypeOK, Thread
  <2>3. FreshWriter
    BY <2>1, <2>2, Places DEF FreshWriter, Writing, WriterIsExclusive, Sole
  <2>4. Writing(Local(n))
    BY <2>2 DEF Writing
  <2>5. SharedFromOwned
    BY <2>1, <2>4 DEF SharedFromOwned
  <2>6. ObservedFromShared
    BY <2>1, Observed DEF ObservedFromShared
  <2>7. QED
    BY <2>3, <2>5, <2>6
<1>5. ASSUME NEW n \in Net, NEW c \in Cam, publishCapture(n, c)
      PROVE  FreshWriter /\ SharedFromOwned /\ ObservedFromShared
  <2>1. /\ \A p \in Place : ref'[p] = IF p = Local(n) THEN NoBuf
                                      ELSE IF p = Still(c) THEN ref[Local(n)] ELSE ref[p]
        /\ Local(n) \in LocalPlace /\ Local(n) \in Place
        /\ Still(c) \in StorePlace /\ Still(c) \in SharedPlace /\ Still(c) \in Place
        /\ \A p \in SharedPlace : p # Local(n) /\ p \in Place
    BY <1>5, Places DEF publishCapture, TypeOK, StorePlace
  <2>2. rel' = rel /\ rel[n] = "idle"
    BY <1>5 DEF publishCapture, Delivering
  <2>3. FreshWriter
    BY <2>1, <2>2, Places DEF FreshWriter, Writing, WriterIsExclusive, Sole
  <2>4. Writing(Local(n))
    BY <2>2 DEF Writing
  <2>5. SharedFromOwned
    BY <2>1, <2>4 DEF SharedFromOwned
  <2>6. ObservedFromShared
    BY <2>1, Observed DEF ObservedFromShared
  <2>7. QED
    BY <2>3, <2>5, <2>6
<1>6. ASSUME NEW v \in Viewer, NEW c \in Cam, consumeIfNew(v, c)
      PROVE  FreshWriter /\ SharedFromOwned /\ ObservedFromShared
  <2>1. /\ \A p \in Place : ref'[p] = IF p = View(v) THEN ref[Slot(c)] ELSE ref[p]
        /\ Slot(c) \in SharedPlace /\ View(v) \in SharedPlace /\ rel' = rel
        /\ \A p \in SharedPlace : p \in Place
    BY <1>6, Places DEF consumeIfNew, TypeOK
  <2>2. QED
    BY <2>1, Places, Observed DEF FreshWriter, SharedFromOwned,
       ObservedFromShared, Writing, WriterIsExclusive, Sole
<1>7. ASSUME NEW k \in Keeper, NEW c \in Cam, keepCapture(k, c)
      PROVE  FreshWriter /\ SharedFromOwned /\ ObservedFromShared
  <2>1. /\ \A p \in Place : ref'[p] = IF p = Keep(k) THEN ref[Still(c)] ELSE ref[p]
        /\ Still(c) \in SharedPlace /\ Keep(k) \in SharedPlace /\ rel' = rel
        /\ \A p \in SharedPlace : p \in Place
    BY <1>7, Places DEF keepCapture, TypeOK
  <2>2. QED
    BY <2>1, Places, Observed DEF FreshWriter, SharedFromOwned,
       ObservedFromShared, Writing, WriterIsExclusive, Sole
<1>8. ASSUME \A p \in Place : ref'[p] = ref[p] \/ ref'[p] = NoBuf,
             \A m \in Net : rel'[m] = "idle" => rel[m] = "idle" \/ ref'[Local(m)] = NoBuf
      PROVE  FreshWriter /\ SharedFromOwned /\ ObservedFromShared
  <2>1. FreshWriter
    BY <1>8, Places DEF FreshWriter, Writing, WriterIsExclusive, Sole
  <2>2. SharedFromOwned /\ ObservedFromShared
    BY <1>8, Places, Observed DEF SharedFromOwned, ObservedFromShared
  <2>3. QED
    BY <2>1, <2>2
<1>9. ASSUME NEW t \in Thread, ReleaseStep(t)
      PROVE  FreshWriter /\ SharedFromOwned /\ ObservedFromShared
  <2>1. /\ \A p \in Place : ref'[p] = ref[p] \/ ref'[p] = NoBuf
        /\ \A s \in Thread : rel'[s] = "idle" => rel[s] = "idle" \/ ref'[Param(s)] = NoBuf
    BY <1>9, Params DEF ReleaseStep, releaseCheck, releaseDrop, releasePush, TypeOK
  <2>2. QED
    BY <1>8, <2>1, Params DEF Thread
<1>10. ASSUME \/ \E n \in Net : dropUnknown(n) \/ \E u \in Uuid : handleOverflow(n, u)
              \/ rebuild
              \/ \E g \in Gl : uploadDone(g)
              \/ \E a \in Api : latestDone(a)
              \/ \E k \in Keeper : dropCapture(k)
       PROVE  FreshWriter /\ SharedFromOwned /\ ObservedFromShared
  <2>1. \A p \in Place : ref'[p] = ref[p] \/ ref'[p] = NoBuf
    BY <1>10 DEF dropUnknown, handleOverflow, rebuild, uploadDone, latestDone,
                 dropCapture, TypeOK
  <2>2. \A s \in Thread : rel'[s] = "idle" => rel[s] = "idle"
    BY <1>10 DEF dropUnknown, handleOverflow, rebuild, uploadDone, latestDone,
                 dropCapture, TypeOK
  <2>3. QED
    BY <1>8, <2>1, <2>2 DEF Thread
<1>11. QED
  BY <1>1, <1>2, <1>3, <1>4, <1>5, <1>6, <1>7, <1>9, <1>10 DEF Next, NetStep

(* The pool with its unlocked use_count() check implements the lease: a    *)
(* buffer is written by one thread or read by others, never both.          *)
THEOREM PoolRefinesLease == Spec => RefinesLease
<1>1. Init => Lease!Init
  <2> SUFFICES ASSUME Init PROVE Lease!Init
    OBVIOUS
  <2>1. \A p \in Place : ref[p] = NoBuf
    BY DEF Init
  <2>2. \A b \in Buf : LeasePhase(b) = "idle"
    BY <2>1, Places, PoolAssumption DEF LeasePhase
  <2>3. \A b \in Buf : {o \in Viewer \cup Keeper : ref[ObservedBy(o)] = b} = {}
    BY <2>1, Observed, Places, PoolAssumption
  <2>4. QED
    BY <2>2, <2>3 DEF Lease!Init
<1>2. IInv /\ IInv' /\ [Next]_vars
        => [Lease!Next]_<<[b \in Buf |-> LeasePhase(b)],
                          [b \in Buf |-> {o \in Viewer \cup Keeper :
                                            ref[ObservedBy(o)] = b}]>>
  <2>1. CASE UNCHANGED vars
    BY <2>1 DEF vars, LeasePhase, Writing
  <2>2. CASE Next
    BY <2>2, NextStep, StepImplementsLease
  <2>3. QED
    BY <2>1, <2>2
<1>3. QED
  BY <1>1, <1>2, PoolIInv, PTL DEF Spec, RefinesLease, Lease!Spec
=============================================================================
