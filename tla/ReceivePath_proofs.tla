------------------------ MODULE ReceivePath_proofs ------------------------
(***************************************************************************)
(* Proofs about the two ends of the way a frame takes through the client:  *)
(* ChunkReassembler, where it is put together from its chunks, with the    *)
(* parsers of the detection block it carries, and CameraStore, where it is *)
(* kept for the windows.  No step of either is a step of the other.        *)
(***************************************************************************)
EXTENDS ChunkReassembler, CameraStore, FiniteSetTheorems, SequenceTheorems,
        WellFoundedInduction, TLAPS

(* A set of numbers that is not empty has a least element.                 *)
LEMMA LeastElement ==
  ASSUME NEW T \in SUBSET Nat, T # {}
  PROVE  \E m \in T : \A k \in T : m <= k
<1>1. \E x \in T : \A y \in T : ~(<<y, x>> \in OpToRel(<, Nat))
  BY WFMin, NatLessThanWellFounded
<1>2. PICK x \in T : \A y \in T : ~(<<y, x>> \in OpToRel(<, Nat))
  BY <1>1
<1>3. \A y \in T : ~(y < x)
  BY <1>2 DEF OpToRel
<1>4. \A y \in T : x <= y
  <2>1. TAKE y \in T
  <2>2. x \in Nat /\ y \in Nat /\ ~(y < x)
    BY <1>3
  <2>3. QED
    BY <2>2
<1>5. QED
  BY <1>4

(* Induction: a set with 0 and with every successor has every number.      *)
LEMMA SetInduction ==
  ASSUME NEW S, 0 \in S, \A n \in Nat : n \in S => n + 1 \in S
  PROVE  \A n \in Nat : n \in S
<1> DEFINE T == {n \in Nat : n \notin S}
<1>1. ASSUME T # {} PROVE FALSE
  <2>1. PICK m \in T : \A k \in T : m <= k
    <3>1. T \in SUBSET Nat
      OBVIOUS
    <3>2. QED
      BY <3>1, <1>1, LeastElement
  <2>2. m \in Nat /\ m \notin S /\ m # 0
    OBVIOUS
  <2>3. m - 1 \in Nat /\ m - 1 < m /\ (m - 1) + 1 = m
    BY <2>2
  <2>4. m - 1 \in S
    <3>1. ASSUME m - 1 \notin S PROVE FALSE
      <4>1. m - 1 \in T
        BY <3>1, <2>3
      <4>2. m <= m - 1
        BY <4>1, <2>1
      <4>3. QED
        BY <4>2, <2>2
    <3>2. QED
      BY <3>1
  <2>5. QED
    BY <2>2, <2>3, <2>4
<1>2. QED
  BY <1>1

-----------------------------------------------------------------------------
(* What is concatenated of the first n chunks, as concatenated computes it. *)
IsCat(g, chunks, n) ==
  g = [i \in 0..n |-> IF i = 0 THEN <<>> ELSE g[i - 1] \o chunks[i]]

(* The recursion of concatenated has a solution for every length.          *)
LEMMA CatExists ==
  ASSUME NEW chunks, NEW n \in Nat
  PROVE  \E g : IsCat(g, chunks, n)
<1> DEFINE S == {k \in Nat : \E g : IsCat(g, chunks, k)}
<1>1. 0 \in S
  <2>1. IsCat([i \in 0..0 |-> <<>>], chunks, 0)
    BY DEF IsCat
  <2>2. QED
    BY <2>1
<1>2. ASSUME NEW k \in Nat, k \in S PROVE k + 1 \in S
  <2>1. PICK g : IsCat(g, chunks, k)
    BY <1>2
  <2> DEFINE h == [i \in 0..(k + 1) |-> IF i = 0 THEN <<>> ELSE g[i - 1] \o chunks[i]]
  <2>2. \A i \in 0..k : h[i] = g[i]
    BY <2>1 DEF IsCat
  <2>3. \A i \in 0..(k + 1) : i # 0 => h[i - 1] = g[i - 1]
    <3>1. TAKE i \in 0..(k + 1)
    <3>2. i # 0 => i - 1 \in 0..k
      OBVIOUS
    <3> HIDE DEF h
    <3>3. QED
      BY <2>2, <3>2
  <2>4. IsCat(h, chunks, k + 1)
    BY <2>3 DEF IsCat
  <2>5. QED
    BY <2>4
<1> HIDE DEF S
<1>3. \A k \in Nat : k \in S
  BY <1>1, <1>2, SetInduction
<1>4. QED
  BY <1>3 DEF S

(* Concatenated chunks are a sequence of cells.                            *)
LEMMA ConcatenatedType ==
  ASSUME NEW C, NEW chunks \in Seq(Seq(C))
  PROVE  concatenated(chunks) \in Seq(C)
<1> DEFINE N == Len(chunks)
<1>0. N \in Nat
  OBVIOUS
<1>1. PICK g : IsCat(g, chunks, N) /\ concatenated(chunks) = g[N]
  <2>1. \E g : IsCat(g, chunks, N)
    BY <1>0, CatExists
  <2>2. QED
    BY <2>1 DEF IsCat, concatenated
<1> DEFINE S == {k \in Nat : k <= N => g[k] \in Seq(C)}
<1>2. 0 \in S
  BY <1>0, <1>1 DEF IsCat
<1>3. ASSUME NEW k \in Nat, k \in S PROVE k + 1 \in S
  <2>1. CASE k + 1 <= N
    <3>1. chunks[k + 1] \in Seq(C) /\ g[k] \in Seq(C)
      BY <2>1, <1>3, <1>0
    <3>2. g[k + 1] = g[(k + 1) - 1] \o chunks[k + 1]
      <4>1. k + 1 \in 0..N /\ k + 1 # 0
        BY <2>1, <1>0
      <4>2. \A i \in 0..N : g[i] = IF i = 0 THEN <<>> ELSE g[i - 1] \o chunks[i]
        BY <1>1 DEF IsCat
      <4> HIDE DEF N
      <4>3. QED
        BY <4>1, <4>2
    <3>3. g[k + 1] = g[k] \o chunks[k + 1]
      <4>1. (k + 1) - 1 = k
        OBVIOUS
      <4>2. QED
        BY <3>2, <4>1
    <3>4. g[k] \o chunks[k + 1] \in Seq(C)
      BY <3>1
    <3>5. k + 1 \in Nat /\ g[k + 1] \in Seq(C)
      BY <3>3, <3>4
    <3>6. QED
      BY <3>5
  <2>2. QED
    BY <2>1
<1>4. \A k \in Nat : k \in S
  <2> HIDE DEF S
  <2>1. QED
    BY <1>2, <1>3, SetInduction
<1>5. QED
  BY <1>0, <1>1, <1>4

(* Where the record at off ends.                                           *)
endOf(block, header, off) == off + size(block, header, off)

(* g is what the recursion of records gives for the offsets from lo on.    *)
IsFrom(g, block, header, lo) ==
  g = [off \in lo..Len(block) |->
         IF fits(block, header, off)
         THEN <<SubSeq(block, off + 1, endOf(block, header, off))>>
                \o g[endOf(block, header, off)]
         ELSE <<>>]

(* The sets lie in the block one behind the other from off on; c[i] is     *)
(* where set i ends, and no record fits behind the last.                   *)
CutAt(sets, c, block, header, off) ==
  /\ c \in [0..Len(sets) -> 0..Len(block)] /\ c[0] = off
  /\ \A i \in 1..Len(sets) :
       /\ fits(block, header, c[i - 1]) /\ c[i] = endOf(block, header, c[i - 1])
       /\ sets[i] = SubSeq(block, c[i - 1] + 1, c[i])
  /\ ~fits(block, header, c[Len(sets)])

(* A record that fits ends behind its start and within the block.          *)
LEMMA RecordEnds ==
  ASSUME NEW block \in Seq(Nat), NEW header \in Nat \ {0},
         NEW off \in 0..Len(block), fits(block, header, off)
  PROVE  /\ endOf(block, header, off) \in (off + header)..Len(block)
         /\ endOf(block, header, off) > off
         /\ off + header \in 1..Len(block) /\ block[off + header] \in Nat
<1>1. off + header \in 1..Len(block)
  BY DEF fits
<1>2. block[off + header] \in Nat
  BY <1>1
<1>3. PICK k \in Nat : k = block[off + header]
  BY <1>2
<1>4. endOf(block, header, off) = off + (header + 2 * k)
  BY <1>3 DEF size, endOf
<1>5. off + (header + 2 * k) <= Len(block)
  BY <1>3 DEF fits, size
<1>6. Len(block) \in Nat /\ off + (header + 2 * k) \in (off + header)..Len(block)
      /\ off + (header + 2 * k) > off
  BY <1>5
<1>7. QED
  BY <1>1, <1>2, <1>4, <1>6

(* The recursion of records has a solution.                                *)
LEMMA FromExists ==
  ASSUME NEW block \in Seq(Nat), NEW header \in Nat \ {0}
  PROVE  \E g : IsFrom(g, block, header, 0)
<1> DEFINE N == Len(block)
           S == {k \in Nat : k <= N => \E g : IsFrom(g, block, header, N - k)}
<1>0. N \in Nat
  OBVIOUS
<1>1. 0 \in S
  <2>1. ~fits(block, header, N)
    BY DEF fits
  <2>2. IsFrom([off \in N..N |-> <<>>], block, header, N)
    BY <2>1, <1>0 DEF IsFrom
  <2>3. N - 0 = N
    BY <1>0
  <2> HIDE DEF N
  <2>4. QED
    BY <2>2, <2>3
<1>2. ASSUME NEW k \in Nat, k \in S PROVE k + 1 \in S
  <2>1. CASE k + 1 <= N
    <3> DEFINE lo == N - (k + 1)
    <3>1. lo \in 0..N /\ lo + 1 = N - k
      BY <2>1, <1>0
    <3>2. PICK g : IsFrom(g, block, header, lo + 1)
      <4>1. \E g : IsFrom(g, block, header, N - k)
        BY <1>2, <2>1, <1>0
      <4>2. QED
        BY <4>1, <3>1
    <3> HIDE DEF lo
    <3> DEFINE h == [off \in lo..N |->
                       IF fits(block, header, off)
                       THEN <<SubSeq(block, off + 1, endOf(block, header, off))>>
                              \o g[endOf(block, header, off)]
                       ELSE <<>>]
    <3>3. \A off \in (lo + 1)..N : h[off] = g[off]
      <4>1. TAKE off \in (lo + 1)..N
      <4>2. off \in lo..N
        BY <3>1
      <4>3. \A i \in (lo + 1)..N :
              g[i] = IF fits(block, header, i)
                     THEN <<SubSeq(block, i + 1, endOf(block, header, i))>>
                            \o g[endOf(block, header, i)]
                     ELSE <<>>
        BY <3>2 DEF IsFrom
      <4>4. QED
        BY <4>2, <4>3
    <3>4. \A off \in lo..N : fits(block, header, off)
             => h[endOf(block, header, off)] = g[endOf(block, header, off)]
      <4>1. TAKE off \in lo..N
      <4>2. HAVE fits(block, header, off)
      <4>3. endOf(block, header, off) \in (lo + 1)..N
        <5>1. off \in 0..Len(block)
          BY <3>1
        <5>2. endOf(block, header, off) \in (off + header)..N
               /\ endOf(block, header, off) > off
          BY <5>1, <4>2, RecordEnds
        <5>3. QED
          BY <5>1, <5>2, <3>1
      <4>4. QED
        BY <4>3, <3>3
    <3>5. IsFrom(h, block, header, lo)
      BY <3>4 DEF IsFrom
    <3> HIDE DEF h
    <3>6. k + 1 \in Nat /\ \E f : IsFrom(f, block, header, N - (k + 1))
      BY <3>5 DEF lo
    <3>7. QED
      BY <3>6
  <2>2. CASE ~(k + 1 <= N)
    BY <2>2
  <2>3. QED
    BY <2>1, <2>2
<1>3. \A k \in Nat : k \in S
  <2> HIDE DEF S
  <2>1. QED
    BY <1>1, <1>2, SetInduction
<1>4. N \in S /\ N - N = 0
  BY <1>3, <1>0
<1>5. QED
  BY <1>4, <1>0

(* At any offset the recursion gives records that lie one behind the other. *)
LEMMA FromCuts ==
  ASSUME NEW block \in Seq(Nat), NEW header \in Nat \ {0},
         NEW g, IsFrom(g, block, header, 0)
  PROVE  g[0] \in Seq(Seq(Nat)) /\ \E c : CutAt(g[0], c, block, header, 0)
<1> DEFINE N == Len(block)
           Cuts(off) == g[off] \in Seq(Seq(Nat)) /\ \E c : CutAt(g[off], c, block, header, off)
           S == {k \in Nat : k <= N => \A off \in (N - k)..N : Cuts(off)}
<1>0. N \in Nat
  OBVIOUS
<1>1. ASSUME NEW off \in 0..N, ~fits(block, header, off) PROVE Cuts(off)
  <2>1. g[off] = <<>>
    BY <1>1 DEF IsFrom
  <2>2. CutAt(<<>>, [i \in 0..0 |-> off], block, header, off)
    BY <1>1 DEF CutAt
  <2>3. QED
    BY <2>1, <2>2
<1>2. ASSUME NEW off \in 0..N, fits(block, header, off),
             Cuts(endOf(block, header, off))
      PROVE  Cuts(off)
  <2> DEFINE end == endOf(block, header, off)
             r   == SubSeq(block, off + 1, end)
             rest == g[end]
  <2>1. end \in 1..N /\ end > off
    BY <1>2, <1>0, RecordEnds
  <2>2. g[off] = <<r>> \o rest
    BY <1>2 DEF IsFrom
  <2>3. r \in Seq(Nat)
    BY <2>1
  <2>4. rest \in Seq(Seq(Nat))
    BY <1>2
  <2>5. PICK d : CutAt(rest, d, block, header, end)
    BY <1>2
  <2> DEFINE M == Len(rest)
             c == [i \in 0..(M + 1) |-> IF i = 0 THEN off ELSE d[i - 1]]
  <2>6. M \in Nat
    BY <2>4
  <2>7. d \in [0..M -> 0..N] /\ d[0] = end
    BY <2>5 DEF CutAt
  <2>8. /\ g[off] \in Seq(Seq(Nat)) /\ Len(g[off]) = M + 1
        /\ g[off][1] = r /\ \A i \in 1..M : g[off][i + 1] = rest[i]
    <3> HIDE DEF r, rest
    <3>1. <<r>> \in Seq(Seq(Nat)) /\ Len(<<r>>) = 1 /\ <<r>>[1] = r
      BY <2>3
    <3>2. /\ <<r>> \o rest \in Seq(Seq(Nat)) /\ Len(<<r>> \o rest) = 1 + M
          /\ \A i \in 1..(1 + M) : (<<r>> \o rest)[i] = IF i <= 1 THEN <<r>>[i] ELSE rest[i - 1]
      BY <3>1, <2>4, ConcatProperties
    <3> HIDE DEF M
    <3>3. \A i \in 1..M : (<<r>> \o rest)[i + 1] = rest[i]
      <4>1. TAKE i \in 1..M
      <4>2. i + 1 \in 1..(1 + M) /\ ~(i + 1 <= 1) /\ (i + 1) - 1 = i
        BY <2>6
      <4>3. QED
        BY <4>2, <3>2
    <3>4. (<<r>> \o rest)[1] = r
      BY <3>1, <3>2, <2>6
    <3>5. QED
      BY <3>2, <3>3, <3>4, <2>2, <2>6
  <2> HIDE DEF end, r, rest, M
  <2>9. c \in [0..(M + 1) -> 0..N] /\ c[0] = off /\ c[1] = end
        /\ \A i \in 1..(M + 1) : c[i] = d[i - 1]
    <3>1. \A i \in 0..(M + 1) : c[i] \in 0..N
      <4>1. TAKE i \in 0..(M + 1)
      <4>2. i # 0 => i - 1 \in 0..M
        BY <2>6
      <4>3. QED
        BY <4>2, <2>7
    <3>2. c[1] = d[0]
      BY <2>6
    <3>3. QED
      BY <3>1, <3>2, <2>6, <2>7
  <2> HIDE DEF c
  <2>10. \A i \in 1..(M + 1) :
           /\ fits(block, header, c[i - 1]) /\ c[i] = endOf(block, header, c[i - 1])
           /\ g[off][i] = SubSeq(block, c[i - 1] + 1, c[i])
    <3>1. TAKE i \in 1..(M + 1)
    <3>2. CASE i = 1
      <4>1. c[i - 1] = off /\ c[i] = end
        BY <3>2, <2>9
      <4>2. QED
        BY <4>1, <3>2, <1>2, <2>8 DEF end, r
    <3>3. CASE i # 1
      <4>1. i - 1 \in 1..M /\ (i - 1) + 1 = i /\ i - 1 \in 1..(M + 1)
        BY <3>3, <2>6
      <4>2. c[i - 1] = d[(i - 1) - 1] /\ c[i] = d[i - 1]
        BY <4>1, <2>9
      <4>3. g[off][i] = rest[i - 1]
        <5>1. g[off][(i - 1) + 1] = rest[i - 1]
          BY <4>1, <2>8
        <5>2. QED
          BY <5>1, <4>1
      <4>4. /\ fits(block, header, d[(i - 1) - 1])
            /\ d[i - 1] = endOf(block, header, d[(i - 1) - 1])
            /\ rest[i - 1] = SubSeq(block, d[(i - 1) - 1] + 1, d[i - 1])
        BY <4>1, <2>5 DEF CutAt, M
      <4>5. QED
        BY <4>2, <4>3, <4>4
    <3>4. QED
      BY <3>2, <3>3
  <2>11. ~fits(block, header, c[M + 1])
    <3>1. c[M + 1] = d[(M + 1) - 1] /\ (M + 1) - 1 = M
      BY <2>6, <2>9
    <3>2. c[M + 1] = d[M]
      BY <3>1
    <3>3. ~fits(block, header, d[M])
      BY <2>5 DEF CutAt, M
    <3>4. QED
      BY <3>2, <3>3
  <2>12. CutAt(g[off], c, block, header, off)
    BY <2>8, <2>9, <2>10, <2>11 DEF CutAt
  <2>13. QED
    BY <2>8, <2>12
<1> HIDE DEF Cuts
<1>3. 0 \in S
  <2>1. ~fits(block, header, N)
    BY DEF fits
  <2>2. Cuts(N)
    BY <2>1, <1>0, <1>1
  <2>3. QED
    BY <2>2, <1>0
<1>4. ASSUME NEW k \in Nat, k \in S PROVE k + 1 \in S
  <2>1. ASSUME k + 1 <= N, NEW off \in (N - (k + 1))..N PROVE Cuts(off)
    <3>1. off \in 0..N
      BY <2>1, <1>0
    <3>2. CASE fits(block, header, off)
      <4>1. endOf(block, header, off) > off /\ endOf(block, header, off) \in (off + header)..N
        BY <3>1, <3>2, RecordEnds
      <4>2. endOf(block, header, off) \in (N - k)..N
        BY <4>1, <2>1, <1>0, <3>1
      <4>3. Cuts(endOf(block, header, off))
        BY <4>2, <1>4, <2>1, <1>0
      <4>4. QED
        BY <3>1, <3>2, <4>3, <1>2
    <3>3. QED
      BY <3>1, <3>2, <1>1
  <2>2. QED
    BY <2>1
<1>5. \A k \in Nat : k \in S
  <2> HIDE DEF S
  <2>1. QED
    BY <1>3, <1>4, SetInduction
<1>6. Cuts(0)
  BY <1>5, <1>0
<1>7. QED
  BY <1>6 DEF Cuts

(* The flattening of the first n of the sets, as FlattenSeq computes it.   *)
IsFlat(g, sets, n) ==
  g = [i \in 1..n |-> IF i = 1 THEN sets[i] ELSE g[i - 1] \o sets[i]]

(* The recursion of FlattenSeq has a solution for every length.            *)
LEMMA FlatExists ==
  ASSUME NEW sets, NEW n \in Nat
  PROVE  \E g : IsFlat(g, sets, n)
<1> DEFINE S == {k \in Nat : \E g : IsFlat(g, sets, k)}
<1>1. 0 \in S
  <2>1. IsFlat([i \in 1..0 |-> <<>>], sets, 0)
    BY DEF IsFlat
  <2>2. QED
    BY <2>1
<1>2. ASSUME NEW k \in Nat, k \in S PROVE k + 1 \in S
  <2>1. PICK g : IsFlat(g, sets, k)
    BY <1>2
  <2> DEFINE h == [i \in 1..(k + 1) |-> IF i = 1 THEN sets[i] ELSE g[i - 1] \o sets[i]]
  <2>2. \A i \in 1..k : h[i] = g[i]
    <3>1. \A i \in 1..k : g[i] = IF i = 1 THEN sets[i] ELSE g[i - 1] \o sets[i]
      BY <2>1 DEF IsFlat
    <3>2. \A i \in 1..k : i \in 1..(k + 1)
      OBVIOUS
    <3>3. QED
      BY <3>1, <3>2
  <2>3. \A i \in 1..(k + 1) : i # 1 => h[i - 1] = g[i - 1]
    <3>1. TAKE i \in 1..(k + 1)
    <3>2. i # 1 => i - 1 \in 1..k
      OBVIOUS
    <3> HIDE DEF h
    <3>3. QED
      BY <2>2, <3>2
  <2>4. IsFlat(h, sets, k + 1)
    BY <2>3 DEF IsFlat
  <2>5. QED
    BY <2>4
<1> HIDE DEF S
<1>3. \A k \in Nat : k \in S
  BY <1>1, <1>2, SetInduction
<1>4. QED
  BY <1>3 DEF S

(* Flattened, the records are the front of the block up to the last cut.   *)
LEMMA FlatIsFront ==
  ASSUME NEW block \in Seq(Nat), NEW sets \in Seq(Seq(Nat)),
         NEW c \in [0..Len(sets) -> 0..Len(block)], c[0] = 0,
         \A i \in 1..Len(sets) : /\ c[i - 1] <= c[i]
                                 /\ sets[i] = SubSeq(block, c[i - 1] + 1, c[i])
  PROVE  FlattenSeq(sets) = SubSeq(block, 1, c[Len(sets)])
<1> DEFINE M == Len(sets)
<1>0. M \in Nat
  OBVIOUS
<1>1. CASE M = 0
  <2>1. sets = <<>>
    BY <1>1
  <2>2. SubSeq(block, 1, 0) = <<>>
    BY SubSeqEmpty
  <2>3. QED
    BY <1>1, <2>1, <2>2 DEF FlattenSeq
<1>2. CASE M # 0
  <2>1. PICK g : IsFlat(g, sets, M) /\ FlattenSeq(sets) = g[M]
    <3>1. \E g : IsFlat(g, sets, M)
      BY <1>0, FlatExists
    <3>2. QED
      BY <3>1, <1>2 DEF IsFlat, FlattenSeq
  <2> DEFINE S == {k \in Nat : k + 1 <= M => g[k + 1] = SubSeq(block, 1, c[k + 1])}
  <2>2. \A i \in 1..M : g[i] = IF i = 1 THEN sets[i] ELSE g[i - 1] \o sets[i]
    BY <2>1 DEF IsFlat
  <2>3. 0 \in S
    <3>1. 1 \in 1..M /\ 1 - 1 = 0 /\ 0 + 1 = 1
      BY <1>0, <1>2
    <3>2. g[1] = SubSeq(block, c[1 - 1] + 1, c[1])
      BY <3>1, <2>2
    <3>3. g[1] = SubSeq(block, 1, c[1])
      BY <3>1, <3>2
    <3>4. QED
      BY <3>1, <3>3
  <2>4. ASSUME NEW k \in Nat, k \in S PROVE k + 1 \in S
    <3>1. CASE (k + 1) + 1 <= M
      <4> DEFINE n == k + 1
      <4>1. n \in 1..M /\ n + 1 \in 1..M /\ (n + 1) - 1 = n /\ n + 1 # 1
        BY <3>1, <1>0
      <4>2. g[n] = SubSeq(block, 1, c[n])
        BY <2>4, <4>1
      <4> HIDE DEF n
      <4>3. g[n + 1] = g[n] \o sets[n + 1]
        <5>1. g[n + 1] = g[(n + 1) - 1] \o sets[n + 1]
          BY <4>1, <2>2
        <5>2. QED
          BY <5>1, <4>1
      <4>4. c[n] <= c[n + 1] /\ sets[n + 1] = SubSeq(block, c[n] + 1, c[n + 1])
        <5>1. /\ c[(n + 1) - 1] <= c[n + 1]
              /\ sets[n + 1] = SubSeq(block, c[(n + 1) - 1] + 1, c[n + 1])
          BY <4>1
        <5>2. QED
          BY <5>1, <4>1
      <4>5. c[n] \in 0..Len(block) /\ c[n + 1] \in 0..Len(block)
        <5>1. n \in 0..Len(sets) /\ n + 1 \in 0..Len(sets)
          BY <4>1, <1>0
        <5>2. QED
          BY <5>1
      <4>6. SubSeq(block, 1, c[n]) \o SubSeq(block, c[n] + 1, c[n + 1])
              = SubSeq(block, 1, c[n + 1])
        <5>1. /\ 1 \in 1..(Len(block) + 1) /\ c[n] \in (1 - 1)..Len(block)
              /\ c[n + 1] \in c[n]..Len(block)
          BY <4>4, <4>5
        <5>2. QED
          BY <5>1, ConcatAdjacentSubSeq
      <4>7. g[n + 1] = SubSeq(block, 1, c[n + 1])
        BY <4>2, <4>3, <4>4, <4>6
      <4>8. QED
        BY <4>7 DEF n
    <3>2. CASE ~((k + 1) + 1 <= M)
      BY <3>2
    <3>3. QED
      BY <3>1, <3>2
  <2>5. \A k \in Nat : k \in S
    <3> HIDE DEF S
    <3>1. QED
      BY <2>3, <2>4, SetInduction
  <2>6. M - 1 \in Nat /\ (M - 1) + 1 = M /\ M - 1 \in S
    <3>1. M - 1 \in Nat /\ (M - 1) + 1 = M
      BY <1>0, <1>2
    <3> HIDE DEF S, M
    <3>2. QED
      BY <3>1, <2>5
  <2>7. g[(M - 1) + 1] = SubSeq(block, 1, c[(M - 1) + 1])
    BY <2>6
  <2>8. QED
    BY <2>1, <2>6, <2>7
<1>3. QED
  BY <1>1, <1>2

(* The parsers stay within the block and take the whole records at its     *)
(* front, as many as were announced or as fit: for every block and every   *)
(* number announced.                                                       *)
THEOREM ParsedIsFront ==
  ASSUME NEW block \in Seq(Nat), NEW header \in Nat \ {0}, NEW expected \in Nat
  PROVE  IsFrontOf(parsed(block, header, expected), block, header, expected)
<1> DEFINE N    == Len(block)
           all  == records(block, header)
           sets == parsed(block, header, expected)
           M    == Len(sets)
<1>0. N \in Nat
  OBVIOUS
<1>1. PICK c : all \in Seq(Seq(Nat)) /\ CutAt(all, c, block, header, 0)
  <2>1. PICK g : IsFrom(g, block, header, 0) /\ all = g[0]
    <3>1. \E g : IsFrom(g, block, header, 0)
      BY FromExists
    <3>2. QED
      BY <3>1 DEF IsFrom, records, endOf
  <2>2. QED
    BY <2>1, FromCuts
<1>2. /\ Len(all) \in Nat
      /\ c \in [0..Len(all) -> 0..N] /\ c[0] = 0
      /\ \A i \in 1..Len(all) :
           /\ fits(block, header, c[i - 1]) /\ c[i] = endOf(block, header, c[i - 1])
           /\ all[i] = SubSeq(block, c[i - 1] + 1, c[i])
      /\ ~fits(block, header, c[Len(all)])
  BY <1>1 DEF CutAt
<1> HIDE DEF all
<1>3. /\ sets \in Seq(Seq(Nat)) /\ M \in 0..Len(all) /\ M <= expected
      /\ M = expected \/ M = Len(all)
      /\ \A i \in 1..M : sets[i] = all[i]
  <2>1. CASE Len(all) <= expected
    BY <2>1, <1>1, <1>2 DEF parsed, all
  <2>2. CASE ~(Len(all) <= expected)
    <3>1. sets = SubSeq(all, 1, expected)
      BY <2>2 DEF parsed, all
    <3>2. \A i \in 1..expected : all[i] \in Seq(Nat)
      BY <1>1, <1>2, <2>2
    <3>3. /\ SubSeq(all, 1, expected) \in Seq(Seq(Nat))
          /\ Len(SubSeq(all, 1, expected)) = IF 1 <= expected THEN expected - 1 + 1 ELSE 0
          /\ \A i \in 1..(expected - 1 + 1) : SubSeq(all, 1, expected)[i] = all[1 + i - 1]
      BY <3>2, SubSeqProperties
    <3>4. M = expected
      BY <3>1, <3>3
    <3>5. \A i \in 1..M : sets[i] = all[i]
      <4>1. TAKE i \in 1..M
      <4>2. 1 + i - 1 = i /\ i \in 1..(expected - 1 + 1)
        BY <3>4
      <4>3. QED
        BY <4>2, <3>1, <3>3
    <3>6. QED
      BY <3>1, <3>3, <3>4, <3>5, <2>2, <1>2
  <2>3. QED
    BY <2>1, <2>2
<1> HIDE DEF sets, M
<1>4. \A i \in 1..M :
        /\ c[i - 1] \in 0..N /\ c[i] \in 0..N /\ c[i - 1] + header <= c[i]
        /\ block[c[i - 1] + header] \in Nat /\ c[i - 1] + header <= N
        /\ c[i] - c[i - 1] = header + 2 * block[c[i - 1] + header]
        /\ sets[i] = SubSeq(block, c[i - 1] + 1, c[i])
  <2>1. TAKE i \in 1..M
  <2>2. i \in 1..Len(all) /\ i - 1 \in 0..Len(all) /\ i \in 0..Len(all)
    BY <1>2, <1>3
  <2>3. c[i - 1] \in 0..N /\ c[i] \in 0..N
    BY <2>2, <1>2
  <2>4. fits(block, header, c[i - 1]) /\ c[i] = endOf(block, header, c[i - 1])
    BY <2>2, <1>2
  <2>5. /\ endOf(block, header, c[i - 1]) \in (c[i - 1] + header)..N
        /\ block[c[i - 1] + header] \in Nat /\ c[i - 1] + header \in 1..N
    BY <2>3, <2>4, RecordEnds
  <2>6. c[i] = c[i - 1] + (header + 2 * block[c[i - 1] + header])
    BY <2>4 DEF endOf, size
  <2>7. sets[i] = SubSeq(block, c[i - 1] + 1, c[i])
    BY <2>2, <1>2, <1>3
  <2> DEFINE lo == c[i - 1]
             hi == c[i]
             b  == block[lo + header]
  <2>8. /\ lo \in 0..N /\ hi \in 0..N /\ b \in Nat /\ hi = lo + (header + 2 * b)
        /\ lo + header \in 1..N
    BY <2>3, <2>4, <2>5, <2>6
  <2> HIDE DEF lo, hi, b
  <2>9. lo + header <= hi /\ lo + header <= N /\ hi - lo = header + 2 * b
    BY <2>8, <1>0
  <2>10. QED
    BY <2>7, <2>8, <2>9 DEF lo, hi, b
<1>5. FlattenSeq(sets) = SubSeq(block, 1, c[M])
  <2> DEFINE d == [i \in 0..M |-> c[i]]
  <2>1. d \in [0..M -> 0..N] /\ d[0] = 0 /\ d[M] = c[M]
    <3>1. M \in Nat /\ 0 \in 0..M /\ M \in 0..M /\ 0..M \subseteq 0..Len(all)
      BY <1>2, <1>3
    <3>2. QED
      BY <3>1, <1>2
  <2>2. \A i \in 1..M : d[i - 1] = c[i - 1] /\ d[i] = c[i]
    <3>1. TAKE i \in 1..M
    <3>2. i - 1 \in 0..M /\ i \in 0..M
      BY <1>3
    <3>3. QED
      BY <3>2
  <2> HIDE DEF d
  <2>3. \A i \in 1..M : d[i - 1] <= d[i] /\ sets[i] = SubSeq(block, d[i - 1] + 1, d[i])
    <3>1. TAKE i \in 1..M
    <3>2. /\ c[i - 1] \in 0..N /\ c[i] \in 0..N /\ c[i - 1] + header <= c[i]
          /\ sets[i] = SubSeq(block, c[i - 1] + 1, c[i])
      BY <1>4
    <3>3. c[i - 1] <= c[i]
      BY <3>2
    <3>4. QED
      BY <3>2, <3>3, <2>2
  <2>4. QED
    BY <2>1, <2>3, <1>3, FlatIsFront DEF M
<1> DEFINE front == SubSeq(block, 1, c[M])
<1>6. c[M] \in 0..N
  BY <1>2, <1>3
<1>7. /\ front \in Seq(Nat) /\ Len(front) = c[M]
  <2>1. \A i \in 1..c[M] : block[i] \in Nat
    BY <1>6, <1>0
  <2>2. c[M] \in Int /\ 1 \in Int
    BY <1>6
  <2>3. /\ front \in Seq(Nat)
        /\ Len(front) = IF 1 <= c[M] THEN c[M] - 1 + 1 ELSE 0
    BY <2>1, <2>2, SubSeqProperties
  <2>4. QED
    BY <2>3, <1>6
<1>8. IsPrefix(front, block)
  <2>1. SubSeq(front, 1, Len(front)) = front
    BY <1>7, SubSeqFull
  <2> HIDE DEF front
  <2>2. SubSeq(front, 1, Len(front)) = SubSeq(block, 1, Len(front)) /\ Len(front) <= N
    BY <2>1, <1>7, <1>6 DEF front
  <2>3. QED
    BY <2>2 DEF IsPrefix
<1>9. \A i \in 1..M : IsRecord(sets[i], header)
  <2>1. TAKE i \in 1..M
  <2> DEFINE lo == c[i - 1]
             hi == c[i]
             r  == SubSeq(block, lo + 1, hi)
  <2>2. /\ lo \in 0..N /\ hi \in 0..N /\ lo + header <= hi /\ lo + header <= N
        /\ block[lo + header] \in Nat /\ hi - lo = header + 2 * block[lo + header]
        /\ sets[i] = r
    BY <1>4
  <2> HIDE DEF lo, hi
  <2>3. /\ Len(r) = IF lo + 1 <= hi THEN hi - (lo + 1) + 1 ELSE 0
        /\ \A j \in 1..(hi - (lo + 1) + 1) : r[j] = block[lo + 1 + j - 1]
    <3>1. \A j \in (lo + 1)..hi : block[j] \in Nat
      <4>1. TAKE j \in (lo + 1)..hi
      <4>2. j \in 1..N
        BY <2>2, <1>0
      <4>3. QED
        BY <4>2
    <3>2. lo + 1 \in Int /\ hi \in Int
      BY <2>2
    <3>3. QED
      BY <3>1, <3>2, SubSeqProperties
  <2>4. Len(r) = hi - lo
    BY <2>2, <2>3
  <2>5. r[header] = block[lo + header]
    <3>1. header \in 1..(hi - (lo + 1) + 1) /\ lo + 1 + header - 1 = lo + header
      BY <2>2
    <3>2. QED
      BY <3>1, <2>3
  <2> HIDE DEF r
  <2>6. QED
    BY <2>2, <2>4, <2>5 DEF IsRecord
<1>10. ASSUME M # expected, NEW n \in (c[M] + 1)..N,
              IsRecord(SubSeq(block, c[M] + 1, n), header)
       PROVE  FALSE
  <2> DEFINE lo == c[M]
             r  == SubSeq(block, lo + 1, n)
  <2>1. M = Len(all) /\ ~fits(block, header, lo)
    BY <1>10, <1>2, <1>3
  <2>2. lo \in 0..N /\ n \in (lo + 1)..N
    BY <1>6, <1>10
  <2>3. IsRecord(r, header)
    BY <1>10
  <2> HIDE DEF lo
  <2>4. /\ Len(r) = IF lo + 1 <= n THEN n - (lo + 1) + 1 ELSE 0
        /\ \A j \in 1..(n - (lo + 1) + 1) : r[j] = block[lo + 1 + j - 1]
    <3>1. \A j \in (lo + 1)..n : block[j] \in Nat
      BY <2>2, <1>0
    <3>2. lo + 1 \in Int /\ n \in Int
      BY <2>2
    <3>3. QED
      BY <3>1, <3>2, SubSeqProperties
  <2>5. Len(r) = n - lo
    BY <2>2, <2>4
  <2>6. header <= n - lo /\ n - lo = header + 2 * r[header]
    BY <2>3, <2>5 DEF IsRecord
  <2>7. r[header] = block[lo + header]
    <3>1. header \in 1..(n - (lo + 1) + 1) /\ lo + 1 + header - 1 = lo + header
      BY <2>2, <2>6
    <3>2. QED
      BY <3>1, <2>4
  <2>8. lo + header \in 1..N /\ block[lo + header] \in Nat
    BY <2>2, <2>6, <1>0
  <2> HIDE DEF r
  <2>9. fits(block, header, lo)
    BY <2>2, <2>6, <2>7, <2>8 DEF fits, size
  <2>10. QED
    BY <2>1, <2>9
<1>11. DOMAIN sets = 1..M
  BY <1>3 DEF M
<1> HIDE DEF front
<1>12. QED
  <2>1. FlattenSeq(sets) = front /\ Len(front) = c[M]
    BY <1>5, <1>7 DEF front
  <2>2. M <= expected
    BY <1>3
  <2>3. M = expected \/ \A n \in (Len(front) + 1)..N :
                           ~IsRecord(SubSeq(block, Len(front) + 1, n), header)
    BY <1>10, <2>1
  <2>4. IsFrontOf(sets, block, header, expected)
    BY <2>1, <2>2, <2>3, <1>8, <1>9, <1>11 DEF IsFrontOf, M
  <2>5. QED
    BY <2>4 DEF sets

-----------------------------------------------------------------------------
(* The chunks of an entry that are there.                                  *)
Present(e) == {i \in 1..Total(e.f) : e.chunks[i] # <<>>}

(* No piece is empty: handleChunk tells a repeated chunk by the size of    *)
(* what it stored before.                                                  *)
PiecesThere(f) == \A i \in 1..Total(f) : Pieces(f)[i] # <<>>

(* What is in the map under u, when the server sent s of its frame, q is   *)
(* the silence since and n counts its deliveries: a started frame with     *)
(* that uuid, its chunks each its own or still empty, a counter that is at *)
(* least the number of chunks sent, and a clock not ahead of the silence.  *)
EntryShape(e, u, s, n) ==
  /\ e = [f |-> e.f, buf |-> e.buf, received |-> e.received, age |-> e.age,
          chunks |-> e.chunks]
  /\ e.f \in Frame /\ Uuid(e.f) = u /\ n = 0
  /\ 0 \in s /\ s \in SUBSET (0..Total(e.f))
  /\ e.buf = filled(e.buf, e.f)
EntryClock(e, q) == e.age \in Nat /\ q \in Nat /\ e.age <= q
EntryChunks(e, s) ==
  /\ e.chunks \in Seq(Seq(Cell)) /\ Len(e.chunks) = Total(e.f)
  /\ \A i \in 1..Total(e.f) :
       e.chunks[i] = <<>> \/ (e.chunks[i] = Pieces(e.f)[i] /\ i \in s)
EntryCounter(e, s) ==
  /\ e.received \in Nat
  /\ Total(e.f) > 0 => e.received < Total(e.f)
  /\ Cardinality(s \ {0}) <= e.received
  /\ PiecesThere(e.f) => e.received = Cardinality(Present(e))

EntryInv(e, u, s, q, n) ==
  EntryShape(e, u, s, n) /\ EntryClock(e, q) /\ EntryChunks(e, s) /\ EntryCounter(e, s)

(* The frame of an entry has the type of a frame.                          *)
LEMMA FrameType ==
  ASSUME NEW f \in Frame
  PROVE  /\ Pieces(f) \in Seq(Seq(Cell)) /\ Total(f) \in Nat /\ TotalSize(f) \in Nat
         /\ Block(f) \in Seq(Nat) /\ NumSets(f) \in Nat
         /\ \A i \in 1..Total(f) : Pieces(f)[i] \in Seq(Cell)
BY ReassemblerAssumption DEF Total

(* Filling a filled buffer changes nothing.                                *)
LEMMA FilledTwice ==
  ASSUME NEW buf, NEW f
  PROVE  filled(filled(buf, f), f) = filled(buf, f)
BY DEF filled

(* A front of the numbers is finite, and 1..k has k elements.              *)
LEMMA FrontIsFinite ==
  ASSUME NEW k \in Nat
  PROVE  IsFiniteSet(0..k) /\ IsFiniteSet(1..k) /\ Cardinality(1..k) = k
<1>1. 0 \in Int /\ 1 \in Int /\ k \in Int
  OBVIOUS
<1>2. IsFiniteSet(0..k) /\ IsFiniteSet(1..k)
  BY <1>1, FS_Interval
<1>3. Cardinality(1..k) = IF 1 > k THEN 0 ELSE k - 1 + 1
  BY <1>1, FS_Interval
<1>4. QED
  BY <1>2, <1>3

(* The empty slots of a staged frame.                                      *)
LEMMA EmptySlots ==
  ASSUME NEW k \in Nat, NEW slotsOf, slotsOf = [i \in 1..k |-> <<>>]
  PROVE  /\ slotsOf \in Seq(Seq(Cell)) /\ Len(slotsOf) = k
         /\ \A i \in 1..k : slotsOf[i] = <<>>
<1>1. slotsOf \in [1..k -> Seq(Cell)] /\ DOMAIN slotsOf = 1..k
  OBVIOUS
<1>2. slotsOf \in Seq(Seq(Cell))
  BY <1>1, SeqDef
<1>3. Len(slotsOf) = k
  BY <1>1, <1>2, LenProperties
<1>4. QED
  BY <1>2, <1>3

(* chunkStored, field by field.                                            *)
LEMMA StoredRecord ==
  ASSUME NEW f, NEW buf, NEW received, NEW age, NEW chunks, NEW i, NEW piece
  PROVE  chunkStored([f |-> f, buf |-> buf, received |-> received, age |-> age,
                      chunks |-> chunks], i, piece)
           = [f |-> f, buf |-> buf, received |-> received + 1, age |-> 0,
              chunks |-> [chunks EXCEPT ![i] = piece]]
<1> DEFINE more == [chunks EXCEPT ![i] = piece]
           e    == [f |-> f, buf |-> buf, received |-> received, age |-> age, chunks |-> chunks]
           e1   == [f |-> f, buf |-> buf, received |-> received, age |-> age, chunks |-> more]
           e2   == [f |-> f, buf |-> buf, received |-> received + 1, age |-> age,
                    chunks |-> more]
<1>1. [e EXCEPT !.chunks[i] = piece] = e1
  <2> HIDE DEF more
  <2>1. [e EXCEPT !.chunks = more] = e1
    OBVIOUS
  <2>2. e.chunks = chunks
    OBVIOUS
  <2>3. QED
    BY <2>1, <2>2 DEF more
<1>2. [e1 EXCEPT !.received = @ + 1] = e2
  <2> HIDE DEF more
  <2>1. QED
    OBVIOUS
<1>3. [e2 EXCEPT !.age = 0] = [f |-> f, buf |-> buf, received |-> received + 1, age |-> 0,
                               chunks |-> more]
  <2> HIDE DEF more
  <2>1. QED
    OBVIOUS
<1>4. chunkStored(e, i, piece) = [[[e EXCEPT !.chunks[i] = piece]
                                     EXCEPT !.received = @ + 1] EXCEPT !.age = 0]
  BY DEF chunkStored
<1>5. QED
  BY <1>1, <1>2, <1>3, <1>4

(* A frame that is staged.                                                 *)
LEMMA StagedEntry ==
  ASSUME NEW f \in Frame, NEW buf
  PROVE  EntryInv([f |-> f, buf |-> filled(buf, f), received |-> 0, age |-> 0,
                   chunks |-> [i \in 1..Total(f) |-> <<>>]], Uuid(f), {0}, 0, 0)
<1> DEFINE e == [f |-> f, buf |-> filled(buf, f), received |-> 0, age |-> 0,
                 chunks |-> [i \in 1..Total(f) |-> <<>>]]
<1>1. /\ e.f = f /\ e.buf = filled(buf, f) /\ e.received = 0 /\ e.age = 0
      /\ e.chunks = [i \in 1..Total(f) |-> <<>>]
  OBVIOUS
<1>2. e = [f |-> e.f, buf |-> e.buf, received |-> e.received, age |-> e.age,
           chunks |-> e.chunks]
  OBVIOUS
<1> HIDE DEF e
<1>3. Total(f) \in Nat
  BY FrameType
<1>4. e.chunks \in Seq(Seq(Cell)) /\ Len(e.chunks) = Total(f)
      /\ \A i \in 1..Total(f) : e.chunks[i] = <<>>
  BY <1>1, <1>3, EmptySlots
<1>5. Present(e) = {}
  BY <1>1, <1>4 DEF Present
<1>6. Cardinality({}) = 0 /\ {0} \ {0} = {}
  BY FS_EmptySet
<1>7. e.buf = filled(e.buf, e.f)
  BY <1>1, FilledTwice
<1>8. {0} \in SUBSET (0..Total(f)) /\ 0 \in {0}
  BY <1>3
<1>9. EntryShape(e, Uuid(f), {0}, 0)
  BY <1>1, <1>2, <1>7, <1>8 DEF EntryShape
<1>10. EntryClock(e, 0)
  BY <1>1 DEF EntryClock
<1>11. EntryChunks(e, {0})
  BY <1>1, <1>4 DEF EntryChunks
<1>12. EntryCounter(e, {0})
  <2>1. Cardinality({0} \ {0}) = 0 /\ Cardinality(Present(e)) = 0
    BY <1>5, <1>6
  <2>2. QED
    BY <2>1, <1>1, <1>3 DEF EntryCounter
<1>13. QED
  BY <1>9, <1>10, <1>11, <1>12 DEF EntryInv, e

(* The fields of an entry after a chunk was stored.                        *)
LEMMA StoredFields ==
  ASSUME NEW e, NEW u, NEW s, NEW q, NEW n, EntryInv(e, u, s, q, n),
         NEW i \in 1..Total(e.f), e.chunks[i] = <<>>
  PROVE  LET d == chunkStored(e, i, Pieces(e.f)[i])
         IN  /\ d = [f |-> d.f, buf |-> d.buf, received |-> d.received, age |-> d.age,
                     chunks |-> d.chunks]
             /\ d.f = e.f /\ d.buf = e.buf /\ d.received = e.received + 1 /\ d.age = 0
             /\ d.chunks \in Seq(Seq(Cell)) /\ Len(d.chunks) = Total(e.f)
             /\ \A j \in 1..Total(e.f) :
                  d.chunks[j] = IF j = i THEN Pieces(e.f)[i] ELSE e.chunks[j]
<1> DEFINE d == chunkStored(e, i, Pieces(e.f)[i])
<1>1. e = [f |-> e.f, buf |-> e.buf, received |-> e.received, age |-> e.age,
           chunks |-> e.chunks]
  BY DEF EntryInv, EntryShape, EntryClock, EntryChunks, EntryCounter
<1>7. d = [f |-> e.f, buf |-> e.buf, received |-> e.received + 1, age |-> 0,
           chunks |-> [e.chunks EXCEPT ![i] = Pieces(e.f)[i]]]
  BY <1>1, StoredRecord
<1> HIDE DEF d
<1>2. /\ d.f = e.f /\ d.buf = e.buf /\ d.received = e.received + 1 /\ d.age = 0
      /\ d.chunks = [e.chunks EXCEPT ![i] = Pieces(e.f)[i]]
  BY <1>7
<1>3. d = [f |-> d.f, buf |-> d.buf, received |-> d.received, age |-> d.age,
           chunks |-> d.chunks]
  BY <1>7
<1>4. /\ e.chunks \in Seq(Seq(Cell)) /\ i \in 1..Len(e.chunks) /\ Len(e.chunks) = Total(e.f)
      /\ Pieces(e.f)[i] \in Seq(Cell)
  BY FrameType DEF EntryInv, EntryShape, EntryClock, EntryChunks, EntryCounter
<1>5. /\ d.chunks \in Seq(Seq(Cell)) /\ Len(d.chunks) = Len(e.chunks)
      /\ \A j \in 1..Len(e.chunks) :
           d.chunks[j] = IF j = i THEN Pieces(e.f)[i] ELSE e.chunks[j]
  BY <1>2, <1>4, ExceptSeq
<1>6. QED
  BY <1>2, <1>3, <1>4, <1>5 DEF d

(* A stored chunk is one more that is there, unless it is empty.           *)
LEMMA StoredPresent ==
  ASSUME NEW e, NEW u, NEW s, NEW q, NEW n, EntryInv(e, u, s, q, n),
         NEW i \in 1..Total(e.f), e.chunks[i] = <<>>, PiecesThere(e.f)
  PROVE  LET d == chunkStored(e, i, Pieces(e.f)[i])
         IN  /\ Cardinality(Present(d)) = e.received + 1
             /\ Present(d) \in SUBSET (1..Total(e.f))
<1> DEFINE d == chunkStored(e, i, Pieces(e.f)[i])
<1>1. /\ d.f = e.f
      /\ \A j \in 1..Total(e.f) :
           d.chunks[j] = IF j = i THEN Pieces(e.f)[i] ELSE e.chunks[j]
  BY StoredFields
<1> HIDE DEF d
<1>2. Pieces(e.f)[i] # <<>>
  BY DEF PiecesThere
<1>3. Present(d) = Present(e) \cup {i}
  BY <1>1, <1>2 DEF Present
<1>4. i \notin Present(e)
  BY DEF Present
<1>5. Present(e) \in SUBSET (1..Total(e.f)) /\ Total(e.f) \in Nat
  BY FrameType DEF Present, EntryInv, EntryShape, EntryClock, EntryChunks, EntryCounter
<1>6. IsFiniteSet(Present(e))
  BY <1>5, FrontIsFinite, FS_Subset
<1>7. Cardinality(Present(d)) = Cardinality(Present(e)) + 1
  BY <1>3, <1>4, <1>6, FS_AddElement
<1>8. e.received = Cardinality(Present(e))
  BY DEF EntryInv, EntryShape, EntryClock, EntryChunks, EntryCounter
<1>9. QED
  BY <1>3, <1>5, <1>7, <1>8 DEF d

(* One more element is at most one more.                                   *)
LEMMA OneMore ==
  ASSUME NEW k \in Nat, NEW s \in SUBSET (0..k), NEW i \in 1..k
  PROVE  /\ Cardinality(s \ {0}) \in Nat
         /\ Cardinality((s \cup {i}) \ {0})
              = IF i \in s THEN Cardinality(s \ {0}) ELSE Cardinality(s \ {0}) + 1
<1>1. IsFiniteSet(s \ {0})
  <2>1. s \ {0} \in SUBSET (0..k)
    OBVIOUS
  <2>2. QED
    BY <2>1, FrontIsFinite, FS_Subset
<1>2. (s \cup {i}) \ {0} = (s \ {0}) \cup {i} /\ (i \in s \ {0} <=> i \in s)
  OBVIOUS
<1>3. QED
  BY <1>1, <1>2, FS_AddElement, FS_CardinalityType

(* A chunk that is stored, and not the last.                               *)
LEMMA StoredEntry ==
  ASSUME NEW e, NEW u, NEW s, NEW q, NEW n, EntryInv(e, u, s, q, n),
         NEW i \in 1..Total(e.f), e.chunks[i] = <<>>, e.received + 1 # Total(e.f)
  PROVE  EntryInv(chunkStored(e, i, Pieces(e.f)[i]), u, s \cup {i},
                  IF i \in s THEN q ELSE 0, n)
<1> DEFINE d  == chunkStored(e, i, Pieces(e.f)[i])
           q2 == IF i \in s THEN q ELSE 0
<1>1. /\ d = [f |-> d.f, buf |-> d.buf, received |-> d.received, age |-> d.age,
              chunks |-> d.chunks]
      /\ d.f = e.f /\ d.buf = e.buf /\ d.received = e.received + 1 /\ d.age = 0
      /\ d.chunks \in Seq(Seq(Cell)) /\ Len(d.chunks) = Total(e.f)
      /\ \A j \in 1..Total(e.f) :
           d.chunks[j] = IF j = i THEN Pieces(e.f)[i] ELSE e.chunks[j]
  BY StoredFields
<1>2. PiecesThere(e.f) => Cardinality(Present(d)) = e.received + 1
  BY StoredPresent
<1> HIDE DEF d
<1>3. /\ e.f \in Frame /\ Uuid(e.f) = u /\ 0 \in s /\ s \in SUBSET (0..Total(e.f))
      /\ e.buf = filled(e.buf, e.f)
      /\ e.age \in Nat /\ q \in Nat /\ e.received \in Nat /\ n = 0
      /\ Total(e.f) > 0 => e.received < Total(e.f)
      /\ Cardinality(s \ {0}) <= e.received
      /\ \A j \in 1..Total(e.f) :
           e.chunks[j] = <<>> \/ (e.chunks[j] = Pieces(e.f)[j] /\ j \in s)
  BY DEF EntryInv, EntryShape, EntryClock, EntryChunks, EntryCounter
<1>4. Total(e.f) \in Nat
  BY <1>3, FrameType
<1>5. s \cup {i} \in SUBSET (0..Total(e.f)) /\ 0 \in s \cup {i}
  <2>1. i \in 0..Total(e.f)
    BY <1>4
  <2>2. QED
    BY <1>3, <2>1
<1>6. d.age \in Nat /\ q2 \in Nat /\ d.age <= q2
  BY <1>1, <1>3
<1>7. Total(d.f) > 0 => d.received < Total(d.f)
  BY <1>1, <1>3, <1>4
<1>8. Cardinality((s \cup {i}) \ {0}) <= d.received
  <2>1. /\ Cardinality(s \ {0}) \in Nat
        /\ Cardinality((s \cup {i}) \ {0})
              = IF i \in s THEN Cardinality(s \ {0}) ELSE Cardinality(s \ {0}) + 1
    BY <1>3, <1>4, OneMore
  <2>2. QED
    BY <2>1, <1>1, <1>3
<1>9. \A j \in 1..Total(d.f) :
        d.chunks[j] = <<>> \/ (d.chunks[j] = Pieces(d.f)[j] /\ j \in s \cup {i})
  BY <1>1, <1>3
<1>10. PiecesThere(d.f) => d.received = Cardinality(Present(d))
  BY <1>1, <1>2
<1>11. EntryInv(d, u, s \cup {i}, q2, n)
  <2>1. EntryShape(d, u, s \cup {i}, n)
    BY <1>1, <1>3, <1>5 DEF EntryShape
  <2>2. EntryClock(d, q2)
    BY <1>6 DEF EntryClock
  <2>3. EntryChunks(d, s \cup {i})
    <3>1. d.chunks \in Seq(Seq(Cell)) /\ Len(d.chunks) = Total(d.f)
      BY <1>1
    <3>2. QED
      BY <3>1, <1>9 DEF EntryChunks
  <2>4. EntryCounter(d, s \cup {i})
    BY <1>1, <1>3, <1>7, <1>8, <1>10 DEF EntryCounter
  <2>5. QED
    BY <2>1, <2>2, <2>3, <2>4 DEF EntryInv
<1>12. QED
  BY <1>11 DEF d

(* A chunk that is ignored was sent before: it is there already.           *)
LEMMA IgnoredEntry ==
  ASSUME NEW e, NEW u, NEW s, NEW q, NEW n, EntryInv(e, u, s, q, n),
         NEW i \in 1..Total(e.f), e.chunks[i] # <<>>
  PROVE  i \in s /\ s \cup {i} = s
BY DEF EntryInv, EntryShape, EntryClock, EntryChunks, EntryCounter

(* The chunk that completes a sound frame leaves exactly its pieces.       *)
LEMMA CompleteEntry ==
  ASSUME NEW e, NEW u, NEW s, NEW q, NEW n, EntryInv(e, u, s, q, n),
         NEW i \in 1..Total(e.f), e.chunks[i] = <<>>, e.received + 1 = Total(e.f),
         PiecesThere(e.f)
  PROVE  chunkStored(e, i, Pieces(e.f)[i]).chunks = Pieces(e.f)
<1> DEFINE d == chunkStored(e, i, Pieces(e.f)[i])
<1>1. /\ d.f = e.f /\ d.chunks \in Seq(Seq(Cell)) /\ Len(d.chunks) = Total(e.f)
      /\ \A j \in 1..Total(e.f) :
           d.chunks[j] = IF j = i THEN Pieces(e.f)[i] ELSE e.chunks[j]
  BY StoredFields
<1>2. Cardinality(Present(d)) = Total(e.f) /\ Present(d) \in SUBSET (1..Total(e.f))
  BY StoredPresent
<1> HIDE DEF d
<1>3. e.f \in Frame /\ Total(e.f) \in Nat /\ Pieces(e.f) \in Seq(Seq(Cell))
      /\ Len(Pieces(e.f)) = Total(e.f)
  BY FrameType DEF EntryInv, EntryShape, EntryClock, EntryChunks, EntryCounter, Total
<1>4. Present(d) = 1..Total(e.f)
  <2>1. IsFiniteSet(1..Total(e.f)) /\ Cardinality(1..Total(e.f)) = Total(e.f)
    BY <1>3, FrontIsFinite
  <2>2. QED
    BY <1>2, <2>1, FS_Subset
<1>5. \A j \in 1..Total(e.f) : d.chunks[j] = Pieces(e.f)[j]
  <2>1. TAKE j \in 1..Total(e.f)
  <2>2. d.chunks[j] # <<>>
    BY <1>1, <1>4 DEF Present
  <2>3. e.chunks[j] = <<>> \/ e.chunks[j] = Pieces(e.f)[j]
    BY DEF EntryInv, EntryShape, EntryClock, EntryChunks, EntryCounter
  <2>4. QED
    BY <1>1, <2>2, <2>3
<1>6. d.chunks = Pieces(e.f)
  BY <1>1, <1>3, <1>5, SeqEqual
<1>7. QED
  BY <1>6 DEF d

(* A tick: the clock of an entry does not overtake the silence.            *)
LEMMA AgedEntry ==
  ASSUME NEW e, NEW u, NEW s, NEW q, NEW n, EntryInv(e, u, s, q, n)
  PROVE  EntryInv([e EXCEPT !.age = Capped(@, Timeout + 1)], u, s,
                  Capped(q, Timeout + 1), n)
<1> DEFINE d == [e EXCEPT !.age = Capped(@, Timeout + 1)]
<1>1. e = [f |-> e.f, buf |-> e.buf, received |-> e.received, age |-> e.age,
           chunks |-> e.chunks]
  BY DEF EntryInv, EntryShape, EntryClock, EntryChunks, EntryCounter
<1>2. /\ d.f = e.f /\ d.buf = e.buf /\ d.received = e.received /\ d.chunks = e.chunks
      /\ d.age = Capped(e.age, Timeout + 1)
  BY <1>1
<1>3. d = [f |-> d.f, buf |-> d.buf, received |-> d.received, age |-> d.age,
           chunks |-> d.chunks]
  BY <1>1
<1> HIDE DEF d
<1>4. /\ Capped(e.age, Timeout + 1) \in Nat /\ Capped(q, Timeout + 1) \in Nat
      /\ Capped(e.age, Timeout + 1) <= Capped(q, Timeout + 1)
  <2>1. e.age \in Nat /\ q \in Nat /\ e.age <= q /\ Timeout + 1 \in Nat
    BY ReassemblerAssumption DEF EntryInv, EntryShape, EntryClock, EntryChunks, EntryCounter
  <2>2. QED
    BY <2>1 DEF Capped
<1>5. Present(d) = Present(e)
  BY <1>2 DEF Present
<1>6. EntryInv(d, u, s, Capped(q, Timeout + 1), n)
  BY <1>2, <1>3, <1>4, <1>5 DEF EntryInv, EntryShape, EntryClock, EntryChunks, EntryCounter
<1>7. QED
  BY <1>6 DEF d

(* Every entry of the map is in order.                                     *)
EntriesInv ==
  \A u \in DOMAIN in_flight :
    LET f == in_flight[u].f
    IN  EntryInv(in_flight[u], u, sent[f], quiet[f], count[f])

(* What the callback was given last.                                       *)
LastInv ==
  last # None =>
    /\ last.f \in Frame /\ last.buf = filled(last.buf, last.f)
    /\ ~last.header_only /\ WellFormed(last.f)
         => last.buf.data = concatenated(Pieces(last.f))

(* What the server sent: a frame is started before its chunks, and a uuid  *)
(* names one started frame.                                                *)
SentInv ==
  /\ sent \in [Frame -> SUBSET Nat] /\ quiet \in [Frame -> Nat] /\ count \in [Frame -> 0..1]
  /\ conn \in Nat
  /\ \A f \in Frame : /\ sent[f] \subseteq 0..Total(f)
                      /\ sent[f] # {} => 0 \in sent[f]
                      /\ count[f] = 1 => 0 \in sent[f]
  /\ \A f, g \in Frame : 0 \in sent[f] /\ 0 \in sent[g] /\ Uuid(f) = Uuid(g) => f = g

ReassemblerInv == SentInv /\ LastInv /\ EntriesInv

-----------------------------------------------------------------------------
(* The sweep takes stale entries out and leaves the others as they are.    *)
LEMMA SweepKeeps ==
  ASSUME NEW m, NEW p, sweepEnd(m, p)
  PROVE  /\ DOMAIN in_flight' \subseteq DOMAIN m
         /\ \A u \in DOMAIN in_flight' : in_flight'[u] = m[u]
         /\ \A u \in DOMAIN m : u \notin DOMAIN in_flight' => m[u].age > Timeout
<1>1. CASE sinceSweep > SweepPeriod
  <2>1. in_flight' = [u \in DOMAIN m \ stale(m) |-> m[u]]
    BY <1>1 DEF sweepEnd
  <2>2. DOMAIN in_flight' = DOMAIN m \ stale(m)
    BY <2>1
  <2>3. QED
    BY <2>1, <2>2 DEF stale
<1>2. CASE ~(sinceSweep > SweepPeriod)
  BY <1>2 DEF sweepEnd
<1>3. QED
  BY <1>1, <1>2

(* After a step that ends with the sweep of m, the map is in order if m    *)
(* is.                                                                     *)
LEMMA SweptEntries ==
  ASSUME NEW m, NEW p, sweepEnd(m, p),
         \A u \in DOMAIN m :
           EntryInv(m[u], u, sent'[m[u].f], quiet'[m[u].f], count'[m[u].f])
  PROVE  EntriesInv'
<1>1. \A u \in DOMAIN in_flight' : u \in DOMAIN m /\ in_flight'[u] = m[u]
  BY SweepKeeps
<1>2. \A u \in DOMAIN in_flight' :
        EntryInv(in_flight'[u], u, sent'[in_flight'[u].f], quiet'[in_flight'[u].f],
                 count'[in_flight'[u].f])
  BY <1>1
<1>3. QED
  BY <1>2 DEF EntriesInv

(* Fields of an entry that later proofs use.                               *)
LEMMA EntryFacts ==
  ASSUME EntriesInv, NEW u \in DOMAIN in_flight
  PROVE  /\ in_flight[u].f \in Frame /\ Uuid(in_flight[u].f) = u
         /\ 0 \in sent[in_flight[u].f] /\ count[in_flight[u].f] = 0
         /\ in_flight[u].age \in Nat /\ in_flight[u].age <= quiet[in_flight[u].f]
         /\ in_flight[u].received \in Nat
BY DEF EntriesInv, EntryInv, EntryShape, EntryClock, EntryCounter

(* A message of a frame keeps what is known of the server's messages.      *)
LEMMA SendsKeepsSent ==
  ASSUME SentInv, NEW f \in Frame, NEW i \in 0..Total(f), sends(f, i),
         i # 0 => 0 \in sent[f],
         i = 0 => \A g \in Frame : Uuid(g) = Uuid(f) => 0 \notin sent[g],
         count' \in [Frame -> 0..1], \A g \in Frame : count'[g] = 1 => 0 \in sent'[g]
  PROVE  SentInv'
<1>1. Total(f) \in Nat
  BY FrameType
<1>2. /\ sent' = [sent EXCEPT ![f] = @ \cup {i}]
      /\ quiet' = [quiet EXCEPT ![f] = IF i \in sent[f] THEN @ ELSE 0]
      /\ conn' = conn
  BY DEF sends
<1>3. sent \in [Frame -> SUBSET Nat] /\ quiet \in [Frame -> Nat] /\ conn \in Nat
  BY DEF SentInv
<1>4. sent' \in [Frame -> SUBSET Nat] /\ quiet' \in [Frame -> Nat]
  <2>1. sent[f] \cup {i} \in SUBSET Nat
    BY <1>1, <1>3
  <2>2. (IF i \in sent[f] THEN quiet[f] ELSE 0) \in Nat
    BY <1>3
  <2>3. QED
    BY <1>2, <1>3, <2>1, <2>2
<1>5. \A g \in Frame : sent'[g] = IF g = f THEN sent[f] \cup {i} ELSE sent[g]
  BY <1>2, <1>3
<1>6. \A g \in Frame : /\ sent'[g] \subseteq 0..Total(g)
                       /\ sent'[g] # {} => 0 \in sent'[g]
  BY <1>1, <1>5 DEF SentInv
<1>7. \A g, h \in Frame : 0 \in sent'[g] /\ 0 \in sent'[h] /\ Uuid(g) = Uuid(h) => g = h
  BY <1>5 DEF SentInv
<1>8. QED
  BY <1>2, <1>3, <1>4, <1>6, <1>7 DEF SentInv

(* What it does to the frame and to the others.                            *)
LEMMA SendsValues ==
  ASSUME SentInv, NEW f \in Frame, NEW i, sends(f, i)
  PROVE  /\ sent'[f] = sent[f] \cup {i}
         /\ quiet'[f] = IF i \in sent[f] THEN quiet[f] ELSE 0
         /\ \A g \in Frame : g # f => sent'[g] = sent[g] /\ quiet'[g] = quiet[g]
BY DEF SentInv, sends

(* A delivery counts for its frame.                                        *)
LEMMA DeliverCounts ==
  ASSUME SentInv, NEW f \in Frame, NEW buf, NEW ho, deliver(f, buf, ho), count[f] = 0
  PROVE  /\ count' \in [Frame -> 0..1] /\ count'[f] = 1
         /\ \A g \in Frame : g # f => count'[g] = count[g]
         /\ last'.f = f /\ last'.buf = buf /\ last'.header_only = ho /\ last' # None
<1>1. count \in [Frame -> 0..1] /\ count' = [count EXCEPT ![f] = @ + 1]
  BY DEF SentInv, deliver
<1>2. last' = [f |-> f, buf |-> buf, header_only |-> ho]
  BY DEF deliver
<1>3. last' # None
  <2>1. last'.f = f /\ DOMAIN last' = {"f", "buf", "header_only"}
    BY <1>2
  <2>2. DOMAIN None = {}
    BY DEF None
  <2>3. QED
    BY <2>1, <2>2
<1>4. QED
  BY <1>1, <1>2, <1>3

-----------------------------------------------------------------------------
(* handleStart keeps the invariant.                                        *)
LEMMA StartKeeps ==
  ASSUME ReassemblerInv, NEW f \in Frame, handleStart(f)
  PROVE  ReassemblerInv'
<1>0. SentInv /\ LastInv /\ EntriesInv
  BY DEF ReassemblerInv
<1>1. sends(f, 0) /\ \A g \in Frame : Uuid(g) = Uuid(f) => 0 \notin sent[g]
  BY DEF handleStart
<1>2. 0 \notin sent[f] /\ sent[f] = {} /\ count[f] = 0 /\ count \in [Frame -> 0..1]
  BY <1>0, <1>1 DEF SentInv
<1>3. /\ sent'[f] = {0} /\ quiet'[f] = 0
      /\ \A g \in Frame : g # f => sent'[g] = sent[g] /\ quiet'[g] = quiet[g]
  BY <1>0, <1>1, <1>2, SendsValues
<1>4. \A u \in DOMAIN in_flight : in_flight[u].f \in Frame /\ in_flight[u].f # f
  BY <1>0, <1>2, EntryFacts
<1>5. Uuid(f) \notin DOMAIN in_flight
  BY <1>0, <1>1, EntryFacts
<1> DEFINE buf == filled(acquired, f)
<1>6. CASE Total(f) = 0 /\ TotalSize(f) = 0
  <2>1. deliver(f, buf, TRUE) /\ sweepEnd(in_flight, poolAfter)
    BY <1>6 DEF handleStart
  <2>2. /\ count' \in [Frame -> 0..1] /\ count'[f] = 1
        /\ \A g \in Frame : g # f => count'[g] = count[g]
        /\ last'.f = f /\ last'.buf = buf /\ last'.header_only = TRUE /\ last' # None
    BY <2>1, <1>0, <1>2, DeliverCounts
  <2>3. SentInv'
    <3>1. \A g \in Frame : count'[g] = 1 => 0 \in sent'[g]
      BY <1>0, <1>3, <2>2 DEF SentInv
    <3>2. 0 \in 0..Total(f)
      BY FrameType
    <3>3. QED
      BY <1>0, <1>1, <2>2, <3>1, <3>2, SendsKeepsSent
  <2>4. LastInv'
    BY <2>2, FilledTwice DEF LastInv
  <2>5. \A u \in DOMAIN in_flight :
          EntryInv(in_flight[u], u, sent'[in_flight[u].f], quiet'[in_flight[u].f],
                   count'[in_flight[u].f])
    BY <1>0, <1>3, <1>4, <2>2 DEF EntriesInv
  <2>6. EntriesInv'
    BY <2>1, <2>5, SweptEntries
  <2>7. QED
    BY <2>3, <2>4, <2>6 DEF ReassemblerInv
<1>7. CASE ~(Total(f) = 0 /\ TotalSize(f) = 0)
  <2> DEFINE m == startEmplaced(in_flight, f, buf)
             e == [f |-> f, buf |-> buf, received |-> 0, age |-> 0,
                   chunks |-> [i \in 1..Total(f) |-> <<>>]]
  <2>1. sweepEnd(m, poolAfter) /\ UNCHANGED <<last, count>>
    BY <1>7 DEF handleStart
  <2>2. m = [u \in DOMAIN in_flight \cup {Uuid(f)} |-> IF u = Uuid(f) THEN e ELSE in_flight[u]]
    BY <1>5 DEF startEmplaced
  <2>3. EntryInv(e, Uuid(f), {0}, 0, 0) /\ e.f = f
    BY StagedEntry
  <2> HIDE DEF e, m
  <2>4. DOMAIN m = DOMAIN in_flight \cup {Uuid(f)} /\ m[Uuid(f)] = e
        /\ \A u \in DOMAIN in_flight : m[u] = in_flight[u]
    BY <2>2, <1>5
  <2>5. \A u \in DOMAIN m :
          EntryInv(m[u], u, sent'[m[u].f], quiet'[m[u].f], count'[m[u].f])
    <3>1. EntryInv(m[Uuid(f)], Uuid(f), sent'[m[Uuid(f)].f], quiet'[m[Uuid(f)].f],
                   count'[m[Uuid(f)].f])
      <4>1. m[Uuid(f)].f = f /\ count'[f] = 0
        BY <2>1, <2>3, <2>4, <1>2
      <4>2. QED
        BY <4>1, <2>3, <2>4, <1>3
    <3>2. \A u \in DOMAIN in_flight :
            EntryInv(m[u], u, sent'[m[u].f], quiet'[m[u].f], count'[m[u].f])
      BY <1>0, <1>3, <1>4, <2>1, <2>4 DEF EntriesInv
    <3>3. QED
      BY <3>1, <3>2, <2>4
  <2>6. EntriesInv'
    BY <2>1, <2>5, SweptEntries
  <2>7. SentInv'
    <3>1. count' \in [Frame -> 0..1] /\ \A g \in Frame : count'[g] = 1 => 0 \in sent'[g]
      BY <1>0, <1>2, <1>3, <2>1 DEF SentInv
    <3>2. 0 \in 0..Total(f)
      BY FrameType
    <3>3. QED
      BY <1>0, <1>1, <3>1, <3>2, SendsKeepsSent
  <2>8. LastInv'
    BY <1>0, <2>1 DEF LastInv
  <2>9. QED
    BY <2>6, <2>7, <2>8 DEF ReassemblerInv
<1>8. QED
  BY <1>6, <1>7

(* An assembled frame has its own detections and, if it is sound, exactly  *)
(* its own pixels.                                                         *)
LEMMA AssembledBuffer ==
  ASSUME NEW e, NEW f \in Frame, e.f = f, e.buf = filled(e.buf, f)
  PROVE  /\ assembled(e) = filled(assembled(e), f)
         /\ e.chunks = Pieces(f) /\ WellFormed(f)
              => assembled(e).data = concatenated(Pieces(f))
<1> DEFINE flat == concatenated(e.chunks)
           new  == [i \in 1..TotalSize(e.f) |->
                      IF i <= Len(flat) THEN flat[i]
                      ELSE resized(e.buf.data, TotalSize(e.f))[i]]
<1>1. assembled(e) = [e.buf EXCEPT !.data = new]
  BY DEF assembled
<1> HIDE DEF new
<1>2. e.buf = [data |-> e.buf.data, corner_sets |-> e.buf.corner_sets,
               aruco_markers |-> e.buf.aruco_markers]
  BY DEF filled
<1>3. assembled(e) = [data |-> new, corner_sets |-> e.buf.corner_sets,
                      aruco_markers |-> e.buf.aruco_markers]
  BY <1>1, <1>2
<1>4. assembled(e) = filled(assembled(e), f)
  <2>1. /\ e.buf.corner_sets = filled(e.buf, f).corner_sets
        /\ e.buf.aruco_markers = filled(e.buf, f).aruco_markers
    OBVIOUS
  <2>2. filled(assembled(e), f) = [data |-> new, corner_sets |-> e.buf.corner_sets,
                                   aruco_markers |-> e.buf.aruco_markers]
    BY <1>3, <2>1 DEF filled
  <2>3. QED
    BY <1>3, <2>2
<1>5. ASSUME e.chunks = Pieces(f), WellFormed(f)
      PROVE  assembled(e).data = concatenated(Pieces(f))
  <2>1. flat \in Seq(Cell) /\ flat = concatenated(Pieces(f))
    BY <1>5, FrameType, ConcatenatedType
  <2>2. Len(flat) = TotalSize(f)
    BY <1>5, <2>1 DEF WellFormed
  <2> HIDE DEF flat
  <2>3. new = [i \in 1..TotalSize(f) |-> flat[i]]
    BY <2>2, FrameType DEF new
  <2>4. new = flat
    BY <2>1, <2>2, <2>3
  <2>5. QED
    BY <1>3, <2>1, <2>4
<1>6. QED
  BY <1>4, <1>5

(* What is known when a chunk is accepted: it is one of the frame in the   *)
(* map, and its slot is empty.                                             *)
LEMMA AcceptedChunk ==
  ASSUME ReassemblerInv, NEW f \in Frame, NEW i \in 1..Total(f), 0 \in sent[f],
         Uuid(f) \in DOMAIN in_flight
  PROVE  /\ in_flight[Uuid(f)].f = f
         /\ EntryInv(in_flight[Uuid(f)], Uuid(f), sent[f], quiet[f], count[f])
         /\ accepts(in_flight, Uuid(f), i) <=> in_flight[Uuid(f)].chunks[i] = <<>>
<1>1. in_flight[Uuid(f)].f = f
  BY EntryFacts DEF ReassemblerInv, SentInv
<1>2. EntryInv(in_flight[Uuid(f)], Uuid(f), sent[f], quiet[f], count[f])
  BY <1>1 DEF ReassemblerInv, EntriesInv
<1>3. Len(in_flight[Uuid(f)].chunks) = Total(f)
  BY <1>1, <1>2 DEF EntryInv, EntryChunks
<1>4. QED
  BY <1>1, <1>2, <1>3 DEF accepts, isDuplicate

(* handleChunk keeps the invariant.                                        *)
LEMMA ChunkKeeps ==
  ASSUME ReassemblerInv, NEW f \in Frame, NEW i \in 1..Total(f), handleChunk(f, i)
  PROVE  ReassemblerInv'
<1> DEFINE u == Uuid(f)
           e == in_flight[u]
           d == chunkStored(e, i, Pieces(f)[i])
<1>0. SentInv /\ LastInv /\ EntriesInv /\ i # 0 /\ i \in 0..Total(f) /\ Total(f) \in Nat
  BY FrameType DEF ReassemblerInv
<1>1. 0 \in sent[f] /\ sends(f, i)
  BY DEF handleChunk
<1>2. /\ sent'[f] = sent[f] \cup {i}
      /\ quiet'[f] = IF i \in sent[f] THEN quiet[f] ELSE 0
      /\ \A g \in Frame : g # f => sent'[g] = sent[g] /\ quiet'[g] = quiet[g]
  BY <1>0, <1>1, SendsValues
<1>3. \A v \in DOMAIN in_flight : /\ in_flight[v].f \in Frame
                                  /\ v # u => in_flight[v].f # f
  BY <1>0, EntryFacts
<1>4. ASSUME count' \in [Frame -> 0..1], \A g \in Frame : count'[g] = 1 => count[g] = 1 \/ g = f
      PROVE  SentInv'
  <2>1. \A g \in Frame : count'[g] = 1 => 0 \in sent'[g]
    BY <1>0, <1>1, <1>2, <1>4 DEF SentInv
  <2>2. QED
    BY <1>0, <1>1, <1>4, <2>1, SendsKeepsSent
<1>5. ASSUME UNCHANGED count PROVE SentInv'
  BY <1>0, <1>4, <1>5 DEF SentInv
<1>6. ASSUME NEW v \in DOMAIN in_flight, v # u,
             \A g \in Frame : g # f => count'[g] = count[g]
      PROVE  EntryInv(in_flight[v], v, sent'[in_flight[v].f], quiet'[in_flight[v].f],
                      count'[in_flight[v].f])
  BY <1>0, <1>2, <1>3, <1>6 DEF EntriesInv
<1>7. CASE ~accepts(in_flight, u, i)
  <2>1. sweepEnd(in_flight, pool) /\ UNCHANGED <<last, count>>
    BY <1>7 DEF handleChunk
  <2>2. ASSUME u \in DOMAIN in_flight
        PROVE  EntryInv(e, u, sent'[e.f], quiet'[e.f], count'[e.f])
    <3>1. e.f = f /\ EntryInv(e, u, sent[f], quiet[f], count[f]) /\ e.chunks[i] # <<>>
      BY <1>1, <1>7, <2>2, AcceptedChunk
    <3>2. i \in sent[f] /\ sent[f] \cup {i} = sent[f]
      BY <3>1, IgnoredEntry
    <3>3. sent'[f] = sent[f] /\ quiet'[f] = quiet[f]
      BY <1>2, <3>2
    <3>4. QED
      BY <2>1, <3>1, <3>3
  <2>3. \A v \in DOMAIN in_flight :
          EntryInv(in_flight[v], v, sent'[in_flight[v].f], quiet'[in_flight[v].f],
                   count'[in_flight[v].f])
    BY <1>6, <2>1, <2>2
  <2>4. EntriesInv'
    BY <2>1, <2>3, SweptEntries
  <2>5. QED
    BY <1>0, <1>5, <2>1, <2>4 DEF ReassemblerInv, LastInv
<1>8. CASE accepts(in_flight, u, i)
  <2>1. u \in DOMAIN in_flight
    BY <1>8 DEF accepts
  <2>2. e.f = f /\ EntryInv(e, u, sent[f], quiet[f], count[f]) /\ e.chunks[i] = <<>>
    BY <1>1, <1>8, <2>1, AcceptedChunk
  <2>3. i \in 1..Total(e.f) /\ d = chunkStored(e, i, Pieces(e.f)[i])
    BY <2>2
  <2>4. /\ d.f = f /\ d.buf = e.buf /\ d.received = e.received + 1
        /\ Len(d.chunks) = Total(f)
    <3> DEFINE d2 == chunkStored(e, i, Pieces(e.f)[i])
    <3>1. /\ d2.f = e.f /\ d2.buf = e.buf /\ d2.received = e.received + 1
          /\ Len(d2.chunks) = Total(e.f)
      BY <2>2, <2>3, StoredFields
    <3>2. d = d2
      BY <2>3
    <3> HIDE DEF d, d2
    <3>3. QED
      BY <3>1, <3>2, <2>2
  <2>5. count[f] = 0 /\ e.buf = filled(e.buf, f)
    BY <2>2 DEF EntryInv, EntryShape
  <2>6. CASE d.received # Len(d.chunks)
    <3> DEFINE m == [in_flight EXCEPT ![u] = d]
    <3>1. sweepEnd(m, pool) /\ UNCHANGED <<last, count>>
      BY <1>8, <2>6 DEF handleChunk
    <3>2. EntryInv(d, u, sent'[f], quiet'[f], count'[f])
      <4>1. EntryInv(d, u, sent[f] \cup {i}, IF i \in sent[f] THEN quiet[f] ELSE 0, count[f])
        BY <2>2, <2>3, <2>4, <2>6, StoredEntry
      <4>2. QED
        BY <4>1, <3>1, <1>2
    <3> HIDE DEF d
    <3>3. DOMAIN m = DOMAIN in_flight /\ m[u] = d
          /\ \A v \in DOMAIN in_flight : v # u => m[v] = in_flight[v]
      BY <2>1
    <3> HIDE DEF m
    <3>4. \A v \in DOMAIN m :
            EntryInv(m[v], v, sent'[m[v].f], quiet'[m[v].f], count'[m[v].f])
      BY <1>6, <2>4, <3>1, <3>2, <3>3
    <3>5. EntriesInv'
      BY <3>1, <3>4, SweptEntries
    <3>6. QED
      BY <1>0, <1>5, <3>1, <3>5 DEF ReassemblerInv, LastInv
  <2>7. CASE d.received = Len(d.chunks)
    <3> DEFINE m == without(in_flight, u)
    <3>1. /\ sweepEnd(m, pool)
          /\ IF overflows(d) THEN UNCHANGED <<last, count>>
             ELSE deliver(d.f, assembled(d), FALSE)
      BY <1>8, <2>7 DEF handleChunk
    <3>2. DOMAIN m = DOMAIN in_flight \ {u}
          /\ \A v \in DOMAIN m : m[v] = in_flight[v]
      BY DEF without
    <3>3. CASE overflows(d)
      <4>1. UNCHANGED <<last, count>>
        BY <3>1, <3>3
      <4> HIDE DEF m
      <4>2. \A v \in DOMAIN m :
              EntryInv(m[v], v, sent'[m[v].f], quiet'[m[v].f], count'[m[v].f])
        BY <1>6, <3>2, <4>1
      <4>3. EntriesInv'
        BY <3>1, <4>2, SweptEntries
      <4>4. QED
        BY <1>0, <1>5, <4>1, <4>3 DEF ReassemblerInv, LastInv
    <3>4. CASE ~overflows(d)
      <4>1. deliver(f, assembled(d), FALSE)
        BY <3>1, <3>4, <2>4
      <4>2. /\ count' \in [Frame -> 0..1] /\ count'[f] = 1
            /\ \A g \in Frame : g # f => count'[g] = count[g]
            /\ last'.f = f /\ last'.buf = assembled(d) /\ last'.header_only = FALSE
            /\ last' # None
        BY <4>1, <1>0, <2>5, DeliverCounts
      <4>3. SentInv'
        BY <1>4, <4>2
      <4> HIDE DEF m
      <4>4. \A v \in DOMAIN m :
              EntryInv(m[v], v, sent'[m[v].f], quiet'[m[v].f], count'[m[v].f])
        BY <1>6, <3>2, <4>2
      <4>5. EntriesInv'
        BY <3>1, <4>4, SweptEntries
      <4>6. LastInv'
        <5>1. /\ assembled(d) = filled(assembled(d), f)
              /\ d.chunks = Pieces(f) /\ WellFormed(f)
                   => assembled(d).data = concatenated(Pieces(f))
          <6> HIDE DEF d
          <6>1. QED
            BY <2>4, <2>5, AssembledBuffer
        <5>2. WellFormed(f) => d.chunks = Pieces(f)
          <6>1. e.received + 1 = Total(e.f)
            BY <2>2, <2>4, <2>7
          <6>2. WellFormed(f) => PiecesThere(e.f)
            BY <2>2 DEF WellFormed, PiecesThere
          <6>3. QED
            BY <2>2, <2>3, <6>1, <6>2, CompleteEntry
        <5> HIDE DEF d
        <5>3. QED
          BY <4>2, <5>1, <5>2 DEF LastInv
      <4>7. QED
        BY <4>3, <4>5, <4>6 DEF ReassemblerInv
    <3>5. QED
      BY <3>3, <3>4
  <2>8. QED
    BY <2>6, <2>7
<1>9. QED
  BY <1>7, <1>8

(* close keeps the invariant.                                              *)
LEMMA CloseKeeps ==
  ASSUME ReassemblerInv, close
  PROVE  ReassemblerInv'
<1>1. /\ sent' = [f \in Frame |-> {}] /\ count' = [f \in Frame |-> 0]
      /\ quiet' = [f \in Frame |-> 0] /\ last' = last /\ DOMAIN in_flight' = {}
      /\ conn' = conn + 1
  BY DEF close, afterReset
<1>2. SentInv'
  BY <1>1 DEF ReassemblerInv, SentInv
<1>3. EntriesInv'
  BY <1>1 DEF EntriesInv
<1>4. LastInv'
  BY <1>1 DEF ReassemblerInv, LastInv
<1>5. QED
  BY <1>2, <1>3, <1>4 DEF ReassemblerInv

(* tick keeps the invariant.                                               *)
LEMMA TickKeeps ==
  ASSUME ReassemblerInv, tick
  PROVE  ReassemblerInv'
<1>0. SentInv /\ EntriesInv /\ LastInv
  BY DEF ReassemblerInv
<1>1. UNCHANGED <<last, sent, conn, count>>
  BY DEF tick
<1>2. quiet' \in [Frame -> Nat]
      /\ \A f \in Frame : InFlight(f) => quiet'[f] = Capped(quiet[f], Timeout + 1)
  <2>1. quiet' = [f \in Frame |-> IF InFlight(f) THEN Capped(quiet[f], Timeout + 1) ELSE 0]
    BY DEF tick
  <2>2. \A f \in Frame : Capped(quiet[f], Timeout + 1) \in Nat
    BY <1>0 DEF Capped, SentInv
  <2>3. QED
    BY <2>1, <2>2
<1>3. SentInv'
  BY <1>0, <1>1, <1>2 DEF SentInv
<1>4. /\ DOMAIN in_flight' = DOMAIN in_flight
      /\ \A u \in DOMAIN in_flight :
           in_flight'[u] = [in_flight[u] EXCEPT !.age = Capped(@, Timeout + 1)]
  BY DEF tick
<1>5. ASSUME NEW u \in DOMAIN in_flight
      PROVE  EntryInv(in_flight'[u], u, sent'[in_flight'[u].f], quiet'[in_flight'[u].f],
                      count'[in_flight'[u].f])
  <2> DEFINE e == in_flight[u]
             d == [e EXCEPT !.age = Capped(@, Timeout + 1)]
  <2>1. e.f \in Frame /\ Uuid(e.f) = u
    BY <1>0, EntryFacts
  <2>2. InFlight(e.f)
    BY <2>1 DEF InFlight
  <2>3. EntryInv(e, u, sent[e.f], quiet[e.f], count[e.f])
    BY <1>0 DEF EntriesInv
  <2>4. EntryInv(d, u, sent[e.f], Capped(quiet[e.f], Timeout + 1), count[e.f])
    BY <2>3, AgedEntry
  <2>5. d.f = e.f
    <3>1. e = [f |-> e.f, buf |-> e.buf, received |-> e.received, age |-> e.age,
               chunks |-> e.chunks]
      BY <2>3 DEF EntryInv, EntryShape
    <3>2. QED
      BY <3>1
  <2>6. in_flight'[u] = d /\ quiet'[e.f] = Capped(quiet[e.f], Timeout + 1)
    BY <1>2, <1>4, <2>1, <2>2
  <2> HIDE DEF d, e
  <2>7. QED
    BY <1>1, <2>4, <2>5, <2>6
<1>6. EntriesInv'
  BY <1>4, <1>5 DEF EntriesInv
<1>7. LastInv'
  BY <1>0, <1>1 DEF LastInv
<1>8. QED
  BY <1>3, <1>6, <1>7 DEF ReassemblerInv

(* The invariant holds at first and is kept by every step.                 *)
LEMMA ReassemblerInvInit == Init => ReassemblerInv
<1> SUFFICES ASSUME Init PROVE ReassemblerInv
  OBVIOUS
<1>1. SentInv
  BY DEF Init, SentInv
<1>2. LastInv
  BY DEF Init, LastInv
<1>3. EntriesInv
  BY DEF Init, EntriesInv
<1>4. QED
  BY <1>1, <1>2, <1>3 DEF ReassemblerInv

(* Every step of the reassembler keeps its invariant.                      *)
LEMMA ReassemblerInvStep == ReassemblerInv /\ [Next]_vars => ReassemblerInv'
<1> SUFFICES ASSUME ReassemblerInv, [Next]_vars PROVE ReassemblerInv'
  OBVIOUS
<1>1. CASE \E f \in Frame : handleStart(f) \/ \E i \in 1..Total(f) : handleChunk(f, i)
  BY <1>1, StartKeeps, ChunkKeeps
<1>2. CASE onBinaryRefused
  <2>1. sweepEnd(in_flight, pool) /\ UNCHANGED <<last, sent, quiet, conn, count>>
    BY <1>2 DEF onBinaryRefused, sender
  <2>2. EntriesInv'
    BY <2>1, SweptEntries DEF ReassemblerInv, EntriesInv
  <2>3. SentInv' /\ LastInv'
    BY <2>1 DEF ReassemblerInv, SentInv, LastInv
  <2>4. QED
    BY <2>2, <2>3 DEF ReassemblerInv
<1>3. CASE close
  BY <1>3, CloseKeeps
<1>4. CASE recycle
  <2>1. last' = None /\ UNCHANGED <<in_flight, sent, quiet, conn, count>>
    BY <1>4 DEF recycle, sender
  <2>2. EntriesInv' /\ SentInv'
    BY <2>1 DEF ReassemblerInv, SentInv, EntriesInv
  <2>3. LastInv'
    BY <2>1 DEF LastInv
  <2>4. QED
    BY <2>2, <2>3 DEF ReassemblerInv
<1>5. CASE tick
  BY <1>5, TickKeeps
<1>6. CASE UNCHANGED vars
  BY <1>6 DEF vars, sender, ReassemblerInv, SentInv, LastInv, EntriesInv
<1>7. QED
  BY <1>1, <1>2, <1>3, <1>4, <1>5, <1>6 DEF Next

(* In every behaviour of the receiver, for any frames, chunks, uuids,      *)
(* reconnects and recycled buffers, the map and what the callback gets are *)
(* in order, and a frame is delivered at most once per connection.         *)
THEOREM ReassemblerIsInOrder == Spec => []ReassemblerInv
<1>1. Init => ReassemblerInv
  BY ReassemblerInvInit
<1>2. ReassemblerInv /\ [Next]_vars => ReassemblerInv'
  BY ReassemblerInvStep
<1>3. QED
  BY <1>1, <1>2, PTL DEF Spec

(* Once the server has sent all chunks of a frame, it does not wait in the *)
(* map: handleChunk compares a counter with the total, and the counter     *)
(* cannot fall behind the chunks that came, also when pieces are empty or  *)
(* repeated.                                                               *)
LEMMA CompleteIsOut == ReassemblerInv => CompleteIsNotStuck
<1> SUFFICES ASSUME ReassemblerInv, NEW f \in Frame, Total(f) > 0, sent[f] = 0..Total(f),
                    InFlight(f)
             PROVE  FALSE
  BY DEF CompleteIsNotStuck
<1> DEFINE e == in_flight[Uuid(f)]
<1>1. e.f = f /\ EntryInv(e, Uuid(f), sent[f], quiet[f], count[f])
  BY DEF InFlight, ReassemblerInv, EntriesInv
<1>2. /\ e.received \in Nat /\ Total(f) \in Nat
      /\ e.received < Total(f) /\ Cardinality(sent[f] \ {0}) <= e.received
  BY <1>1, FrameType DEF EntryInv, EntryCounter
<1>3. sent[f] \ {0} = 1..Total(f)
  BY <1>2
<1>4. Cardinality(sent[f] \ {0}) = Total(f)
  BY <1>2, <1>3, FrontIsFinite
<1>5. QED
  BY <1>2, <1>4

(* A frame is delivered when its last chunk is there, and then intact: for *)
(* every sender that starts a frame once and gives its uuid to no other.   *)
THEOREM FramesAreDeliveredWhole == Spec => []DeliveredWhenComplete
<1>1. ReassemblerInv => DeliveredIntact
  BY DEF ReassemblerInv, LastInv, DeliveredIntact
<1>2. ReassemblerInv => DeliveredWhenComplete
  BY <1>1, CompleteIsOut DEF DeliveredWhenComplete
<1>3. QED
  BY <1>2, ReassemblerIsInOrder, PTL

(* The detections of a delivered frame are those of its own block, for     *)
(* every block, every announced number and every recycled buffer.          *)
THEOREM DetectionsAreTheFrames == Spec => []DetectionsAreItsOwn
<1>1. ReassemblerInv => DetectionsAreItsOwn
  <2> SUFFICES ASSUME ReassemblerInv, last # None
               PROVE  LET f == last.f
                          b == last.buf
                      IN  /\ IF Detection(f) = "checkerboard"
                             THEN IsFrontOf(b.corner_sets, Block(f), CornerHeader, NumSets(f))
                             ELSE b.corner_sets = <<>>
                          /\ IF Detection(f) = "aruco"
                             THEN IsFrontOf(b.aruco_markers, Block(f), MarkerHeader, NumSets(f))
                             ELSE b.aruco_markers = <<>>
    BY DEF DetectionsAreItsOwn
  <2> DEFINE f == last.f
             b == last.buf
  <2>1. f \in Frame /\ b = filled(b, f)
    BY DEF ReassemblerInv, LastInv
  <2>2. Block(f) \in Seq(Nat) /\ NumSets(f) \in Nat
    BY <2>1, FrameType
  <2>3. /\ b.corner_sets = IF Detection(f) = "checkerboard"
                           THEN parseCornerBlock(Block(f), NumSets(f)) ELSE <<>>
        /\ b.aruco_markers = IF Detection(f) = "aruco"
                             THEN parseMarkerBlock(Block(f), NumSets(f)) ELSE <<>>
    <3>1. b.corner_sets = filled(b, f).corner_sets
          /\ b.aruco_markers = filled(b, f).aruco_markers
      BY <2>1
    <3>2. QED
      BY <3>1 DEF filled
  <2>4. /\ IsFrontOf(parseCornerBlock(Block(f), NumSets(f)), Block(f), CornerHeader, NumSets(f))
        /\ IsFrontOf(parseMarkerBlock(Block(f), NumSets(f)), Block(f), MarkerHeader, NumSets(f))
    <3>1. CornerHeader \in Nat \ {0} /\ MarkerHeader \in Nat \ {0}
      BY DEF CornerHeader, MarkerHeader
    <3>2. QED
      BY <2>2, <3>1, ParsedIsFront DEF parseCornerBlock, parseMarkerBlock
  <2>5. QED
    BY <2>3, <2>4
<1>2. QED
  BY <1>1, ReassemblerIsInOrder, PTL

-----------------------------------------------------------------------------
(* Why an entry leaves the map in a step that ends with the sweep of m.    *)
LEMMA SweptIsSilent ==
  ASSUME ReassemblerInv, NEW m, NEW p, sweepEnd(m, p),
         NEW f \in Frame, InFlight(f), ~InFlight(f)', Uuid(f) \in DOMAIN m,
         m[Uuid(f)] = in_flight[Uuid(f)]
  PROVE  quiet[f] > Timeout
<1> DEFINE u == Uuid(f)
<1>1. u \in DOMAIN in_flight /\ in_flight[u].f = f
  BY DEF InFlight
<1>2. u \notin DOMAIN in_flight'
  <2>1. u \in DOMAIN in_flight' => in_flight'[u] = in_flight[u]
    BY SweepKeeps
  <2>2. QED
    BY <2>1, <1>1 DEF InFlight
<1>3. in_flight[u].age > Timeout
  BY <1>2, SweepKeeps
<1>4. in_flight[u].age \in Nat /\ in_flight[u].age <= quiet[f] /\ quiet[f] \in Nat
  BY <1>1, EntryFacts DEF ReassemblerInv, SentInv
<1>5. QED
  BY <1>3, <1>4, ReassemblerAssumption

(* The property of the step, for one frame.                                *)
LeavesForAReason(f) ==
  WellFormed(f) /\ InFlight(f) /\ ~InFlight(f)'
    => \/ count'[f] = count[f] + 1
       \/ quiet[f] > Timeout
       \/ conn' # conn

(* A chunk takes a frame out of the map into the callback, or the sweep    *)
(* behind it takes out one that has been silent.                           *)
LEMMA ChunkLeaves ==
  ASSUME ReassemblerInv, NEW f \in Frame, NEW i \in 1..Total(f), handleChunk(f, i),
         NEW g \in Frame
  PROVE  LeavesForAReason(g)
<1> SUFFICES ASSUME WellFormed(g), InFlight(g), ~InFlight(g)'
             PROVE  count'[g] = count[g] + 1 \/ quiet[g] > Timeout
  BY DEF LeavesForAReason
<1> DEFINE u == Uuid(f)
           e == in_flight[u]
           d == chunkStored(e, i, Pieces(f)[i])
<1>1. Uuid(g) \in DOMAIN in_flight /\ in_flight[Uuid(g)].f = g
  BY DEF InFlight
<1>2. CASE ~accepts(in_flight, u, i)
  <2>1. sweepEnd(in_flight, pool)
    BY <1>2 DEF handleChunk
  <2>2. QED
    BY <2>1, <1>1, SweptIsSilent
<1>3. CASE accepts(in_flight, u, i)
  <2>1. u \in DOMAIN in_flight /\ 0 \in sent[f]
    BY <1>3 DEF accepts, handleChunk
  <2>2. e.f = f /\ EntryInv(e, u, sent[f], quiet[f], count[f]) /\ e.chunks[i] = <<>>
    BY <1>3, <2>1, AcceptedChunk
  <2>3. i \in 1..Total(e.f) /\ d = chunkStored(e, i, Pieces(e.f)[i])
    BY <2>2
  <2>4. /\ d.f = f /\ d.received = e.received + 1 /\ d.age = 0
        /\ Len(d.chunks) = Total(f)
    <3> DEFINE d2 == chunkStored(e, i, Pieces(e.f)[i])
    <3>1. /\ d2.f = e.f /\ d2.received = e.received + 1 /\ d2.age = 0
          /\ Len(d2.chunks) = Total(e.f)
      BY <2>2, <2>3, StoredFields
    <3>2. d = d2
      BY <2>3
    <3> HIDE DEF d, d2
    <3>3. QED
      BY <3>1, <3>2, <2>2
  <2>5. CASE d.received # Len(d.chunks)
    <3> DEFINE m == [in_flight EXCEPT ![u] = d]
    <3>1. sweepEnd(m, pool)
      BY <1>3, <2>5 DEF handleChunk
    <3>2. CASE Uuid(g) = u
      <4>1. g = f /\ m[u].age = 0 /\ u \in DOMAIN m /\ m[u].f = f
        BY <1>1, <2>1, <2>2, <2>4, <3>2
      <4> HIDE DEF m
      <4>2. u \in DOMAIN in_flight'
        BY <3>1, <4>1, SweepKeeps, ReassemblerAssumption
      <4>3. in_flight'[u].f = f
        BY <3>1, <4>1, <4>2, SweepKeeps
      <4>4. QED
        BY <4>1, <4>2, <4>3 DEF InFlight
    <3>3. CASE Uuid(g) # u
      <4>1. Uuid(g) \in DOMAIN m /\ m[Uuid(g)] = in_flight[Uuid(g)]
        BY <1>1, <3>3
      <4> HIDE DEF m
      <4>2. QED
        BY <3>1, <4>1, SweptIsSilent
    <3>4. QED
      BY <3>2, <3>3
  <2>6. CASE d.received = Len(d.chunks)
    <3> DEFINE m == without(in_flight, u)
    <3>1. /\ sweepEnd(m, pool)
          /\ IF overflows(d) THEN UNCHANGED <<last, count>>
             ELSE deliver(d.f, assembled(d), FALSE)
      BY <1>3, <2>6 DEF handleChunk
    <3>2. CASE Uuid(g) = u
      <4>1. g = f /\ PiecesThere(e.f) /\ e.received + 1 = Total(e.f)
        BY <1>1, <2>2, <2>4, <2>6, <3>2 DEF WellFormed, PiecesThere
      <4>2. d.chunks = Pieces(f)
        BY <2>2, <2>3, <4>1, CompleteEntry
      <4> HIDE DEF d
      <4>3. ~overflows(d)
        <5>1. concatenated(Pieces(f)) \in Seq(Cell) /\ TotalSize(f) \in Nat
          BY FrameType, ConcatenatedType
        <5>2. Len(concatenated(d.chunks)) = TotalSize(d.f)
          BY <4>1, <4>2, <2>4 DEF WellFormed
        <5>3. QED
          BY <5>1, <5>2, <2>4 DEF overflows
      <4>4. deliver(f, assembled(d), FALSE)
        BY <3>1, <4>3, <2>4
      <4>5. count'[f] = count[f] + 1
        BY <4>4 DEF deliver, ReassemblerInv, SentInv
      <4>6. QED
        BY <4>1, <4>5
    <3>3. CASE Uuid(g) # u
      <4>1. Uuid(g) \in DOMAIN m /\ m[Uuid(g)] = in_flight[Uuid(g)]
        BY <1>1, <3>3 DEF without
      <4> HIDE DEF m
      <4>2. QED
        BY <3>1, <4>1, SweptIsSilent
    <3>4. QED
      BY <3>2, <3>3
  <2>7. QED
    BY <2>5, <2>6
<1>4. QED
  BY <1>2, <1>3

(* "A frame is stale only once its chunks stop coming": for every timeout, *)
(* period and interleaving of frames, a sound frame leaves the map only    *)
(* into the callback, after a silence longer than the timeout, or with its *)
(* connection.                                                             *)
THEOREM ArrivingFramesAreKept == Spec => ArrivingFrameIsKept
<1>1. ReassemblerInv /\ [Next]_vars => [\A f \in Frame : LeavesForAReason(f)]_vars
  <2> SUFFICES ASSUME ReassemblerInv, Next, NEW g \in Frame PROVE LeavesForAReason(g)
    OBVIOUS
  <2>1. ASSUME NEW f \in Frame, handleStart(f) PROVE LeavesForAReason(g)
    <3> SUFFICES ASSUME InFlight(g), ~InFlight(g)' PROVE quiet[g] > Timeout
      BY DEF LeavesForAReason
    <3>1. Uuid(g) \in DOMAIN in_flight
      BY DEF InFlight
    <3>2. CASE Total(f) = 0 /\ TotalSize(f) = 0
      <4>1. sweepEnd(in_flight, poolAfter)
        BY <2>1, <3>2 DEF handleStart
      <4>2. QED
        BY <3>1, <4>1, SweptIsSilent
    <3>3. CASE ~(Total(f) = 0 /\ TotalSize(f) = 0)
      <4> DEFINE m == startEmplaced(in_flight, f, filled(acquired, f))
      <4>1. sweepEnd(m, poolAfter)
        BY <2>1, <3>3 DEF handleStart
      <4>2. Uuid(g) \in DOMAIN m /\ m[Uuid(g)] = in_flight[Uuid(g)]
        BY <3>1 DEF startEmplaced
      <4> HIDE DEF m
      <4>3. QED
        BY <4>1, <4>2, SweptIsSilent
    <3>4. QED
      BY <3>2, <3>3
  <2>2. ASSUME onBinaryRefused PROVE LeavesForAReason(g)
    <3>1. sweepEnd(in_flight, pool)
      BY <2>2 DEF onBinaryRefused
    <3>2. ASSUME InFlight(g), ~InFlight(g)' PROVE quiet[g] > Timeout
      BY <3>1, <3>2, SweptIsSilent DEF InFlight
    <3>3. QED
      BY <3>2 DEF LeavesForAReason
  <2>3. ASSUME close PROVE LeavesForAReason(g)
    BY <2>3 DEF close, LeavesForAReason, ReassemblerInv, SentInv
  <2>4. ASSUME recycle PROVE LeavesForAReason(g)
    BY <2>4 DEF recycle, LeavesForAReason, InFlight
  <2>5. ASSUME tick PROVE LeavesForAReason(g)
    <3>1. /\ DOMAIN in_flight' = DOMAIN in_flight
          /\ \A u \in DOMAIN in_flight :
               in_flight'[u] = [in_flight[u] EXCEPT !.age = Capped(@, Timeout + 1)]
      BY <2>5 DEF tick
    <3>2. \A u \in DOMAIN in_flight :
            in_flight[u] = [f |-> in_flight[u].f, buf |-> in_flight[u].buf,
                            received |-> in_flight[u].received, age |-> in_flight[u].age,
                            chunks |-> in_flight[u].chunks]
      BY DEF ReassemblerInv, EntriesInv, EntryInv, EntryShape
    <3>3. \A u \in DOMAIN in_flight : in_flight'[u].f = in_flight[u].f
      <4>1. TAKE u \in DOMAIN in_flight
      <4> DEFINE e == in_flight[u]
      <4>2. e = [f |-> e.f, buf |-> e.buf, received |-> e.received, age |-> e.age,
                 chunks |-> e.chunks]
        BY <3>2
      <4>3. in_flight'[u] = [e EXCEPT !.age = Capped(@, Timeout + 1)]
        BY <3>1
      <4> HIDE DEF e
      <4>4. in_flight'[u].f = e.f
        BY <4>2, <4>3
      <4>5. QED
        BY <4>4 DEF e
    <3>4. InFlight(g) => InFlight(g)'
      BY <3>1, <3>3 DEF InFlight
    <3>5. QED
      BY <3>4 DEF LeavesForAReason
  <2>6. QED
    BY <2>1, <2>2, <2>3, <2>4, <2>5, ChunkLeaves DEF Next
<1>2. (\A f \in Frame : LeavesForAReason(f))
        <=> (\A f \in Frame : WellFormed(f) /\ InFlight(f) /\ ~InFlight(f)'
               => \/ count'[f] = count[f] + 1
                  \/ quiet[f] > Timeout
                  \/ conn' # conn)
  BY DEF LeavesForAReason
<1>3. QED
  BY <1>1, <1>2, ReassemblerIsInOrder, PTL DEF Spec, ArrivingFrameIsKept

-----------------------------------------------------------------------------
(* The roster: cameras differ, and an entry's global id is its index.      *)
Entry == [cam : Camera, global_id : Nat, streaming : BOOLEAN]

RosterInv ==
  /\ roster \in Seq(Entry)
  /\ \A i \in DOMAIN roster : roster[i].global_id = i - 1
  /\ \A i, j \in DOMAIN roster : roster[i].cam = roster[j].cam => i = j

Entries == Range(roster)
Earlier(r) == {x \in Entries : Before(x, r)}
Rank(r) == Cardinality(Earlier(r))

(* What the roster is made of.                                             *)
LEMMA RosterFacts ==
  ASSUME RosterInv
  PROVE  /\ Len(roster) \in Nat /\ DOMAIN roster = 1..Len(roster)
         /\ \A i \in DOMAIN roster : roster[i] \in Entry
         /\ \A r \in Entries : r \in Entry /\ \E i \in DOMAIN roster : r = roster[i]
         /\ \A i \in DOMAIN roster : roster[i] \in Entries
         /\ \A r, x \in Entries : r.cam = x.cam => r = x
<1>1. roster \in Seq(Entry) /\ Len(roster) \in Nat /\ DOMAIN roster = 1..Len(roster)
  BY DEF RosterInv
<1>2. \A i \in DOMAIN roster : roster[i] \in Entry
  BY <1>1
<1>3. /\ \A r \in Entries : \E i \in DOMAIN roster : r = roster[i]
      /\ \A i \in DOMAIN roster : roster[i] \in Entries
  BY DEF Entries, Range
<1>4. \A r, x \in Entries : r.cam = x.cam => r = x
  BY <1>3 DEF RosterInv
<1>5. QED
  BY <1>1, <1>2, <1>3, <1>4

(* Before orders the entries.                                              *)
LEMMA BeforeOrders ==
  ASSUME RosterInv
  PROVE  /\ \A r \in Entries : ~Before(r, r)
         /\ \A r, x \in Entries : r # x => Before(r, x) \/ Before(x, r)
         /\ \A r, x \in Entries : ~(Before(r, x) /\ Before(x, r))
         /\ \A r, x, y \in Entries : Before(r, x) /\ Before(x, y) => Before(r, y)
<1>1. \A r \in Entries : r.cam[1] \in Nat /\ r.cam[2] \in Nat
                         /\ r.cam = <<r.cam[1], r.cam[2]>>
  <2>1. TAKE r \in Entries
  <2>2. r.cam \in Server \X (1..NCam)
    BY RosterFacts DEF Entry, Camera
  <2>3. NCam \in Nat /\ NServer \in Nat
    BY StoreAssumption
  <2>4. QED
    BY <2>2, <2>3 DEF Server
<1>2. \A r, x \in Entries : r # x => r.cam # x.cam
  BY RosterFacts
<1>3. \A r, x \in Entries : r # x => r.cam[1] # x.cam[1] \/ r.cam[2] # x.cam[2]
  BY <1>1, <1>2
<1>4. \A r \in Entries : ~Before(r, r)
  BY <1>1 DEF Before
<1>5. \A r, x \in Entries : r # x => Before(r, x) \/ Before(x, r)
  <2>1. TAKE r, x \in Entries
  <2>2. /\ r.cam[1] \in Nat /\ r.cam[2] \in Nat /\ x.cam[1] \in Nat /\ x.cam[2] \in Nat
        /\ r # x => r.cam[1] # x.cam[1] \/ r.cam[2] # x.cam[2]
    BY <1>1, <1>3
  <2>3. QED
    BY <2>2 DEF Before
<1>6. \A r, x \in Entries : ~(Before(r, x) /\ Before(x, r))
  <2>1. TAKE r, x \in Entries
  <2>2. r.cam[1] \in Nat /\ r.cam[2] \in Nat /\ x.cam[1] \in Nat /\ x.cam[2] \in Nat
    BY <1>1
  <2>3. QED
    BY <2>2 DEF Before
<1>7. \A r, x, y \in Entries : Before(r, x) /\ Before(x, y) => Before(r, y)
  <2>1. TAKE r, x, y \in Entries
  <2>2. /\ r.cam[1] \in Nat /\ r.cam[2] \in Nat /\ x.cam[1] \in Nat /\ x.cam[2] \in Nat
        /\ y.cam[1] \in Nat /\ y.cam[2] \in Nat
    BY <1>1
  <2>3. QED
    BY <2>2 DEF Before
<1>8. QED
  BY <1>4, <1>5, <1>6, <1>7

(* There are as many entries as places.                                    *)
LEMMA EntriesCount ==
  ASSUME RosterInv
  PROVE  IsFiniteSet(Entries) /\ Cardinality(Entries) = Len(roster)
<1> DEFINE n == Len(roster)
<1>1. /\ n \in Nat /\ DOMAIN roster = 1..n
      /\ \A r \in Entries : \E i \in 1..n : r = roster[i]
      /\ \A i \in 1..n : roster[i] \in Entries
  BY RosterFacts
<1>2. IsFiniteSet(1..n) /\ Cardinality(1..n) = n
  <2>1. 1 \in Int /\ n \in Int
    BY <1>1
  <2>2. IsFiniteSet(1..n) /\ Cardinality(1..n) = IF 1 > n THEN 0 ELSE n - 1 + 1
    BY <2>1, FS_Interval
  <2>3. QED
    BY <2>2, <1>1
<1>3. roster = [i \in 1..n |-> roster[i]]
  <2>1. roster \in Seq(Entry)
    BY DEF RosterInv
  <2>2. QED
    BY <2>1, <1>1
<1>4. roster \in [1..n -> Entries]
  BY <1>1, <1>3
<1>5. \A i, j \in 1..n : roster[i] = roster[j] => i = j
  BY <1>1 DEF RosterInv
<1>6. roster \in Bijection(1..n, Entries)
  <2>1. roster \in Injection(1..n, Entries)
    BY <1>4, <1>5 DEF Injection, IsInjective
  <2>2. roster \in Surjection(1..n, Entries)
    BY <1>1, <1>4 DEF Surjection
  <2>3. QED
    BY <2>1, <2>2 DEF Bijection
<1>7. ExistsBijection(1..n, Entries)
  BY <1>6 DEF ExistsBijection
<1>8. QED
  BY <1>2, <1>7, FS_Bijection

(* Ranks follow the order.                                                 *)
LEMMA RankFollows ==
  ASSUME RosterInv
  PROVE  /\ \A r \in Entries : Rank(r) \in 0..(Len(roster) - 1)
         /\ \A r, x \in Entries : Before(r, x) => Rank(r) < Rank(x)
         /\ \A r, x \in Entries : Rank(r) = Rank(x) => r = x
<1>1. IsFiniteSet(Entries) /\ Cardinality(Entries) = Len(roster) /\ Len(roster) \in Nat
  BY EntriesCount, RosterFacts
<1>2. \A r \in Entries : /\ Earlier(r) \in SUBSET Entries /\ r \notin Earlier(r)
                         /\ IsFiniteSet(Earlier(r)) /\ Rank(r) \in Nat
  <2>1. TAKE r \in Entries
  <2>2. Earlier(r) \in SUBSET Entries /\ r \notin Earlier(r)
    BY BeforeOrders DEF Earlier
  <2>3. IsFiniteSet(Earlier(r))
    BY <2>2, <1>1, FS_Subset
  <2>4. QED
    BY <2>2, <2>3, FS_CardinalityType DEF Rank
<1>3. ASSUME NEW r \in Entries PROVE Rank(r) \in 0..(Len(roster) - 1)
  <2>1. Cardinality(Earlier(r)) <= Cardinality(Entries)
        /\ (Cardinality(Entries) = Cardinality(Earlier(r)) => Entries = Earlier(r))
    BY <1>1, <1>2, FS_Subset
  <2>2. Cardinality(Earlier(r)) # Cardinality(Entries)
    BY <2>1, <1>2
  <2>3. Rank(r) \in Nat /\ Rank(r) <= Len(roster) /\ Rank(r) # Len(roster)
    BY <2>1, <2>2, <1>1, <1>2 DEF Rank
  <2>4. QED
    BY <2>3, <1>1
<1>4. ASSUME NEW r \in Entries, NEW x \in Entries, Before(r, x)
      PROVE  Rank(r) < Rank(x)
  <2>1. Earlier(r) \in SUBSET Earlier(x)
    BY <1>4, BeforeOrders DEF Earlier
  <2>2. r \in Earlier(x) /\ r \notin Earlier(r)
    BY <1>2, <1>4 DEF Earlier
  <2>3. /\ Cardinality(Earlier(r)) <= Cardinality(Earlier(x))
        /\ Cardinality(Earlier(x)) = Cardinality(Earlier(r)) => Earlier(x) = Earlier(r)
    BY <2>1, <1>2, FS_Subset
  <2>4. Rank(r) \in Nat /\ Rank(x) \in Nat /\ Rank(r) <= Rank(x) /\ Rank(r) # Rank(x)
    BY <2>2, <2>3, <1>2 DEF Rank
  <2>5. QED
    BY <2>4
<1>5. ASSUME NEW r \in Entries, NEW x \in Entries, Rank(r) = Rank(x), r # x
      PROVE  FALSE
  <2>1. Before(r, x) \/ Before(x, r)
    BY <1>5, BeforeOrders
  <2>2. Rank(r) < Rank(x) \/ Rank(x) < Rank(r)
    BY <2>1, <1>4
  <2>3. Rank(r) \in Nat /\ Rank(x) \in Nat
    BY <1>2
  <2>4. QED
    BY <2>2, <2>3, <1>5
<1>6. QED
  BY <1>3, <1>4, <1>5

(* Every place has its entry.                                              *)
LEMMA EveryRank ==
  ASSUME RosterInv, NEW k \in 0..(Len(roster) - 1)
  PROVE  entryOfRank(k) \in Entries /\ Rank(entryOfRank(k)) = k
<1> DEFINE n == Len(roster)
           f == [r \in Entries |-> Rank(r)]
<1>1. n \in Nat /\ IsFiniteSet(Entries) /\ Cardinality(Entries) = n
  BY EntriesCount, RosterFacts
<1>2. IsFiniteSet(0..(n - 1)) /\ Cardinality(0..(n - 1)) = n
  <2>1. 0 \in Int /\ n - 1 \in Int
    BY <1>1
  <2>2. IsFiniteSet(0..(n - 1))
        /\ Cardinality(0..(n - 1)) = IF 0 > n - 1 THEN 0 ELSE (n - 1) - 0 + 1
    BY <2>1, FS_Interval
  <2>3. QED
    BY <2>2, <1>1
<1>3. f \in Injection(Entries, 0..(n - 1))
  BY RankFollows DEF Injection, IsInjective
<1>4. f \in Surjection(Entries, 0..(n - 1))
  <2> HIDE DEF f
  <2>1. QED
    BY <1>1, <1>2, <1>3, FS_Injection
<1>5. \E r \in Entries : Rank(r) = k
  BY <1>4 DEF Surjection
<1>6. QED
  BY <1>5 DEF entryOfRank, Entries, Rank, Earlier

(* The sorted roster: in order, of the same cameras with the same flags.   *)
LEMMA SortedRoster ==
  ASSUME RosterInv
  PROVE  /\ rosterSorted \in Seq(Entry) /\ DOMAIN rosterSorted = DOMAIN roster
         /\ \A i \in DOMAIN roster : rosterSorted[i].global_id = i - 1
         /\ \A i, j \in DOMAIN roster : rosterSorted[i].cam = rosterSorted[j].cam => i = j
         /\ InOrder(rosterSorted)
         /\ \A i \in DOMAIN roster : \E j \in DOMAIN roster :
              /\ rosterSorted[j].cam = roster[i].cam
              /\ rosterSorted[j].streaming = roster[i].streaming
         /\ \A j \in DOMAIN roster : \E i \in DOMAIN roster :
              /\ rosterSorted[j].cam = roster[i].cam
              /\ rosterSorted[j].streaming = roster[i].streaming
<1> DEFINE n == Len(roster)
           e(i) == entryOfRank(i - 1)
<1>1. n \in Nat /\ DOMAIN roster = 1..n
  BY RosterFacts
<1>2. \A i \in 1..n : e(i) \in Entries /\ Rank(e(i)) = i - 1 /\ e(i) \in Entry
  <2>1. TAKE i \in 1..n
  <2>2. i - 1 \in 0..(n - 1)
    BY <1>1
  <2>3. QED
    BY <2>2, EveryRank, RosterFacts
<1>3. DOMAIN rosterSorted = 1..n
      /\ \A i \in 1..n : rosterSorted[i] = [e(i) EXCEPT !.global_id = i - 1]
  BY <1>1 DEF rosterSorted
<1> HIDE DEF e
<1>4. \A i \in 1..n : /\ rosterSorted[i] \in Entry /\ rosterSorted[i].global_id = i - 1
                      /\ rosterSorted[i].cam = e(i).cam
                      /\ rosterSorted[i].streaming = e(i).streaming
  <2>1. TAKE i \in 1..n
  <2>2. e(i) \in Entry /\ i - 1 \in Nat /\ rosterSorted[i] = [e(i) EXCEPT !.global_id = i - 1]
    BY <1>2, <1>3
  <2>3. QED
    BY <2>2 DEF Entry
<1>5. rosterSorted \in Seq(Entry)
  <2>1. rosterSorted \in [1..n -> Entry]
    BY <1>1, <1>4 DEF rosterSorted
  <2>2. QED
    BY <1>1, <2>1, SeqDef
<1>6. \A i, j \in 1..n : e(i) = e(j) => i = j
  <2>1. TAKE i, j \in 1..n
  <2>2. Rank(e(i)) = i - 1 /\ Rank(e(j)) = j - 1
    BY <1>2
  <2>3. QED
    BY <2>2
<1>7. \A i, j \in 1..n : rosterSorted[i].cam = rosterSorted[j].cam => i = j
  BY <1>2, <1>4, <1>6, RosterFacts
<1>8. \A i, j \in 1..n : i < j => Before(rosterSorted[i], rosterSorted[j])
  <2> SUFFICES ASSUME NEW i \in 1..n, NEW j \in 1..n, i < j
               PROVE  Before(rosterSorted[i], rosterSorted[j])
    OBVIOUS
  <2>1. e(i) # e(j)
    BY <1>6
  <2>2. ~Before(e(j), e(i))
    <3>1. Rank(e(i)) = i - 1 /\ Rank(e(j)) = j - 1 /\ ~(j - 1 < i - 1)
      BY <1>2
    <3>2. QED
      BY <3>1, <1>2, RankFollows
  <2>3. Before(e(i), e(j))
    BY <2>1, <2>2, <1>2, BeforeOrders
  <2>4. QED
    BY <2>3, <1>4 DEF Before
<1>9. ASSUME NEW i \in 1..n
      PROVE  \E j \in 1..n : /\ rosterSorted[j].cam = roster[i].cam
                             /\ rosterSorted[j].streaming = roster[i].streaming
  <2> DEFINE j == Rank(roster[i]) + 1
  <2>1. roster[i] \in Entries
    BY <1>1, RosterFacts
  <2>2. Rank(roster[i]) \in 0..(n - 1)
    BY <2>1, RankFollows
  <2>3. j \in 1..n /\ j - 1 = Rank(roster[i])
    BY <2>2, <1>1
  <2> HIDE DEF j
  <2>4. e(j) = roster[i]
    BY <2>1, <2>3, <1>2, RankFollows
  <2>5. QED
    BY <2>3, <2>4, <1>4
<1>10. ASSUME NEW j \in 1..n
       PROVE  \E i \in 1..n : /\ rosterSorted[j].cam = roster[i].cam
                              /\ rosterSorted[j].streaming = roster[i].streaming
  <2>1. e(j) \in Entries
    BY <1>2
  <2>2. PICK i \in 1..n : e(j) = roster[i]
    BY <2>1, <1>1, RosterFacts
  <2>3. QED
    BY <2>2, <1>4
<1>11. QED
  BY <1>1, <1>3, <1>4, <1>5, <1>7, <1>8, <1>9, <1>10 DEF InOrder

(* A roster that is in order is left as it is.                             *)
LEMMA SortedStays ==
  ASSUME RosterInv, InOrder(roster)
  PROVE  rosterSorted = roster
<1> DEFINE n == Len(roster)
<1>1. /\ n \in Nat /\ DOMAIN roster = 1..n /\ roster \in Seq(Entry)
      /\ \A i \in 1..n : roster[i] \in Entries /\ roster[i] \in Entry
      /\ \A r \in Entries : \E i \in 1..n : r = roster[i]
  BY RosterFacts DEF RosterInv
<1>2. ASSUME NEW i \in 1..n PROVE Rank(roster[i]) = i - 1
  <2> DEFINE f == [k \in 1..(i - 1) |-> roster[k]]
             T == Earlier(roster[i])
  <2>1. i - 1 \in Nat /\ \A k \in 1..(i - 1) : k \in 1..n /\ k < i
    BY <1>1
  <2>2. \A k \in 1..(i - 1) : roster[k] \in T
    BY <1>1, <2>1 DEF InOrder, Earlier
  <2>3. \A x \in T : \E k \in 1..(i - 1) : roster[k] = x
    <3>1. TAKE x \in T
    <3>2. x \in Entries /\ Before(x, roster[i])
      BY DEF Earlier
    <3>3. PICK k \in 1..n : x = roster[k]
      BY <3>2, <1>1
    <3>4. k # i /\ ~(i < k)
      BY <3>2, <3>3, <1>1, BeforeOrders DEF InOrder
    <3>5. k \in 1..(i - 1)
      BY <3>4, <1>1
    <3>6. QED
      BY <3>3, <3>5
  <2>4. \A k, m \in 1..(i - 1) : roster[k] = roster[m] => k = m
    BY <2>1, <1>1 DEF RosterInv
  <2> HIDE DEF T
  <2>5. f \in Bijection(1..(i - 1), T)
    <3>1. f \in Injection(1..(i - 1), T)
      BY <2>2, <2>4 DEF Injection, IsInjective
    <3>2. f \in Surjection(1..(i - 1), T)
      BY <2>2, <2>3 DEF Surjection
    <3>3. QED
      BY <3>1, <3>2 DEF Bijection
  <2>6. IsFiniteSet(1..(i - 1)) /\ Cardinality(1..(i - 1)) = i - 1
    <3>1. 1 \in Int /\ i - 1 \in Int
      BY <2>1
    <3>2. /\ IsFiniteSet(1..(i - 1))
          /\ Cardinality(1..(i - 1)) = IF 1 > i - 1 THEN 0 ELSE (i - 1) - 1 + 1
      BY <3>1, FS_Interval
    <3>3. QED
      BY <3>2, <2>1
  <2>7. ExistsBijection(1..(i - 1), T)
    BY <2>5 DEF ExistsBijection
  <2>8. Cardinality(T) = i - 1
    BY <2>6, <2>7, FS_Bijection
  <2>9. QED
    BY <2>8 DEF Rank, T
<1>3. ASSUME NEW i \in 1..n PROVE rosterSorted[i] = roster[i]
  <2>1. i - 1 \in 0..(n - 1)
    BY <1>1
  <2>2. entryOfRank(i - 1) \in Entries /\ Rank(entryOfRank(i - 1)) = i - 1
    BY <2>1, EveryRank
  <2>3. entryOfRank(i - 1) = roster[i]
    BY <2>2, <1>1, <1>2, RankFollows
  <2>4. rosterSorted[i] = [roster[i] EXCEPT !.global_id = i - 1]
    BY <1>1, <2>3 DEF rosterSorted
  <2>5. roster[i].global_id = i - 1 /\ roster[i] \in Entry
    BY <1>1 DEF RosterInv
  <2>6. QED
    BY <2>4, <2>5 DEF Entry
<1>4. DOMAIN rosterSorted = 1..n /\ rosterSorted \in Seq(Entry)
  BY <1>1, SortedRoster
<1>5. Len(rosterSorted) = Len(roster)
  BY <1>1, <1>4, LenProperties
<1>6. QED
  BY <1>1, <1>3, <1>4, <1>5, SeqEqual

(* Where the network threads are.  A thread that has a frame in hand goes  *)
(* by a place in the roster: the one it points at, or the one of the id    *)
(* that it read.                                                           *)
Holding(s) == net[s].pc \in {"found", "publish"}
ThreadInv(s) ==
  /\ net[s].pc \in {"idle", "add", "rebuild", "found", "publish"}
  /\ net[s].pc = "add" => net[s].next \in 1..NCam
  /\ Holding(s) => net[s].cam[1] = s /\ net[s].frame \in 1..frames
  /\ net[s].pc = "publish" => net[s].gid \in Gid
NetInv == net = [s \in Server |-> net[s]] /\ \A s \in Server : ThreadInv(s)

Home(s) == IF net[s].pc = "found" THEN net[s].at.index ELSE net[s].gid + 1

(* Unless the vector has moved since the frame was looked up, its place is *)
(* that of its camera, and the frame came after all that have crossed a    *)
(* move, and after those in its slot and with its consumer.                *)
Tame(s)  == Holding(s) /\ net[s].frame \notin crossing
Leads(s) == /\ Home(s) \in DOMAIN roster /\ roster[Home(s)].cam = net[s].cam
            /\ net[s].pc = "found" => Valid(net[s].at)
Later(s) == \A y \in crossing : y < net[s].frame
Below(s) == \A g \in Gid : g = Home(s) - 1 =>
              /\ had[g] < net[s].frame
              /\ g \in DOMAIN slots => slots[g].frame < net[s].frame
HeldBy(s) == Tame(s) => Leads(s) /\ Later(s) /\ Below(s)
HeldInv == \A s \in Server : HeldBy(s)

(* A frame in hand is nowhere else.                                        *)
Apart(s) ==
  Holding(s) =>
    /\ \A t \in Server : t # s /\ Holding(t) => net[t].frame # net[s].frame
    /\ \A g \in Gid : had[g] # net[s].frame
    /\ \A g \in DOMAIN slots : slots[g].frame # net[s].frame
ApartInv == \A s \in Server : Apart(s)

Owns(c, g) == g + 1 \in DOMAIN roster /\ roster[g + 1].cam = c
KeptInv ==
  /\ \A g \in DOMAIN slots : slots[g].frame \notin crossing => Owns(slots[g].cam, g)
  /\ \A g \in DOMAIN captures : captures[g].frame \notin crossing => Owns(captures[g].cam, g)

(* Frames reach a slot and the consumer in the order of their arrival, and *)
(* the numbers of a slot run ahead of the cursor unless they were started  *)
(* again.                                                                  *)
NumbersInv ==
  /\ frames \in Nat /\ cursor \in [Gid -> Nat] /\ had \in [Gid -> Nat]
  /\ restarted \subseteq Gid /\ crossing \subseteq 1..frames
  /\ \A g \in Gid : had[g] <= frames
  /\ DOMAIN slots \subseteq Gid
SlotInv(g) ==
  /\ slots[g].seq \in Nat /\ slots[g].frame \in 1..frames
  /\ slots[g].frame = had[g] => slots[g].seq = cursor[g]
  /\ slots[g].frame \notin crossing => had[g] <= slots[g].frame
SlotNumber(g) == IF g \in DOMAIN slots THEN slots[g].seq ELSE 0
CursorInv(g) ==
  g \notin restarted =>
    /\ cursor[g] <= SlotNumber(g)
    /\ g \in DOMAIN slots /\ slots[g].frame # had[g] => cursor[g] < slots[g].seq
FrameInv ==
  /\ \A g \in DOMAIN slots : SlotInv(g)
  /\ \A g \in Gid : CursorInv(g)

(* Unless the vector moved during a command, the flag of a camera is what  *)
(* its server was told, but for the one that is about to be set.           *)
FlagsRight ==
  /\ main # Idle => Valid(main.at) /\ main.at.index \in DOMAIN roster
  /\ commanded \subseteq Known
  /\ \A i \in DOMAIN roster :
       roster[i].cam \in commanded
         <=> IF main.pc = "flag" /\ main.at.index = i THEN main.on ELSE roster[i].streaming
FlagInv ==
  /\ main = Idle \/ (main.pc \in {"command", "flag"} /\ main.on \in BOOLEAN)
  /\ strayed \in BOOLEAN /\ (~strayed => FlagsRight)

StoreInv == RosterInv /\ NetInv /\ HeldInv /\ ApartInv /\ KeptInv /\ NumbersInv /\ FrameInv
              /\ FlagInv

-----------------------------------------------------------------------------
(* Steps between which the cameras keep their places.                      *)
Disturbed == reallocated \/ resorting
Stay == \A i \in DOMAIN roster : i \in DOMAIN roster' /\ roster'[i].cam = roster[i].cam

(* What a step marks as crossing.                                          *)
LEMMA Crossing ==
  ASSUME NetInv, NumbersInv, Watched, frames' \in Nat, frames <= frames'
  PROVE  /\ crossing \subseteq crossing' /\ crossing' \subseteq 1..frames
         /\ crossing' \subseteq 1..frames'
         /\ Disturbed => \A s \in Server : Holding(s) => net[s].frame \in crossing'
         /\ ~Disturbed => crossing' = crossing
<1>1. crossing' = IF Disturbed THEN crossing \cup InHand ELSE crossing
  BY DEF Watched, Disturbed
<1>2. \A s \in Server : Holding(s) => net[s].frame \in 1..frames
  BY DEF NetInv, ThreadInv
<1>3. InHand \subseteq 1..frames
  BY <1>2 DEF InHand, Holding
<1>4. \A s \in Server : Holding(s) => net[s].frame \in InHand
  BY DEF InHand, Holding
<1>5. frames \in Nat /\ crossing \subseteq 1..frames
  BY DEF NumbersInv
<1>6. 1..frames \subseteq 1..frames'
  BY <1>5
<1>7. QED
  BY <1>1, <1>3, <1>4, <1>5, <1>6

(* A thread that does not move keeps what it knows of its frame.           *)
LEMMA HeldCarries ==
  ASSUME NetInv, NumbersInv, Watched, frames' \in Nat, frames <= frames',
         NEW t \in Server, HeldBy(t), net'[t] = net[t], ~Disturbed => Stay,
         Tame(t) /\ ~Disturbed => Below(t)'
  PROVE  HeldBy(t)'
<1> SUFFICES ASSUME Tame(t)' PROVE Leads(t)' /\ Later(t)' /\ Below(t)'
  BY DEF HeldBy
<1>1. Holding(t) /\ net[t].frame \notin crossing'
  BY DEF Tame, Holding
<1>2. ~Disturbed /\ crossing' = crossing /\ Tame(t)
  BY <1>1, Crossing DEF Tame
<1>3. Leads(t) /\ Later(t) /\ Below(t)'
  BY <1>2 DEF HeldBy
<1>4. alloc' = alloc
  BY <1>2 DEF Disturbed, reallocated
<1>5. Leads(t)'
  <2>1. Home(t)' = Home(t)
    BY DEF Home
  <2>2. QED
    BY <1>2, <1>3, <1>4, <2>1 DEF Leads, Stay, Valid
<1>6. Later(t)'
  BY <1>2, <1>3 DEF Later
<1>7. QED
  BY <1>3, <1>5, <1>6

LEMMA BelowSame ==
  ASSUME NEW t \in Server, Below(t), net'[t] = net[t], UNCHANGED <<slots, had>>
  PROVE  Below(t)'
BY DEF Below, Home

(* What is kept stays where it belongs while the cameras keep their places.*)
LEMMA KeptSame ==
  ASSUME KeptInv, Stay, crossing \subseteq crossing', UNCHANGED <<slots, captures>>
  PROVE  KeptInv'
BY DEF KeptInv, Stay, Owns

LEMMA FrameSame ==
  ASSUME FrameInv, NumbersInv, crossing \subseteq crossing', crossing' \subseteq 1..frames',
         frames' \in Nat, frames <= frames', UNCHANGED <<slots, consumer>>
  PROVE  FrameInv' /\ NumbersInv'
<1>1. /\ UNCHANGED <<slots, cursor, had, restarted>> /\ frames \in Nat
      /\ 1..frames \subseteq 1..frames'
  BY DEF consumer, NumbersInv
<1>2. \A g \in DOMAIN slots : SlotInv(g) => SlotInv(g)'
  BY <1>1 DEF SlotInv
<1>3. \A g \in Gid : CursorInv(g) => CursorInv(g)'
  BY <1>1 DEF CursorInv, SlotNumber
<1>4. FrameInv'
  BY <1>1, <1>2, <1>3 DEF FrameInv
<1>5. NumbersInv'
  <2>1. \A g \in Gid : had[g] \in Nat /\ had[g] <= frames
    BY DEF NumbersInv
  <2>2. \A g \in Gid : had[g] <= frames'
    BY <1>1, <2>1
  <2>3. QED
    BY <1>1, <2>2 DEF NumbersInv
<1>6. QED
  BY <1>4, <1>5

LEMMA FlagSame ==
  ASSUME FlagInv, Watched, UNCHANGED <<main, commanded, roster>>
  PROVE  FlagInv'
<1>1. strayed' = (strayed \/ (main # Idle /\ (reallocated \/ rebuilding)))
  BY DEF Watched
<1>2. strayed \in BOOLEAN /\ strayed' \in BOOLEAN
  BY <1>1 DEF FlagInv
<1>3. ASSUME ~strayed' PROVE FlagsRight'
  <2>1. ~strayed /\ (main # Idle => alloc' = alloc)
    BY <1>1, <1>3 DEF reallocated
  <2>2. FlagsRight
    BY <2>1 DEF FlagInv
  <2>3. QED
    BY <2>1, <2>2 DEF FlagsRight, Valid, Known
<1>4. QED
  BY <1>2, <1>3 DEF FlagInv

(* A step that puts no frame into a hand or a slot.                        *)
LEMMA HandsKeep ==
  ASSUME StoreInv, Watched, Stay, RosterInv', NetInv', KeptInv', FlagInv',
         \A t \in Server : Holding(t)' => Holding(t) /\ net'[t] = net[t],
         frames' \in Nat, frames <= frames',
         UNCHANGED <<slots, consumer>>
  PROVE  StoreInv'
<1>0. NetInv /\ HeldInv /\ ApartInv /\ NumbersInv /\ FrameInv
  BY DEF StoreInv
<1>1. had' = had
  BY DEF consumer
<1>2. crossing \subseteq crossing' /\ crossing' \subseteq 1..frames'
  BY <1>0, Crossing
<1>3. HeldInv'
  <2> SUFFICES ASSUME NEW t \in Server PROVE HeldBy(t)'
    BY DEF HeldInv
  <2>1. CASE Holding(t)'
    <3>1. HeldBy(t) /\ net'[t] = net[t]
      BY <1>0, <2>1 DEF HeldInv
    <3>2. Tame(t) => Below(t)'
      BY <1>1, <3>1, BelowSame DEF HeldBy
    <3>3. QED
      BY <1>0, <3>1, <3>2, HeldCarries
  <2>2. CASE ~Holding(t)'
    BY <2>2 DEF HeldBy, Tame
  <2>3. QED
    BY <2>1, <2>2
<1>4. ApartInv'
  <2>1. ASSUME NEW t \in Server PROVE Apart(t)'
    <3> SUFFICES ASSUME Holding(t)'
                 PROVE  /\ \A u \in Server : u # t /\ Holding(u)' => net'[u].frame # net'[t].frame
                        /\ \A g \in Gid : had'[g] # net'[t].frame
                        /\ \A g \in DOMAIN slots' : slots'[g].frame # net'[t].frame
      BY DEF Apart
    <3>1. Holding(t) /\ net'[t] = net[t] /\ Apart(t)
      BY <1>0 DEF ApartInv
    <3>2. QED
      BY <1>1, <3>1 DEF Apart
  <2>2. QED
    BY <2>1 DEF ApartInv
<1>5. FrameInv' /\ NumbersInv'
  BY <1>0, <1>2, FrameSame
<1>6. QED
  BY <1>3, <1>4, <1>5 DEF StoreInv

(* Such a step that keeps no capture either.                               *)
LEMMA NoFrameMoves ==
  ASSUME StoreInv, Watched, Stay, RosterInv', NetInv', FlagInv',
         \A t \in Server : Holding(t)' => Holding(t) /\ net'[t] = net[t],
         UNCHANGED <<slots, captures, consumer, frames>>
  PROVE  StoreInv'
<1>1. frames' \in Nat /\ frames <= frames'
  BY DEF StoreInv, NumbersInv
<1>2. KeptInv'
  <2>1. crossing \subseteq crossing'
    BY <1>1, Crossing DEF StoreInv
  <2>2. QED
    BY <2>1, KeptSame DEF StoreInv
<1>3. QED
  BY <1>1, <1>2, HandsKeep

(* Threads other than s stay; s is somewhere it may be.                    *)
LEMMA NetStep ==
  ASSUME NetInv, NEW s \in Server, NEW r, net' = [net EXCEPT ![s] = r], ThreadInv(s)',
         frames \in Nat, frames' \in Nat, frames <= frames'
  PROVE  /\ NetInv' /\ net'[s] = r
         /\ \A t \in Server : t # s => net'[t] = net[t] /\ (Holding(t)' <=> Holding(t))
<1>1. net = [t \in Server |-> net[t]] /\ \A t \in Server : ThreadInv(t)
  BY DEF NetInv
<1>2. net'[s] = r /\ (\A t \in Server : t # s => net'[t] = net[t])
      /\ net' = [t \in Server |-> net'[t]]
  BY <1>1
<1>3. \A t \in Server : t # s => (Holding(t)' <=> Holding(t))
  BY <1>2 DEF Holding
<1>4. 1..frames \subseteq 1..frames'
  OBVIOUS
<1>5. \A t \in Server : t # s => ThreadInv(t)'
  BY <1>1, <1>2, <1>3, <1>4 DEF ThreadInv
<1>6. QED
  BY <1>2, <1>3, <1>5 DEF NetInv

-----------------------------------------------------------------------------
(* A discovery begins.                                                     *)
LEMMA DiscoverKeeps ==
  ASSUME StoreInv, Watched, NEW s \in Server, discover(s)
  PROVE  StoreInv'
<1>0. RosterInv /\ NetInv /\ NumbersInv /\ FlagInv
  BY DEF StoreInv
<1>1. /\ net' = [net EXCEPT ![s] = [pc |-> "add", next |-> 1]]
      /\ UNCHANGED <<roster, alloc, slots, captures, main, consumer, commanded, frames>>
  BY DEF discover
<1>2. frames \in Nat /\ frames' \in Nat /\ frames <= frames'
  BY <1>0, <1>1 DEF NumbersInv
<1>3. net'[s] = [pc |-> "add", next |-> 1]
  BY <1>0, <1>1 DEF NetInv
<1>4. net'[s].pc = "add" /\ net'[s].next = 1 /\ 1 \in 1..NCam
  BY <1>3, StoreAssumption
<1>5. ThreadInv(s)' /\ ~Holding(s)'
  BY <1>4 DEF ThreadInv, Holding
<1>6. NetInv' /\ \A t \in Server : t # s => net'[t] = net[t] /\ (Holding(t)' <=> Holding(t))
  BY <1>0, <1>1, <1>2, <1>5, NetStep
<1>7. RosterInv' /\ Stay
  BY <1>0, <1>1 DEF RosterInv, Stay
<1>8. FlagInv'
  BY <1>0, <1>1, FlagSame
<1>9. QED
  BY <1>1, <1>5, <1>6, <1>7, <1>8, NoFrameMoves

(* A camera is added at the end of the roster, or is there already.        *)
LEMMA AddKeeps ==
  ASSUME StoreInv, Watched, NEW s \in Server, addCamera(s)
  PROVE  StoreInv'
<1> DEFINE c == <<s, net[s].next>>
           r == IF net[s].next < NCam THEN [pc |-> "add", next |-> net[s].next + 1]
                ELSE [pc |-> "rebuild"]
<1>0. RosterInv /\ NetInv /\ NumbersInv /\ FlagInv
  BY DEF StoreInv
<1>1. /\ net[s].pc = "add" /\ net' = [net EXCEPT ![s] = r]
      /\ UNCHANGED <<slots, captures, main, consumer, commanded, frames>>
  BY DEF addCamera
<1>2. frames \in Nat /\ frames' \in Nat /\ frames <= frames'
  BY <1>0, <1>1 DEF NumbersInv
<1>3. net[s].next \in 1..NCam /\ NCam \in Nat /\ net'[s] = r
  BY <1>0, <1>1, StoreAssumption DEF NetInv, ThreadInv
<1>4. ThreadInv(s)' /\ ~Holding(s)'
  <2>1. CASE net[s].next < NCam
    <3>1. net'[s].pc = "add" /\ net'[s].next = net[s].next + 1
      BY <1>3, <2>1
    <3>2. net'[s].next \in 1..NCam
      BY <1>3, <2>1, <3>1
    <3>3. QED
      BY <3>1, <3>2 DEF ThreadInv, Holding
  <2>2. CASE ~(net[s].next < NCam)
    <3>1. net'[s].pc = "rebuild"
      BY <1>3, <2>2
    <3>2. QED
      BY <3>1 DEF ThreadInv, Holding
  <2>3. QED
    BY <2>1, <2>2
<1>5. NetInv' /\ \A t \in Server : t # s => net'[t] = net[t] /\ (Holding(t)' <=> Holding(t))
  BY <1>0, <1>1, <1>2, <1>4, NetStep
<1>6. ASSUME RosterInv', Stay, FlagInv' PROVE StoreInv'
  BY <1>1, <1>4, <1>5, <1>6, NoFrameMoves
<1>7. CASE c \in Known
  <2>1. UNCHANGED <<roster, alloc>>
    BY <1>7 DEF addCamera
  <2>2. RosterInv' /\ Stay
    BY <1>0, <2>1 DEF RosterInv, Stay
  <2>3. FlagInv'
    BY <1>0, <1>1, <2>1, FlagSame
  <2>4. QED
    BY <1>6, <2>2, <2>3
<1>8. CASE c \notin Known
  <2> DEFINE new == [cam |-> c, global_id |-> Len(roster), streaming |-> FALSE]
             n   == Len(roster)
  <2>1. roster' = Append(roster, new)
    BY <1>8 DEF addCamera
  <2>2. /\ roster \in Seq(Entry) /\ n \in Nat /\ DOMAIN roster = 1..n
        /\ \A i \in DOMAIN roster : roster[i].global_id = i - 1
        /\ \A i, j \in DOMAIN roster : roster[i].cam = roster[j].cam => i = j
    BY <1>0, RosterFacts DEF RosterInv
  <2>3. new \in Entry
    BY <1>3, <2>2 DEF Entry, Camera
  <2>4. new.cam = c /\ new.global_id = n /\ ~new.streaming
    OBVIOUS
  <2> HIDE DEF new
  <2>5. /\ roster' \in Seq(Entry) /\ DOMAIN roster' = 1..(n + 1)
        /\ \A i \in 1..n : roster'[i] = roster[i]
        /\ roster'[n + 1] = new
    BY <2>1, <2>2, <2>3, AppendProperties, LenProperties
  <2>6. \A i \in 1..(n + 1) : i \in 1..n \/ i = n + 1
    BY <2>2
  <2>7. \A i \in 1..n : roster[i].cam # c
    BY <1>8, <2>2 DEF Known
  <2>8. RosterInv'
    <3>1. \A i \in 1..(n + 1) : roster'[i].global_id = i - 1
      <4>1. TAKE i \in 1..(n + 1)
      <4>2. CASE i \in 1..n
        BY <2>2, <2>5, <4>2
      <4>3. CASE i = n + 1
        BY <2>2, <2>4, <2>5, <4>3
      <4>4. QED
        BY <2>6, <4>2, <4>3
    <3>2. \A i, j \in 1..(n + 1) : roster'[i].cam = roster'[j].cam => i = j
      <4> HIDE DEF c, n
      <4>1. TAKE i, j \in 1..(n + 1)
      <4>2. QED
        BY <2>2, <2>4, <2>5, <2>6, <2>7
    <3>3. QED
      BY <2>5, <3>1, <3>2 DEF RosterInv
  <2>9. Stay
    BY <2>2, <2>5, <2>6 DEF Stay
  <2>10. FlagInv'
    <3>1. strayed' = (strayed \/ (main # Idle /\ (reallocated \/ rebuilding)))
          /\ strayed \in BOOLEAN
      BY <1>0 DEF Watched, FlagInv
    <3>2. ASSUME ~strayed' PROVE FlagsRight'
      <4>1. ~strayed /\ (main # Idle => alloc' = alloc)
        BY <3>1, <3>2 DEF reallocated
      <4>2. /\ main # Idle => Valid(main.at) /\ main.at.index \in DOMAIN roster
            /\ commanded \subseteq Known
            /\ \A i \in DOMAIN roster :
                 roster[i].cam \in commanded
                   <=> IF main.pc = "flag" /\ main.at.index = i THEN main.on
                       ELSE roster[i].streaming
        BY <1>0, <4>1 DEF FlagInv, FlagsRight
      <4>3. main # Idle => (Valid(main.at) /\ main.at.index \in DOMAIN roster)'
        BY <1>1, <2>9, <4>1, <4>2 DEF Valid, Stay
      <4>4. commanded' \subseteq Known'
        <5>1. Known \subseteq Known'
          BY <2>9 DEF Stay, Known
        <5>2. QED
          BY <1>1, <4>2, <5>1
      <4>5. c \notin commanded
        BY <1>8, <4>2
      <4>6. ASSUME NEW i \in 1..(n + 1)
            PROVE  roster'[i].cam \in commanded
                     <=> IF main.pc = "flag" /\ main.at.index = i THEN main.on
                         ELSE roster'[i].streaming
        <5>1. CASE i \in 1..n
          BY <2>2, <2>5, <4>2, <5>1
        <5>2. CASE i = n + 1
          <6>1. ~(main.pc = "flag" /\ main.at.index = i)
            <7>1. main.pc = "flag" => main # Idle
              BY DEF Idle
            <7>2. n + 1 \notin 1..n
              BY <2>2
            <7>3. QED
              BY <2>2, <4>2, <5>2, <7>1, <7>2
          <6>2. roster'[i].cam = c /\ ~roster'[i].streaming
            BY <2>4, <2>5, <5>2
          <6>3. QED
            BY <4>5, <6>1, <6>2
        <5>3. QED
          BY <2>6, <5>1, <5>2
      <4>7. QED
        BY <1>1, <2>5, <4>3, <4>4, <4>6 DEF FlagsRight
    <3>3. QED
      BY <1>0, <1>1, <3>1, <3>2 DEF FlagInv
  <2>11. QED
    BY <1>6, <2>8, <2>9, <2>10
<1>9. QED
  BY <1>7, <1>8

(* The roster is sorted and what was kept is dropped: where it was not in  *)
(* order, every frame in hand has crossed that.                            *)
LEMMA RebuildKeeps ==
  ASSUME StoreInv, Watched, NEW s \in Server, rebuildGlobalIdsSorted(s)
  PROVE  StoreInv'
<1>0. /\ RosterInv /\ NetInv /\ HeldInv /\ ApartInv /\ KeptInv /\ NumbersInv /\ FrameInv
      /\ FlagInv
  BY DEF StoreInv
<1>1. /\ net[s].pc = "rebuild" /\ roster' = rosterSorted
      /\ slots' = <<>> /\ captures' = <<>>
      /\ net' = [net EXCEPT ![s] = Idle]
      /\ restarted' = {g \in Gid : cursor[g] # 0}
      /\ UNCHANGED <<alloc, main, cursor, had, commanded, frames>>
  BY DEF rebuildGlobalIdsSorted, slotsAfterRebuild
<1>2. /\ frames \in Nat /\ frames' \in Nat /\ frames <= frames'
      /\ DOMAIN slots' = {} /\ DOMAIN captures' = {}
  BY <1>0, <1>1 DEF NumbersInv
<1>3. /\ crossing \subseteq crossing' /\ crossing' \subseteq 1..frames'
  BY <1>0, <1>2, Crossing
<1>4. net'[s] = Idle
  BY <1>0, <1>1 DEF NetInv
<1>5. ThreadInv(s)' /\ ~Holding(s)'
  <2>1. net'[s].pc = "idle"
    BY <1>4 DEF Idle
  <2>2. QED
    BY <2>1 DEF ThreadInv, Holding
<1>6. NetInv' /\ \A t \in Server : t # s => net'[t] = net[t] /\ (Holding(t)' <=> Holding(t))
  BY <1>0, <1>1, <1>2, <1>5, NetStep
<1>7. /\ DOMAIN roster' = DOMAIN roster
      /\ \A i \in DOMAIN roster : \E j \in DOMAIN roster :
           /\ roster'[j].cam = roster[i].cam /\ roster'[j].streaming = roster[i].streaming
      /\ \A j \in DOMAIN roster : \E i \in DOMAIN roster :
           /\ roster'[j].cam = roster[i].cam /\ roster'[j].streaming = roster[i].streaming
  BY <1>0, <1>1, SortedRoster
<1>8. RosterInv'
  BY <1>0, <1>1, SortedRoster DEF RosterInv
<1>9. ~Disturbed => Stay
  <2> SUFFICES ASSUME ~Disturbed PROVE Stay
    OBVIOUS
  <2>1. rebuilding
    BY <1>1 DEF rebuilding
  <2>2. InOrder(roster)
    BY <2>1 DEF Disturbed, resorting
  <2>3. roster' = roster
    BY <1>0, <1>1, <2>2, SortedStays
  <2>4. QED
    BY <2>3 DEF Stay
<1>10. HeldInv'
  <2> SUFFICES ASSUME NEW t \in Server PROVE HeldBy(t)'
    BY DEF HeldInv
  <2>1. CASE t = s
    BY <1>5, <2>1 DEF HeldBy, Tame
  <2>2. CASE t # s
    <3>1. HeldBy(t) /\ net'[t] = net[t]
      BY <1>0, <1>6, <2>2 DEF HeldInv
    <3>2. Tame(t) => Below(t)'
      <4> SUFFICES ASSUME Below(t) PROVE Below(t)'
        BY <3>1 DEF HeldBy
      <4>1. Home(t)' = Home(t)
        BY <3>1 DEF Home
      <4>2. QED
        BY <1>1, <1>2, <3>1, <4>1 DEF Below
    <3>3. QED
      BY <1>0, <1>2, <1>9, <3>1, <3>2, HeldCarries
  <2>3. QED
    BY <2>1, <2>2
<1>11. ApartInv'
  <2>1. ASSUME NEW t \in Server, Holding(t)' PROVE Apart(t)'
    <3>1. t # s /\ Holding(t) /\ net'[t] = net[t] /\ Apart(t)
      BY <1>0, <1>5, <1>6, <2>1 DEF ApartInv
    <3>2. \A u \in Server : Holding(u)' => Holding(u) /\ net'[u] = net[u]
      BY <1>5, <1>6
    <3>3. QED
      BY <1>1, <1>2, <3>1, <3>2 DEF Apart
  <2>2. QED
    BY <2>1 DEF ApartInv, Apart
<1>12. KeptInv'
  BY <1>2 DEF KeptInv
<1>13. NumbersInv'
  BY <1>0, <1>1, <1>2, <1>3 DEF NumbersInv
<1>14. FrameInv'
  <2>1. \A g \in Gid : CursorInv(g)'
    <3>1. TAKE g \in Gid
    <3>2. g \notin restarted' => cursor[g] = 0
      BY <1>1
    <3>3. SlotNumber(g)' = 0
      BY <1>2 DEF SlotNumber
    <3>4. QED
      BY <1>1, <1>2, <3>2, <3>3 DEF CursorInv
  <2>2. QED
    BY <1>2, <2>1 DEF FrameInv
<1>15. FlagInv'
  <2>1. strayed' = (strayed \/ (main # Idle /\ (reallocated \/ rebuilding)))
        /\ strayed \in BOOLEAN
    BY <1>0 DEF Watched, FlagInv
  <2>2. ASSUME ~strayed' PROVE FlagsRight'
    <3>1. rebuilding
      BY <1>1 DEF rebuilding
    <3>2. ~strayed /\ main = Idle /\ main' = Idle /\ main.pc # "flag"
      <4>1. Idle.pc # "flag"
        BY DEF Idle
      <4>2. ~strayed /\ main = Idle
        BY <2>1, <2>2, <3>1
      <4>3. QED
        BY <1>1, <4>1, <4>2
    <3>3. commanded \subseteq Known
          /\ \A i \in DOMAIN roster : roster[i].cam \in commanded <=> roster[i].streaming
      BY <1>0, <3>2 DEF FlagInv, FlagsRight
    <3>4. Known \subseteq Known'
      <4>1. ASSUME NEW c \in Known PROVE c \in Known'
        <5>1. PICK i \in DOMAIN roster : roster[i].cam = c
          BY DEF Known
        <5>2. PICK j \in DOMAIN roster : roster'[j].cam = roster[i].cam
          BY <1>7
        <5>3. QED
          BY <1>7, <5>1, <5>2 DEF Known
      <4>2. QED
        BY <4>1
    <3>5. \A j \in DOMAIN roster' : roster'[j].cam \in commanded <=> roster'[j].streaming
      BY <1>7, <3>3
    <3>6. QED
      BY <1>1, <3>2, <3>3, <3>4, <3>5 DEF FlagsRight
  <2>3. QED
    BY <1>0, <1>1, <2>1, <2>2 DEF FlagInv
<1>16. QED
  BY <1>6, <1>8, <1>10, <1>11, <1>12, <1>13, <1>14, <1>15 DEF StoreInv

-----------------------------------------------------------------------------
(* A frame comes in and its camera is looked up: it is the newest.         *)
LEMMA FindKeeps ==
  ASSUME StoreInv, Watched, NEW s \in Server, NEW c \in Camera,
         NEW kind \in {"live", "capture"}, onFrameFind(s, c, kind)
  PROVE  StoreInv'
<1>0. /\ RosterInv /\ NetInv /\ HeldInv /\ ApartInv /\ KeptInv /\ NumbersInv /\ FrameInv
      /\ FlagInv
  BY DEF StoreInv
<1>1. /\ net[s] = Idle /\ c[1] = s /\ frames' = frames + 1
      /\ net' = IF c \in Known
                THEN [net EXCEPT ![s] = [pc |-> "found", cam |-> c, kind |-> kind,
                                         frame |-> frames + 1, at |-> Pointer(At(c))]]
                ELSE net
      /\ UNCHANGED <<roster, alloc, slots, captures, main, consumer, commanded>>
  BY DEF onFrameFind
<1>2. /\ frames \in Nat /\ frames' \in Nat /\ frames <= frames'
      /\ \A g \in Gid : had[g] <= frames /\ had[g] \in Nat
      /\ UNCHANGED <<cursor, had, restarted>>
  BY <1>0, <1>1 DEF NumbersInv, consumer
<1>3. ~Holding(s)
  BY <1>1 DEF Idle, Holding
<1>4. RosterInv' /\ Stay
  BY <1>0, <1>1 DEF RosterInv, Stay
<1>5. FlagInv'
  BY <1>0, <1>1, FlagSame
<1>6. /\ crossing \subseteq crossing' /\ crossing' \subseteq 1..frames
      /\ crossing' \subseteq 1..frames'
  BY <1>0, <1>2, Crossing
<1>7. KeptInv'
  BY <1>0, <1>1, <1>4, <1>6, KeptSame
<1>8. CASE c \notin Known
  <2>1. net' = net
    BY <1>1, <1>8
  <2>2. NetInv'
    <3>1. 1..frames \subseteq 1..frames'
      BY <1>2
    <3>2. \A t \in Server : ThreadInv(t)'
      BY <1>0, <2>1, <3>1 DEF NetInv, ThreadInv, Holding
    <3>3. QED
      BY <1>0, <2>1, <3>2 DEF NetInv
  <2>3. \A t \in Server : Holding(t)' => Holding(t) /\ net'[t] = net[t]
    BY <2>1 DEF Holding
  <2>4. QED
    BY <1>1, <1>2, <1>4, <1>5, <1>7, <2>2, <2>3, HandsKeep
<1>9. CASE c \in Known
  <2> DEFINE r == [pc |-> "found", cam |-> c, kind |-> kind,
                   frame |-> frames + 1, at |-> Pointer(At(c))]
  <2>1. net' = [net EXCEPT ![s] = r] /\ net'[s] = r
    BY <1>0, <1>1, <1>9 DEF NetInv
  <2>2. At(c) \in DOMAIN roster /\ roster[At(c)].cam = c
    BY <1>9 DEF Known, At
  <2>3. /\ net'[s].pc = "found" /\ net'[s].cam = c /\ net'[s].frame = frames + 1
        /\ net'[s].at.alloc = alloc /\ net'[s].at.index = At(c)
    BY <2>1 DEF Pointer
  <2>4. ThreadInv(s)' /\ Holding(s)'
    <3>1. frames + 1 \in 1..(frames + 1)
      BY <1>2
    <3>2. QED
      BY <1>1, <2>3, <3>1 DEF ThreadInv, Holding
  <2>5. NetInv' /\ \A t \in Server : t # s => net'[t] = net[t] /\ (Holding(t)' <=> Holding(t))
    <3> HIDE DEF r
    <3>1. QED
      BY <1>0, <1>2, <2>1, <2>4, NetStep
  <2> HIDE DEF r
  <2>6. \A g \in DOMAIN slots : g \in Gid /\ slots[g].frame \in 1..frames
    BY <1>0 DEF NumbersInv, FrameInv, SlotInv
  <2>7. HeldInv'
    <3> SUFFICES ASSUME NEW t \in Server PROVE HeldBy(t)'
      BY DEF HeldInv
    <3>1. CASE t = s
      <4>1. Home(s)' = At(c)
        BY <2>3 DEF Home
      <4>2. Leads(s)'
        BY <1>1, <2>2, <2>3, <4>1 DEF Leads, Valid
      <4>3. Later(s)'
        <5>1. \A y \in 1..frames : y < frames + 1
          BY <1>2
        <5>2. QED
          BY <1>6, <2>3, <5>1 DEF Later
      <4>4. Below(s)'
        <5>1. \A g \in Gid : had[g] < frames + 1
          BY <1>2
        <5>2. \A g \in DOMAIN slots : slots[g].frame < frames + 1
          BY <1>2, <2>6
        <5>3. QED
          BY <1>1, <1>2, <2>3, <5>1, <5>2 DEF Below
      <4>5. QED
        BY <3>1, <4>2, <4>3, <4>4 DEF HeldBy
    <3>2. CASE t # s
      <4>1. HeldBy(t) /\ net'[t] = net[t]
        BY <1>0, <2>5, <3>2 DEF HeldInv
      <4>2. Tame(t) => Below(t)'
        BY <1>1, <1>2, <4>1, BelowSame DEF HeldBy
      <4>3. QED
        BY <1>0, <1>2, <1>4, <4>1, <4>2, HeldCarries
    <3>3. QED
      BY <3>1, <3>2
  <2>8. ApartInv'
    <3>1. \A y \in 1..frames : y # frames + 1
      BY <1>2
    <3>2. \A t \in Server : Holding(t) => net[t].frame \in 1..frames
      BY <1>0 DEF NetInv, ThreadInv
    <3>3. \A g \in Gid : had[g] # frames + 1
      BY <1>2
    <3>4. ASSUME NEW t \in Server, Holding(t)' PROVE Apart(t)'
      <4>1. CASE t = s
        <5>1. \A u \in Server : u # s /\ Holding(u)' => net'[u].frame # frames + 1
          BY <2>5, <3>1, <3>2
        <5>2. \A g \in DOMAIN slots : slots[g].frame # frames + 1
          BY <2>6, <3>1
        <5>3. QED
          BY <1>1, <1>2, <2>3, <3>3, <4>1, <5>1, <5>2 DEF Apart
      <4>2. CASE t # s
        <5>1. Holding(t) /\ net'[t] = net[t] /\ Apart(t)
          BY <1>0, <2>5, <3>4, <4>2 DEF ApartInv
        <5>2. \A u \in Server : u # t /\ Holding(u)' => net'[u].frame # net[t].frame
          <6>1. TAKE u \in Server
          <6>2. CASE u = s
            BY <2>3, <3>1, <3>2, <5>1, <6>2
          <6>3. CASE u # s
            BY <2>5, <5>1, <6>3 DEF Apart
          <6>4. QED
            BY <6>2, <6>3
        <5>3. QED
          BY <1>1, <1>2, <5>1, <5>2 DEF Apart
      <4>3. QED
        BY <4>1, <4>2
    <3>5. QED
      BY <3>4 DEF ApartInv, Apart
  <2>9. FrameInv' /\ NumbersInv'
    BY <1>0, <1>1, <1>2, <1>6, FrameSame
  <2>10. QED
    BY <1>4, <1>5, <1>7, <2>5, <2>7, <2>8, <2>9 DEF StoreInv
<1>10. QED
  BY <1>8, <1>9

(* The global id is read through the pointer: unless the vector is being   *)
(* sorted, or has moved, it is that of the frame's camera.                 *)
LEMMA ReadKeeps ==
  ASSUME StoreInv, Watched, NEW s \in Server, onFrameRead(s)
  PROVE  StoreInv'
<1>0. /\ RosterInv /\ NetInv /\ HeldInv /\ ApartInv /\ KeptInv /\ NumbersInv /\ FrameInv
      /\ FlagInv
  BY DEF StoreInv
<1>1. net[s].pc = "found"
      /\ UNCHANGED <<roster, alloc, slots, captures, main, consumer, commanded, frames>>
  BY DEF onFrameRead
<1>2. PICK g \in Gid :
        /\ Sound(net[s].at) => g = roster[net[s].at.index].global_id
        /\ net' = [net EXCEPT ![s] = [pc |-> "publish", cam |-> net[s].cam,
                     kind |-> net[s].kind, frame |-> net[s].frame, gid |-> g]]
  BY DEF onFrameRead
<1>3. /\ frames \in Nat /\ frames' \in Nat /\ frames <= frames'
      /\ UNCHANGED <<cursor, had, restarted>>
  BY <1>0, <1>1 DEF NumbersInv, consumer
<1>4. net'[s] = [pc |-> "publish", cam |-> net[s].cam,
                 kind |-> net[s].kind, frame |-> net[s].frame, gid |-> g]
  BY <1>0, <1>2 DEF NetInv
<1>5. /\ net'[s].pc = "publish" /\ net'[s].cam = net[s].cam
      /\ net'[s].frame = net[s].frame /\ net'[s].gid = g
  BY <1>4
<1>6. Holding(s) /\ Holding(s)'
  BY <1>1, <1>5 DEF Holding
<1>7. ThreadInv(s)'
  <2>1. net[s].cam[1] = s /\ net[s].frame \in 1..frames
    BY <1>0, <1>6 DEF NetInv, ThreadInv
  <2>2. QED
    BY <1>1, <1>5, <2>1 DEF ThreadInv
<1>8. NetInv' /\ \A t \in Server : t # s => net'[t] = net[t] /\ (Holding(t)' <=> Holding(t))
  BY <1>0, <1>2, <1>3, <1>7, NetStep
<1>9. \A t \in Server : (Holding(t)' <=> Holding(t)) /\ (Holding(t) => net'[t].frame = net[t].frame)
  BY <1>5, <1>6, <1>8
<1>10. RosterInv' /\ Stay
  BY <1>0, <1>1 DEF RosterInv, Stay
<1>11. FlagInv'
  BY <1>0, <1>1, FlagSame
<1>12. /\ crossing \subseteq crossing' /\ crossing' \subseteq 1..frames'
       /\ Disturbed => net[s].frame \in crossing'
       /\ ~Disturbed => crossing' = crossing
  BY <1>0, <1>3, <1>6, Crossing
<1>13. KeptInv'
  BY <1>0, <1>1, <1>10, <1>12, KeptSame
<1>14. HeldBy(s)'
  <2> SUFFICES ASSUME Tame(s)' PROVE Leads(s)' /\ Later(s)' /\ Below(s)'
    BY DEF HeldBy
  <2>1. net[s].frame \notin crossing'
    BY <1>5 DEF Tame
  <2>2. ~resorting /\ crossing' = crossing /\ Tame(s)
    BY <1>6, <1>12, <2>1 DEF Disturbed, Tame
  <2>3. Leads(s) /\ Later(s) /\ Below(s)
    BY <1>0, <2>2 DEF HeldInv, HeldBy
  <2> DEFINE i == net[s].at.index
  <2>4. Home(s) = i /\ i \in DOMAIN roster /\ roster[i].cam = net[s].cam /\ Valid(net[s].at)
    BY <1>1, <2>3 DEF Leads, Home
  <2>5. g = roster[i].global_id
    BY <1>2, <2>2, <2>4 DEF Sound
  <2>6. g = i - 1 /\ i \in Nat
    BY <1>0, <2>4, <2>5, RosterFacts DEF RosterInv
  <2>7. g + 1 = i
    BY <2>6
  <2>8. Home(s)' = i
    BY <1>5, <2>7 DEF Home
  <2> HIDE DEF i
  <2>9. Leads(s)'
    BY <1>1, <1>5, <2>4, <2>8 DEF Leads
  <2>10. Later(s)'
    BY <1>5, <2>2, <2>3 DEF Later
  <2>11. Below(s)'
    BY <1>1, <1>3, <1>5, <2>3, <2>4, <2>8 DEF Below
  <2>12. QED
    BY <2>9, <2>10, <2>11
<1>15. HeldInv'
  <2> SUFFICES ASSUME NEW t \in Server, t # s PROVE HeldBy(t)'
    BY <1>14 DEF HeldInv
  <2>1. HeldBy(t) /\ net'[t] = net[t]
    BY <1>0, <1>8 DEF HeldInv
  <2>2. Tame(t) => Below(t)'
    BY <1>1, <1>3, <2>1, BelowSame DEF HeldBy
  <2>3. QED
    BY <1>0, <1>3, <1>10, <2>1, <2>2, HeldCarries
<1>16. ApartInv'
  <2>1. ASSUME NEW t \in Server, Holding(t)' PROVE Apart(t)'
    <3>1. Apart(t) /\ Holding(t) /\ net'[t].frame = net[t].frame
      BY <1>0, <1>9, <2>1 DEF ApartInv
    <3>2. \A u \in Server : u # t /\ Holding(u)' => net'[u].frame # net'[t].frame
      BY <1>9, <3>1 DEF Apart
    <3>3. QED
      BY <1>1, <1>3, <3>1, <3>2 DEF Apart
  <2>2. QED
    BY <2>1 DEF ApartInv, Apart
<1>17. FrameInv' /\ NumbersInv'
  BY <1>0, <1>1, <1>3, <1>12, FrameSame
<1>18. QED
  BY <1>8, <1>10, <1>11, <1>13, <1>15, <1>16, <1>17 DEF StoreInv

(* A live frame is published in the slot of the id that was read.  What    *)
(* another thread holds for that slot is newer: it came after every frame  *)
(* that has crossed a move, and the others of the slot are of its server.  *)
LEMMA PublishFrameKeeps ==
  ASSUME StoreInv, Watched, NEW s \in Server, publishFrame(s)
  PROVE  StoreInv'
<1> DEFINE g == net[s].gid
           v == [cam |-> net[s].cam, frame |-> net[s].frame, seq |-> seqAfter(g)]
<1>0. /\ RosterInv /\ NetInv /\ HeldInv /\ ApartInv /\ KeptInv /\ NumbersInv /\ FrameInv
      /\ FlagInv
  BY DEF StoreInv
<1>1. /\ net[s].pc = "publish" /\ slots' = put(slots, g, v)
      /\ net' = [net EXCEPT ![s] = Idle]
      /\ UNCHANGED <<roster, alloc, captures, main, consumer, commanded, frames>>
  BY DEF publishFrame
<1>2. /\ frames \in Nat /\ frames' \in Nat /\ frames <= frames'
      /\ cursor \in [Gid -> Nat] /\ had \in [Gid -> Nat]
      /\ UNCHANGED <<cursor, had, restarted>>
  BY <1>0, <1>1 DEF NumbersInv, consumer
<1>3. Holding(s) /\ net[s].cam[1] = s /\ net[s].frame \in 1..frames /\ g \in Gid
  <2>1. Holding(s)
    BY <1>1 DEF Holding
  <2>2. QED
    BY <1>0, <1>1, <2>1 DEF NetInv, ThreadInv
<1>4. /\ DOMAIN slots' = DOMAIN slots \cup {g} /\ slots'[g] = v
      /\ \A h \in DOMAIN slots : h # g => slots'[h] = slots[h]
  BY <1>1 DEF put
<1>5. v.cam = net[s].cam /\ v.frame = net[s].frame /\ v.seq = SlotNumber(g) + 1
  BY DEF seqAfter, SlotNumber
<1>6. Home(s) = g + 1 /\ g = Home(s) - 1
  <2>1. g \in Int
    BY <1>3, StoreAssumption DEF Gid
  <2>2. QED
    BY <1>1, <2>1 DEF Home
<1> HIDE DEF g, v
<1>7. net'[s] = Idle
  BY <1>0, <1>1 DEF NetInv
<1>8. ThreadInv(s)' /\ ~Holding(s)'
  <2>1. net'[s].pc = "idle"
    BY <1>7 DEF Idle
  <2>2. QED
    BY <2>1 DEF ThreadInv, Holding
<1>9. NetInv' /\ \A t \in Server : t # s => net'[t] = net[t] /\ (Holding(t)' <=> Holding(t))
  BY <1>0, <1>1, <1>2, <1>8, NetStep
<1>10. RosterInv' /\ Stay
  BY <1>0, <1>1 DEF RosterInv, Stay
<1>11. FlagInv'
  BY <1>0, <1>1, FlagSame
<1>12. crossing \subseteq crossing' /\ crossing' \subseteq 1..frames'
  BY <1>0, <1>2, Crossing
<1>13. net[s].frame \notin crossing => Leads(s) /\ Below(s)
  BY <1>0, <1>3 DEF HeldInv, HeldBy, Tame
<1>14. SlotNumber(g) \in Nat
  BY <1>0 DEF FrameInv, SlotNumber, SlotInv
<1>15. HeldInv'
  <2> SUFFICES ASSUME NEW t \in Server PROVE HeldBy(t)'
    BY DEF HeldInv
  <2>1. CASE t = s
    BY <1>8, <2>1 DEF HeldBy, Tame
  <2>2. CASE t # s
    <3>1. HeldBy(t) /\ net'[t] = net[t]
      BY <1>0, <1>9, <2>2 DEF HeldInv
    <3>2. ASSUME Tame(t) PROVE Below(t)'
      <4>1. Leads(t) /\ Later(t) /\ Below(t) /\ Home(t)' = Home(t)
        BY <3>1, <3>2 DEF HeldBy, Home
      <4>2. ASSUME g = Home(t) - 1 PROVE net[s].frame < net[t].frame
        <5>1. net[s].frame \in crossing
          <6> SUFFICES ASSUME net[s].frame \notin crossing PROVE FALSE
            OBVIOUS
          <6>1. Home(t) \in Nat /\ g \in Int
            BY <1>0, <1>3, <4>1, RosterFacts, StoreAssumption DEF Leads, Gid
          <6>2. Home(t) = Home(s)
            BY <1>6, <4>2, <6>1
          <6>3. net[s].cam = net[t].cam
            BY <1>13, <4>1, <6>2 DEF Leads
          <6>4. net[t].cam[1] = t
            BY <1>0, <3>2 DEF NetInv, ThreadInv, Tame
          <6>5. QED
            BY <1>3, <2>2, <6>3, <6>4
        <5>2. QED
          BY <4>1, <5>1 DEF Later
      <4>3. ASSUME NEW h \in Gid, h = Home(t) - 1
            PROVE  had[h] < net[t].frame /\ (h \in DOMAIN slots' => slots'[h].frame < net[t].frame)
        <5>1. had[h] < net[t].frame /\ (h \in DOMAIN slots => slots[h].frame < net[t].frame)
          BY <4>1, <4>3 DEF Below
        <5>2. CASE h = g
          BY <1>4, <1>5, <4>2, <4>3, <5>1, <5>2
        <5>3. CASE h # g
          BY <1>4, <5>1, <5>3
        <5>4. QED
          BY <5>2, <5>3
      <4>4. QED
        BY <1>2, <3>1, <4>1, <4>3 DEF Below
    <3>3. QED
      BY <1>0, <1>2, <1>10, <3>1, <3>2, HeldCarries
  <2>3. QED
    BY <2>1, <2>2
<1>16. ApartInv'
  <2>1. ASSUME NEW t \in Server, Holding(t)' PROVE Apart(t)'
    <3>1. t # s /\ Holding(t) /\ net'[t] = net[t] /\ Apart(t)
      BY <1>0, <1>8, <1>9, <2>1 DEF ApartInv
    <3>2. \A u \in Server : Holding(u)' => Holding(u) /\ net'[u] = net[u]
      BY <1>8, <1>9
    <3>3. ASSUME NEW h \in DOMAIN slots' PROVE slots'[h].frame # net[t].frame
      <4>1. CASE h = g
        BY <1>3, <1>4, <1>5, <3>1, <4>1 DEF Apart
      <4>2. CASE h # g
        BY <1>4, <3>1, <4>2 DEF Apart
      <4>3. QED
        BY <4>1, <4>2
    <3>4. QED
      BY <1>2, <3>1, <3>2, <3>3 DEF Apart
  <2>2. QED
    BY <2>1 DEF ApartInv, Apart
<1>17. KeptInv'
  <2>1. ASSUME NEW h \in DOMAIN slots', slots'[h].frame \notin crossing'
        PROVE  Owns(slots[h].cam, h)'
    <3>1. slots'[h].frame \notin crossing
      BY <1>12, <2>1
    <3>2. CASE h = g
      <4>1. slots'[h].cam = net[s].cam /\ slots'[h].frame = net[s].frame
        BY <1>4, <1>5, <3>2
      <4>2. g + 1 \in DOMAIN roster /\ roster[g + 1].cam = net[s].cam
        BY <1>6, <1>13, <3>1, <4>1 DEF Leads
      <4>3. QED
        BY <1>1, <3>2, <4>1, <4>2 DEF Owns
    <3>3. CASE h # g
      <4>1. h \in DOMAIN slots /\ slots'[h] = slots[h]
        BY <1>4, <2>1, <3>3
      <4>2. Owns(slots[h].cam, h)
        BY <1>0, <3>1, <4>1 DEF KeptInv
      <4>3. QED
        BY <1>1, <4>1, <4>2 DEF Owns
    <3>4. QED
      BY <3>2, <3>3
  <2>2. ASSUME NEW h \in DOMAIN captures', captures'[h].frame \notin crossing'
        PROVE  Owns(captures[h].cam, h)'
    <3>1. captures' = captures /\ roster' = roster
      BY <1>1
    <3>2. Owns(captures[h].cam, h)
      BY <1>0, <1>12, <2>2, <3>1 DEF KeptInv
    <3>3. QED
      BY <3>1, <3>2 DEF Owns
  <2>3. QED
    BY <2>1, <2>2 DEF KeptInv
<1>18. NumbersInv'
  BY <1>0, <1>1, <1>2, <1>3, <1>4, <1>12 DEF NumbersInv
<1>19. ASSUME NEW h \in DOMAIN slots' PROVE SlotInv(h)'
  <2>1. CASE h = g
    <3>1. slots'[h].seq \in Nat /\ slots'[h].frame \in 1..frames'
      BY <1>1, <1>3, <1>4, <1>5, <1>14, <2>1
    <3>2. slots'[h].frame # had[h]
      BY <1>0, <1>3, <1>4, <1>5, <2>1 DEF ApartInv, Apart
    <3>3. slots'[h].frame \notin crossing' => had[h] <= slots'[h].frame
      <4> SUFFICES ASSUME slots'[h].frame \notin crossing' PROVE had[h] <= slots'[h].frame
        OBVIOUS
      <4>1. had[g] < net[s].frame
        <5>1. net[s].frame \notin crossing
          BY <1>4, <1>5, <1>12, <2>1
        <5>2. Below(s) /\ g = Home(s) - 1
          BY <1>6, <1>13, <5>1
        <5>3. QED
          BY <1>3, <5>2 DEF Below
      <4>2. had[g] \in Nat /\ net[s].frame \in Nat
        BY <1>2, <1>3
      <4>3. QED
        BY <1>4, <1>5, <2>1, <4>1, <4>2
    <3>4. QED
      BY <1>2, <3>1, <3>2, <3>3 DEF SlotInv
  <2>2. CASE h # g
    <3>1. slots'[h] = slots[h] /\ SlotInv(h)
      BY <1>0, <1>4, <2>2 DEF FrameInv
    <3>2. QED
      BY <1>1, <1>2, <1>12, <3>1 DEF SlotInv
  <2>3. QED
    BY <2>1, <2>2
<1>20. ASSUME NEW h \in Gid PROVE CursorInv(h)'
  <2> SUFFICES ASSUME h \notin restarted
               PROVE  /\ cursor[h] <= SlotNumber(h)'
                      /\ h \in DOMAIN slots' /\ slots'[h].frame # had[h] => cursor[h] < slots'[h].seq
    BY <1>2 DEF CursorInv
  <2>1. /\ cursor[h] <= SlotNumber(h) /\ cursor[h] \in Nat
        /\ h \in DOMAIN slots /\ slots[h].frame # had[h] => cursor[h] < slots[h].seq
    BY <1>0, <1>2 DEF FrameInv, CursorInv
  <2>2. CASE h = g
    <3>1. SlotNumber(h)' = SlotNumber(g) + 1 /\ slots'[h].seq = SlotNumber(g) + 1
      BY <1>4, <1>5, <2>2 DEF SlotNumber
    <3>2. cursor[h] < SlotNumber(g) + 1 /\ cursor[h] <= SlotNumber(g) + 1
      BY <1>14, <2>1, <2>2
    <3>3. QED
      BY <3>1, <3>2
  <2>3. CASE h # g
    <3>1. (h \in DOMAIN slots' <=> h \in DOMAIN slots)
          /\ (h \in DOMAIN slots => slots'[h] = slots[h])
      BY <1>4, <2>3
    <3>2. SlotNumber(h)' = SlotNumber(h)
      BY <3>1 DEF SlotNumber
    <3>3. QED
      BY <2>1, <3>1, <3>2
  <2>4. QED
    BY <2>2, <2>3
<1>21. FrameInv'
  BY <1>19, <1>20 DEF FrameInv
<1>22. QED
  BY <1>9, <1>10, <1>11, <1>15, <1>16, <1>17, <1>18, <1>21 DEF StoreInv

(* A captured frame is kept under the id that was read.                    *)
LEMMA PublishCaptureKeeps ==
  ASSUME StoreInv, Watched, NEW s \in Server, publishCapture(s)
  PROVE  StoreInv'
<1> DEFINE g == net[s].gid
           v == [cam |-> net[s].cam, frame |-> net[s].frame]
<1>0. /\ RosterInv /\ NetInv /\ HeldInv /\ KeptInv /\ NumbersInv /\ FlagInv
  BY DEF StoreInv
<1>1. /\ net[s].pc = "publish" /\ captures' = put(captures, g, v)
      /\ net' = [net EXCEPT ![s] = Idle]
      /\ UNCHANGED <<roster, alloc, slots, main, consumer, commanded, frames>>
  BY DEF publishCapture
<1>2. frames \in Nat /\ frames' \in Nat /\ frames <= frames'
  BY <1>0, <1>1 DEF NumbersInv
<1>3. Holding(s) /\ g \in Gid
  <2>1. Holding(s)
    BY <1>1 DEF Holding
  <2>2. QED
    BY <1>0, <1>1, <2>1 DEF NetInv, ThreadInv
<1>4. /\ DOMAIN captures' = DOMAIN captures \cup {g} /\ captures'[g] = v
      /\ \A h \in DOMAIN captures : h # g => captures'[h] = captures[h]
  BY <1>1 DEF put
<1>5. Home(s) = g + 1
  BY <1>1 DEF Home
<1>6. v.cam = net[s].cam /\ v.frame = net[s].frame
  OBVIOUS
<1> HIDE DEF g, v
<1>7. net'[s] = Idle
  BY <1>0, <1>1 DEF NetInv
<1>8. ThreadInv(s)' /\ ~Holding(s)'
  <2>1. net'[s].pc = "idle"
    BY <1>7 DEF Idle
  <2>2. QED
    BY <2>1 DEF ThreadInv, Holding
<1>9. NetInv' /\ \A t \in Server : t # s => net'[t] = net[t] /\ (Holding(t)' <=> Holding(t))
  BY <1>0, <1>1, <1>2, <1>8, NetStep
<1>10. RosterInv' /\ Stay
  BY <1>0, <1>1 DEF RosterInv, Stay
<1>11. FlagInv'
  BY <1>0, <1>1, FlagSame
<1>12. crossing \subseteq crossing'
  BY <1>0, <1>2, Crossing
<1>13. net[s].frame \notin crossing => Leads(s)
  BY <1>0, <1>3 DEF HeldInv, HeldBy, Tame
<1>14. KeptInv'
  <2>1. ASSUME NEW h \in DOMAIN captures', captures'[h].frame \notin crossing'
        PROVE  Owns(captures[h].cam, h)'
    <3>1. captures'[h].frame \notin crossing
      BY <1>12, <2>1
    <3>2. CASE h = g
      <4>1. captures'[h].cam = net[s].cam /\ captures'[h].frame = net[s].frame
        BY <1>4, <1>6, <3>2
      <4>2. g + 1 \in DOMAIN roster /\ roster[g + 1].cam = net[s].cam
        BY <1>5, <1>13, <3>1, <4>1 DEF Leads
      <4>3. QED
        BY <1>1, <3>2, <4>1, <4>2 DEF Owns
    <3>3. CASE h # g
      <4>1. h \in DOMAIN captures /\ captures'[h] = captures[h]
        BY <1>4, <2>1, <3>3
      <4>2. Owns(captures[h].cam, h)
        BY <1>0, <3>1, <4>1 DEF KeptInv
      <4>3. QED
        BY <1>1, <4>1, <4>2 DEF Owns
    <3>4. QED
      BY <3>2, <3>3
  <2>2. ASSUME NEW h \in DOMAIN slots', slots'[h].frame \notin crossing'
        PROVE  Owns(slots[h].cam, h)'
    <3>1. slots' = slots /\ roster' = roster
      BY <1>1
    <3>2. Owns(slots[h].cam, h)
      BY <1>0, <1>12, <2>2, <3>1 DEF KeptInv
    <3>3. QED
      BY <3>1, <3>2 DEF Owns
  <2>3. QED
    BY <2>1, <2>2 DEF KeptInv
<1>15. QED
  BY <1>1, <1>2, <1>8, <1>9, <1>10, <1>11, <1>14, HandsKeep

-----------------------------------------------------------------------------
(* The consumer takes the frame of a slot: what is in a hand for the slot  *)
(* is newer than that, unless it crosses a move.                           *)
LEMMA ConsumeKeeps ==
  ASSUME StoreInv, Watched, NEW g \in Gid, consumeIfNew(g)
  PROVE  StoreInv'
<1>0. /\ RosterInv /\ NetInv /\ HeldInv /\ ApartInv /\ KeptInv /\ NumbersInv /\ FrameInv
      /\ FlagInv
  BY DEF StoreInv
<1>1. /\ g \in DOMAIN slots
      /\ cursor' = [cursor EXCEPT ![g] = slots[g].seq]
      /\ had' = [had EXCEPT ![g] = slots[g].frame]
      /\ restarted' = restarted \ {g}
      /\ UNCHANGED <<roster, alloc, slots, captures, net, main, commanded, frames>>
  BY DEF consumeIfNew, isNew, cursorMoved
<1>2. /\ frames \in Nat /\ frames' \in Nat /\ frames <= frames' /\ frames' = frames
      /\ cursor \in [Gid -> Nat] /\ had \in [Gid -> Nat]
  BY <1>0, <1>1 DEF NumbersInv
<1>3. /\ cursor'[g] = slots[g].seq /\ had'[g] = slots[g].frame
      /\ \A h \in Gid : h # g => cursor'[h] = cursor[h] /\ had'[h] = had[h]
  BY <1>1, <1>2
<1>4. /\ slots[g].seq \in Nat /\ slots[g].frame \in 1..frames
      /\ slots[g].frame \in Nat /\ slots[g].frame <= frames
  <2>1. SlotInv(g)
    BY <1>0, <1>1 DEF FrameInv
  <2>2. QED
    BY <1>2, <2>1 DEF SlotInv
<1>5. NetInv' /\ RosterInv' /\ Stay
  <2>1. NetInv'
    BY <1>0, <1>1 DEF NetInv, ThreadInv, Holding
  <2>2. QED
    BY <1>0, <1>1, <2>1 DEF RosterInv, Stay
<1>6. FlagInv'
  BY <1>0, <1>1, FlagSame
<1>7. crossing \subseteq crossing' /\ crossing' \subseteq 1..frames'
  BY <1>0, <1>2, Crossing
<1>8. KeptInv'
  BY <1>0, <1>1, <1>5, <1>7, KeptSame
<1>9. HeldInv'
  <2> SUFFICES ASSUME NEW t \in Server PROVE HeldBy(t)'
    BY DEF HeldInv
  <2>1. HeldBy(t) /\ net'[t] = net[t]
    BY <1>0, <1>1 DEF HeldInv
  <2>2. ASSUME Tame(t) PROVE Below(t)'
    <3>1. Below(t) /\ Home(t)' = Home(t)
      BY <1>1, <2>1, <2>2 DEF HeldBy, Home
    <3>2. ASSUME NEW h \in Gid, h = Home(t) - 1
          PROVE  had'[h] < net[t].frame /\ (h \in DOMAIN slots => slots[h].frame < net[t].frame)
      <4>1. had[h] < net[t].frame /\ (h \in DOMAIN slots => slots[h].frame < net[t].frame)
        BY <3>1, <3>2 DEF Below
      <4>2. CASE h = g
        BY <1>1, <1>3, <4>1, <4>2
      <4>3. CASE h # g
        BY <1>3, <4>1, <4>3
      <4>4. QED
        BY <4>2, <4>3
    <3>3. QED
      BY <1>1, <3>1, <3>2 DEF Below
  <2>3. QED
    BY <1>0, <1>2, <1>5, <2>1, <2>2, HeldCarries
<1>10. ApartInv'
  <2>1. ASSUME NEW t \in Server, Holding(t)' PROVE Apart(t)'
    <3>1. Holding(t) /\ Apart(t)
      BY <1>0, <1>1, <2>1 DEF ApartInv, Holding
    <3>2. ASSUME NEW h \in Gid PROVE had'[h] # net[t].frame
      <4>1. CASE h = g
        BY <1>1, <1>3, <3>1, <4>1 DEF Apart
      <4>2. CASE h # g
        BY <1>3, <3>1, <4>2 DEF Apart
      <4>3. QED
        BY <4>1, <4>2
    <3>3. QED
      BY <1>1, <3>1, <3>2 DEF Apart, Holding
  <2>2. QED
    BY <2>1 DEF ApartInv, Apart
<1>11. NumbersInv'
  <2>1. cursor' \in [Gid -> Nat] /\ had' \in [Gid -> Nat]
    BY <1>1, <1>2, <1>4
  <2>2. \A h \in Gid : had'[h] <= frames'
    BY <1>0, <1>2, <1>3, <1>4 DEF NumbersInv
  <2>3. QED
    BY <1>0, <1>1, <1>2, <1>7, <2>1, <2>2 DEF NumbersInv
<1>12. ASSUME NEW h \in DOMAIN slots' PROVE SlotInv(h)'
  <2>1. h \in DOMAIN slots /\ h \in Gid /\ SlotInv(h)
    BY <1>0, <1>1 DEF FrameInv, NumbersInv
  <2>2. CASE h = g
    <3>1. slots[g].frame <= slots[g].frame
      BY <1>4
    <3>2. QED
      BY <1>1, <1>3, <1>4, <2>2, <3>1 DEF SlotInv
  <2>3. CASE h # g
    BY <1>1, <1>3, <1>7, <2>1, <2>3 DEF SlotInv
  <2>4. QED
    BY <2>2, <2>3
<1>13. ASSUME NEW h \in Gid PROVE CursorInv(h)'
  <2>1. CursorInv(h) /\ SlotNumber(h)' = SlotNumber(h)
    BY <1>0, <1>1 DEF FrameInv, SlotNumber
  <2>2. CASE h = g
    <3>1. SlotNumber(g) = slots[g].seq /\ slots[g].seq <= slots[g].seq
      BY <1>1, <1>4 DEF SlotNumber
    <3>2. QED
      BY <1>1, <1>3, <2>1, <2>2, <3>1 DEF CursorInv
  <2>3. CASE h # g
    <3>1. h \in restarted' <=> h \in restarted
      BY <1>1, <2>3
    <3>2. QED
      BY <1>1, <1>3, <2>1, <2>3, <3>1 DEF CursorInv
  <2>4. QED
    BY <2>2, <2>3
<1>14. FrameInv'
  BY <1>12, <1>13 DEF FrameInv
<1>15. QED
  BY <1>5, <1>6, <1>8, <1>9, <1>10, <1>11, <1>14 DEF StoreInv

-----------------------------------------------------------------------------
(* The pointer a command goes by leads into the roster.                    *)
LEMMA StreamFindKeeps ==
  ASSUME StoreInv, Watched, NEW g \in Gid, NEW on \in BOOLEAN, streamFind(g, on)
  PROVE  StoreInv'
<1>0. RosterInv /\ NetInv /\ FlagInv
  BY DEF StoreInv
<1>1. /\ main = Idle
      /\ UNCHANGED <<roster, alloc, slots, captures, net, consumer, commanded, frames>>
  BY DEF streamFind
<1>2. PICK i \in DOMAIN roster : main' = [pc |-> "command", at |-> Pointer(i), on |-> on]
  BY DEF streamFind
<1>3. /\ main'.pc = "command" /\ main'.on = on
      /\ main'.at.alloc = alloc /\ main'.at.index = i
  BY <1>2 DEF Pointer
<1>4. main.pc # "flag"
  BY <1>1 DEF Idle
<1>5. strayed' = strayed /\ strayed \in BOOLEAN
  BY <1>0, <1>1 DEF Watched, FlagInv
<1>6. ASSUME ~strayed' PROVE FlagsRight'
  <2>1. /\ commanded \subseteq Known
        /\ \A j \in DOMAIN roster : roster[j].cam \in commanded <=> roster[j].streaming
    BY <1>0, <1>4, <1>5, <1>6 DEF FlagInv, FlagsRight
  <2>2. QED
    BY <1>1, <1>2, <1>3, <2>1 DEF FlagsRight, Valid, Known
<1>7. FlagInv'
  BY <1>0, <1>3, <1>5, <1>6 DEF FlagInv
<1>8. RosterInv' /\ NetInv' /\ Stay
  BY <1>0, <1>1 DEF RosterInv, NetInv, ThreadInv, Holding, Stay
<1>9. \A t \in Server : Holding(t)' => Holding(t) /\ net'[t] = net[t]
  BY <1>1 DEF Holding
<1>10. QED
  BY <1>1, <1>7, <1>8, <1>9, NoFrameMoves

(* The command reaches the server of the camera that was looked up, unless *)
(* the vector is moving.                                                   *)
LEMMA StreamCommandKeeps ==
  ASSUME StoreInv, Watched, NEW told \in BOOLEAN, streamCommand(told)
  PROVE  StoreInv'
<1>0. RosterInv /\ NetInv /\ FlagInv
  BY DEF StoreInv
<1>1. /\ main.pc = "command"
      /\ main' = IF told THEN [pc |-> "flag", at |-> main.at, on |-> main.on] ELSE Idle
      /\ UNCHANGED <<roster, alloc, slots, captures, net, consumer, frames>>
  BY DEF streamCommand
<1>2. PICK c \in Camera :
        /\ Sound(main.at) => c = roster[main.at.index].cam
        /\ commanded' = IF ~told THEN commanded
                        ELSE IF main.on THEN commanded \cup {c} ELSE commanded \ {c}
  BY DEF streamCommand
<1>3. main # Idle
  BY <1>1 DEF Idle
<1>4. main.on \in BOOLEAN /\ strayed \in BOOLEAN
  BY <1>0, <1>3 DEF FlagInv
<1>5. strayed' = (strayed \/ reallocated \/ rebuilding)
  BY <1>3, <1>4 DEF Watched
<1>6. ASSUME ~strayed' PROVE FlagsRight'
  <2>1. ~strayed /\ ~resorting
    BY <1>5, <1>6 DEF resorting
  <2>2. /\ Valid(main.at) /\ main.at.index \in DOMAIN roster
        /\ commanded \subseteq Known
        /\ \A i \in DOMAIN roster : roster[i].cam \in commanded <=> roster[i].streaming
    BY <1>0, <1>1, <1>3, <2>1 DEF FlagInv, FlagsRight
  <2>3. c = roster[main.at.index].cam /\ c \in Known
    BY <1>2, <2>1, <2>2 DEF Known, Sound
  <2>4. \A i \in DOMAIN roster : roster[i].cam = c => i = main.at.index
    BY <1>0, <2>2, <2>3 DEF RosterInv
  <2>5. CASE ~told
    <3>1. main' = Idle /\ main'.pc # "flag" /\ commanded' = commanded
      BY <1>1, <1>2, <2>5 DEF Idle
    <3>2. QED
      BY <1>1, <2>2, <3>1 DEF FlagsRight, Known
  <2>6. CASE told
    <3>1. main'.pc = "flag" /\ main'.at = main.at /\ main'.on = main.on
      BY <1>1, <2>6
    <3>2. commanded' \subseteq Known'
      BY <1>1, <1>2, <2>2, <2>3, <2>6 DEF Known
    <3>3. ASSUME NEW i \in DOMAIN roster
          PROVE  roster[i].cam \in commanded'
                   <=> IF main.at.index = i THEN main.on ELSE roster[i].streaming
      <4>1. CASE i = main.at.index
        BY <1>2, <1>4, <2>2, <2>3, <2>6, <4>1
      <4>2. CASE i # main.at.index
        BY <1>2, <2>2, <2>4, <2>6, <4>2
      <4>3. QED
        BY <4>1, <4>2
    <3>4. QED
      BY <1>1, <2>2, <3>1, <3>2, <3>3 DEF FlagsRight, Valid
  <2>7. QED
    BY <2>5, <2>6
<1>7. FlagInv'
  <2>1. main' = Idle \/ (main'.pc = "flag" /\ main'.on = main.on)
    BY <1>1
  <2>2. QED
    BY <1>4, <1>5, <1>6, <2>1 DEF FlagInv
<1>8. RosterInv' /\ NetInv' /\ Stay
  BY <1>0, <1>1 DEF RosterInv, NetInv, ThreadInv, Holding, Stay
<1>9. \A t \in Server : Holding(t)' => Holding(t) /\ net'[t] = net[t]
  BY <1>1 DEF Holding
<1>10. QED
  BY <1>1, <1>7, <1>8, <1>9, NoFrameMoves

(* The flag is set on the camera the command was for; if the vector is     *)
(* moving, on another one, or it is lost.                                  *)
LEMMA StreamFlagKeeps ==
  ASSUME StoreInv, Watched, streamFlag
  PROVE  StoreInv'
<1>0. RosterInv /\ NetInv /\ FlagInv
  BY DEF StoreInv
<1>1. /\ main.pc = "flag" /\ main # Idle /\ main' = Idle
      /\ UNCHANGED <<alloc, slots, captures, net, consumer, commanded, frames>>
  BY DEF streamFlag, Idle
<1>2. main.on \in BOOLEAN /\ strayed \in BOOLEAN
  BY <1>0, <1>1 DEF FlagInv
<1>3. strayed' = (strayed \/ reallocated \/ rebuilding)
  BY <1>1, <1>2 DEF Watched
<1>4. \A t \in Server : Holding(t)' => Holding(t) /\ net'[t] = net[t]
  BY <1>1 DEF Holding
<1>5. NetInv'
  BY <1>0, <1>1 DEF NetInv, ThreadInv, Holding
<1>6. ~strayed' => /\ Valid(main.at) /\ main.at.index \in DOMAIN roster /\ ~rebuilding
                   /\ commanded \subseteq Known
                   /\ \A i \in DOMAIN roster :
                        roster[i].cam \in commanded
                          <=> IF main.at.index = i THEN main.on ELSE roster[i].streaming
  BY <1>0, <1>1, <1>3 DEF FlagInv, FlagsRight
<1>7. main'.pc # "flag"
  BY <1>1 DEF Idle
<1>8. CASE roster' = roster /\ (~Valid(main.at) \/ rebuilding)
  <2>1. strayed'
    BY <1>6, <1>8
  <2>2. FlagInv'
    BY <1>1, <1>3, <1>2, <2>1 DEF FlagInv
  <2>3. RosterInv' /\ Stay
    BY <1>0, <1>8 DEF RosterInv, Stay
  <2>4. QED
    BY <1>1, <1>4, <1>5, <2>2, <2>3, NoFrameMoves
<1>9. ASSUME NEW i \in DOMAIN roster, ~resorting => i = main.at.index,
             roster' = [roster EXCEPT ![i].streaming = main.on]
      PROVE  StoreInv'
  <2> DEFINE r == [roster[i] EXCEPT !.streaming = main.on]
  <2>1. roster \in Seq(Entry) /\ roster[i] \in Entry
    BY <1>0, RosterFacts DEF RosterInv
  <2>2. /\ r \in Entry /\ r.cam = roster[i].cam /\ r.global_id = roster[i].global_id
        /\ r.streaming = main.on
    BY <1>2, <2>1 DEF Entry
  <2>3. /\ DOMAIN roster' = DOMAIN roster /\ roster'[i] = r
        /\ \A j \in DOMAIN roster : j # i => roster'[j] = roster[j]
    BY <1>9, <2>1
  <2>4. roster' \in Seq(Entry)
    <3>1. Len(roster) \in Nat /\ DOMAIN roster = 1..Len(roster)
      BY <1>0, RosterFacts
    <3>2. \A j \in DOMAIN roster : roster'[j] \in Entry
      BY <1>0, <2>2, <2>3, RosterFacts
    <3>3. roster' = [j \in 1..Len(roster) |-> roster'[j]]
      BY <1>9, <2>1, <3>1
    <3>4. roster' \in [1..Len(roster) -> Entry]
      BY <3>1, <3>2, <3>3
    <3>5. QED
      BY <3>1, <3>4, SeqDef
  <2> HIDE DEF r
  <2>5. \A j \in DOMAIN roster : roster'[j].cam = roster[j].cam
                                 /\ roster'[j].global_id = roster[j].global_id
    BY <2>2, <2>3
  <2>6. RosterInv' /\ Stay
    BY <1>0, <2>3, <2>4, <2>5 DEF RosterInv, Stay
  <2>7. ASSUME ~strayed' PROVE FlagsRight'
    <3>1. i = main.at.index
      BY <1>6, <1>9, <2>7 DEF resorting
    <3>2. \A j \in DOMAIN roster : roster'[j].cam \in commanded <=> roster'[j].streaming
      BY <1>6, <2>2, <2>3, <2>5, <2>7, <3>1
    <3>3. commanded \subseteq Known'
      BY <1>6, <2>3, <2>5, <2>7 DEF Known
    <3>4. QED
      BY <1>1, <1>7, <2>3, <3>2, <3>3 DEF FlagsRight
  <2>8. FlagInv'
    BY <1>1, <1>2, <1>3, <2>7 DEF FlagInv
  <2>9. QED
    BY <1>1, <1>4, <1>5, <2>6, <2>8, NoFrameMoves
<1>10. QED
  BY <1>8, <1>9 DEF streamFlag

-----------------------------------------------------------------------------
(* The store starts with nothing to be keyed.                              *)
LEMMA StoreInvInit == StoreInit => StoreInv
<1> SUFFICES ASSUME StoreInit PROVE StoreInv
  OBVIOUS
<1>1. /\ roster = <<>> /\ slots = <<>> /\ captures = <<>>
      /\ net = [s \in Server |-> Idle] /\ main = Idle
      /\ cursor = [g \in Gid |-> 0] /\ had = [g \in Gid |-> 0] /\ restarted = {}
      /\ commanded = {} /\ frames = 0 /\ crossing = {} /\ strayed = FALSE
  BY DEF StoreInit
<1>2. DOMAIN roster = {} /\ roster \in Seq(Entry) /\ DOMAIN slots = {} /\ DOMAIN captures = {}
  BY <1>1
<1>3. \A s \in Server : net[s] = Idle /\ net[s].pc = "idle"
  BY <1>1 DEF Idle
<1>4. \A s \in Server : ~Holding(s)
  BY <1>3 DEF Holding
<1>5. RosterInv /\ KeptInv
  BY <1>2 DEF RosterInv, KeptInv
<1>6. NetInv
  <2>1. \A s \in Server : ThreadInv(s)
    BY <1>3, <1>4 DEF ThreadInv
  <2>2. QED
    BY <1>1, <2>1 DEF NetInv
<1>7. HeldInv /\ ApartInv
  BY <1>4 DEF HeldInv, HeldBy, Tame, ApartInv, Apart
<1>8. NumbersInv
  BY <1>1, <1>2 DEF NumbersInv
<1>9. FrameInv
  BY <1>1, <1>2 DEF FrameInv, CursorInv, SlotNumber
<1>10. FlagInv
  <2>1. FlagsRight
    BY <1>1, <1>2 DEF FlagsRight
  <2>2. QED
    BY <1>1, <2>1 DEF FlagInv
<1>11. QED
  BY <1>5, <1>6, <1>7, <1>8, <1>9, <1>10 DEF StoreInv

(* Every step of the store keeps its invariant.                            *)
LEMMA StoreInvStep ==
  ASSUME StoreInv, [StoreNext]_storeVars
  PROVE  StoreInv'
<1>1. ASSUME StoreStep, Watched PROVE StoreInv'
  <2>1. ASSUME NEW s \in Server, discover(s) PROVE StoreInv'
    BY <1>1, <2>1, DiscoverKeeps
  <2>2. ASSUME NEW s \in Server, addCamera(s) PROVE StoreInv'
    BY <1>1, <2>2, AddKeeps
  <2>3. ASSUME NEW s \in Server, rebuildGlobalIdsSorted(s) PROVE StoreInv'
    BY <1>1, <2>3, RebuildKeeps
  <2>4. ASSUME NEW s \in Server, onFrameRead(s) PROVE StoreInv'
    BY <1>1, <2>4, ReadKeeps
  <2>5. ASSUME NEW s \in Server, publishFrame(s) PROVE StoreInv'
    BY <1>1, <2>5, PublishFrameKeeps
  <2>6. ASSUME NEW s \in Server, publishCapture(s) PROVE StoreInv'
    BY <1>1, <2>6, PublishCaptureKeeps
  <2>7. ASSUME NEW s \in Server, NEW c \in Camera, NEW kind \in {"live", "capture"},
               onFrameFind(s, c, kind)
        PROVE  StoreInv'
    BY <1>1, <2>7, FindKeeps
  <2>8. ASSUME NEW g \in Gid, consumeIfNew(g) PROVE StoreInv'
    BY <1>1, <2>8, ConsumeKeeps
  <2>9. ASSUME NEW g \in Gid, NEW on \in BOOLEAN, streamFind(g, on) PROVE StoreInv'
    BY <1>1, <2>9, StreamFindKeeps
  <2>10. ASSUME NEW told \in BOOLEAN, streamCommand(told) PROVE StoreInv'
    BY <1>1, <2>10, StreamCommandKeeps
  <2>11. ASSUME streamFlag PROVE StoreInv'
    BY <1>1, <2>11, StreamFlagKeeps
  <2>12. QED
    BY <1>1, <2>1, <2>2, <2>3, <2>4, <2>5, <2>6, <2>7, <2>8, <2>9, <2>10, <2>11 DEF StoreStep
<1>2. ASSUME UNCHANGED storeVars PROVE StoreInv'
  <2>0. /\ RosterInv /\ NetInv /\ HeldInv /\ ApartInv /\ KeptInv /\ NumbersInv /\ FrameInv
        /\ FlagInv
    BY DEF StoreInv
  <2>1. UNCHANGED <<roster, alloc, slots, captures, net, main, cursor, had, restarted,
                    commanded, frames, crossing, strayed>>
    BY <1>2 DEF storeVars, consumer
  <2>2. RosterInv' /\ KeptInv' /\ NumbersInv'
    BY <2>0, <2>1 DEF RosterInv, KeptInv, Owns, NumbersInv
  <2>3. NetInv' /\ ApartInv'
    BY <2>0, <2>1 DEF NetInv, ThreadInv, ApartInv, Apart, Holding
  <2>4. HeldInv'
    <3> SUFFICES ASSUME NEW t \in Server PROVE HeldBy(t)'
      BY DEF HeldInv
    <3>1. HeldBy(t) /\ Home(t)' = Home(t)
      BY <2>0, <2>1 DEF HeldInv, Home
    <3>2. QED
      BY <2>1, <3>1 DEF HeldBy, Tame, Leads, Later, Below, Holding, Valid
  <2>5. FrameInv'
    <3>1. \A g \in Gid : CursorInv(g) => CursorInv(g)'
      BY <2>1 DEF CursorInv, SlotNumber
    <3>2. \A g \in DOMAIN slots : SlotInv(g) => SlotInv(g)'
      BY <2>1 DEF SlotInv
    <3>3. QED
      BY <2>0, <2>1, <3>1, <3>2 DEF FrameInv
  <2>6. FlagInv'
    BY <2>0, <2>1 DEF FlagInv, FlagsRight, Valid, Known
  <2>7. QED
    BY <2>2, <2>3, <2>4, <2>5, <2>6 DEF StoreInv
<1>3. QED
  BY <1>1, <1>2 DEF StoreNext

(* The invariant of the store: cameras are found through the pointers and  *)
(* ids that were handed out for them, by all that was not under way while  *)
(* a discovery moved the roster vector (CameraStore.cpp:41-54).            *)
THEOREM StoreKeepsItsCameras == StoreSpec => []StoreInv
<1>1. StoreInit => StoreInv
  BY StoreInvInit
<1>2. StoreInv /\ [StoreNext]_storeVars => StoreInv'
  BY StoreInvStep
<1>3. QED
  BY <1>1, <1>2, PTL DEF StoreSpec

(* Whenever servers are discovered, for the first time or again, what is   *)
(* kept under a global id belongs to the camera that has it, but for       *)
(* frames that were in hand while the vector moved; and the streaming flag *)
(* is what its server was told last, unless it moved during a command.     *)
THEOREM FramesBelongToTheirCamera == StoreSpec => []FiledByOwner
<1>1. StoreInv => FiledByOwner
  <2> SUFFICES ASSUME StoreInv PROVE FiledByOwner
    OBVIOUS
  <2>0. RosterInv /\ KeptInv /\ FlagInv
    BY DEF StoreInv
  <2>1. ASSUME NEW i \in DOMAIN roster, NEW g, g = roster[i].global_id
        PROVE  /\ g \in DOMAIN slots /\ slots[g].frame \notin crossing
                    => slots[g].cam = roster[i].cam
               /\ g \in DOMAIN captures /\ captures[g].frame \notin crossing
                    => captures[g].cam = roster[i].cam
    <3>1. i \in Nat /\ g = i - 1
      BY <2>0, <2>1, RosterFacts DEF RosterInv
    <3>2. g + 1 = i
      BY <3>1
    <3>3. QED
      BY <2>0, <3>2 DEF KeptInv, Owns
  <2>2. \A i \in DOMAIN roster :
          LET g == roster[i].global_id
          IN  /\ g \in DOMAIN slots /\ slots[g].frame \notin crossing => BelongsTo(slots, i)
              /\ g \in DOMAIN captures /\ captures[g].frame \notin crossing
                   => BelongsTo(captures, i)
    BY <2>1 DEF BelongsTo
  <2>3. ~strayed => FlagIsWhatWasSent
    <3> SUFFICES ASSUME ~strayed, main = Idle
                 PROVE  {roster[i].cam : i \in {j \in DOMAIN roster : roster[j].streaming}}
                          = commanded
      BY DEF FlagIsWhatWasSent
    <3>1. main.pc # "flag"
      BY DEF Idle
    <3>2. /\ commanded \subseteq Known
          /\ \A i \in DOMAIN roster : roster[i].cam \in commanded <=> roster[i].streaming
      BY <2>0, <3>1 DEF FlagInv, FlagsRight
    <3>3. \A c \in commanded : \E i \in DOMAIN roster : roster[i].cam = c
      BY <3>2 DEF Known
    <3>4. QED
      BY <3>2, <3>3
  <2>4. QED
    BY <2>2, <2>3 DEF FiledByOwner
<1>2. QED
  BY <1>1, StoreKeepsItsCameras, PTL

(* consumeIfNew returns no frame twice, none older than what it returned   *)
(* before unless it was in hand while the vector moved, and hides none     *)
(* once the consumer has had one from the slot, whatever is discovered     *)
(* again: the cursor runs behind the numbers of the slot.                  *)
THEOREM NewestFramesAreTakenOnce == StoreSpec => []EachFrameOnce
<1>1. StoreInv => EachFrameOnce
  <2> SUFFICES ASSUME StoreInv PROVE EachFrameOnce
    OBVIOUS
  <2>0. NumbersInv /\ FrameInv
    BY DEF StoreInv
  <2>1. \A g \in DOMAIN slots : g \in Gid /\ SlotInv(g)
    BY <2>0 DEF FrameInv, NumbersInv
  <2>2. cursor \in [Gid -> Nat] /\ had \in [Gid -> Nat] /\ frames \in Nat
    BY <2>0 DEF NumbersInv
  <2>3. NoFrameAgain
    <3> SUFFICES ASSUME NEW g \in DOMAIN slots, isNew(g)
                 PROVE  /\ slots[g].frame # had[g]
                        /\ slots[g].frame \notin crossing => slots[g].frame > had[g]
      BY DEF NoFrameAgain
    <3>1. /\ slots[g].frame \in 1..frames
          /\ slots[g].frame \notin crossing => had[g] <= slots[g].frame
          /\ slots[g].frame = had[g] => slots[g].seq = cursor[g]
      BY <2>1 DEF SlotInv
    <3>2. slots[g].frame # had[g] /\ had[g] \in Nat
      BY <2>1, <2>2, <3>1 DEF isNew
    <3>3. slots[g].frame \in Nat
      BY <2>2, <3>1
    <3>4. QED
      BY <3>1, <3>2, <3>3
  <2>4. NoFrameHidden
    <3> SUFFICES ASSUME NEW g \in DOMAIN slots \ restarted, slots[g].frame # had[g]
                 PROVE  isNew(g)
      BY DEF NoFrameHidden
    <3>1. cursor[g] < slots[g].seq /\ g \in Gid
      BY <2>0, <2>1 DEF FrameInv, CursorInv
    <3>2. cursor[g] \in Nat /\ slots[g].seq \in Nat
      BY <2>1, <2>2, <3>1 DEF SlotInv
    <3>3. slots[g].seq # cursor[g]
      BY <3>1, <3>2
    <3>4. QED
      BY <3>3 DEF isNew
  <2>5. QED
    BY <2>3, <2>4 DEF EachFrameOnce
<1>2. QED
  BY <1>1, StoreKeepsItsCameras, PTL
=============================================================================
