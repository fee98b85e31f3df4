-------------------------- MODULE ChunkReassembler --------------------------
(***************************************************************************)
(* net/ChunkReassembler.cpp: the in-flight map of one connection, fed by   *)
(* the connection's network thread, with its periodic sweep and the reset  *)
(* on Close.  Pixels are sequences of cells, so that a missing, repeated   *)
(* or foreign chunk and the bytes a recycled buffer still carries can be   *)
(* told apart, and its detections, which a recycled buffer carries too;    *)
(* everything else of a frame is its identity f.                           *)
(*                                                                         *)
(* The sender is external: on each connection it starts a frame at most    *)
(* once and a uuid names one frame, but chunks may be repeated, reordered, *)
(* interleaved with other frames' and left out, and a new connection may   *)
(* use the uuids of the old one again.                                     *)
(***************************************************************************)
EXTENDS DetectionBlock

CONSTANTS
  Frame,        \* the frames the server may send
  Uuid(_),      \* ChunkHeader.frame_uuid of a frame
  Pieces(_),    \* its chunk payloads, a sequence of sequences of cells
  TotalSize(_), \* ChunkHeader.total_size, in cells
  Detection(_), \* ChunkHeader.detection_kind: "none", "checkerboard", "aruco"
  Block(_),     \* the detection block of its start message, in words
  NumSets(_),   \* ChunkHeader.num_corner_sets
  Timeout,      \* sweepStale's 5 s, in ticks
  SweepPeriod,  \* onBinary's 1 s between sweeps, in ticks
  MaxFree,      \* cap of the pool's free list
  MaxConn       \* bound: connections of one behaviour

Cell == Frame \X Nat   \* a cell: whose it is and which

ASSUME ReassemblerAssumption ==
  /\ Timeout \in Nat /\ SweepPeriod \in Nat /\ MaxFree \in Nat /\ MaxConn \in Nat
  /\ \A f \in Frame : /\ Pieces(f) \in Seq(Seq(Cell)) /\ TotalSize(f) \in Nat
                      /\ Block(f) \in Seq(Nat) /\ NumSets(f) \in Nat

VARIABLES
  in_flight,    \* uuid -> entry
  sinceSweep,   \* ticks since last_sweep_, capped
  pool,         \* the buffers in FrameBufferPool::free_
  last,         \* what the callback was given last, None when recycled
  sent,         \* what the server sent of each frame on this connection:
                \* 0 stands for the start message, i for chunk i
  quiet,        \* ticks since the server sent something new of a frame that
                \* is in flight, capped
  conn,         \* number of the connection
  count         \* deliveries of each frame on this connection

sender == <<sent, quiet, conn>>
vars   == <<in_flight, sinceSweep, pool, last, sender, count>>

None   == <<>>
Zero   == <<"zero">>   \* the byte a vector is grown with
Total(f) == Len(Pieces(f))

(* std::vector::resize.                                                    *)
resized(data, n) == [i \in 1..n |-> IF i <= Len(data) THEN data[i] ELSE Zero]

(* The chunks in index order.                                              *)
concatenated(chunks) ==
  LET cat[i \in 0..Len(chunks)] ==
        IF i = 0 THEN <<>> ELSE cat[i - 1] \o chunks[i]
  IN  cat[Len(chunks)]

(* What a frame looks like when nothing went wrong.                        *)
WellFormed(f) == Len(concatenated(Pieces(f))) = TotalSize(f)
                   /\ \A i \in 1..Total(f) : Pieces(f)[i] # <<>>

InFlight(f) == Uuid(f) \in DOMAIN in_flight /\ in_flight[Uuid(f)].f = f

-----------------------------------------------------------------------------
(* FrameBufferPool::acquire(0): a buffer holds what its last user left in  *)
(* it; a new one is empty.                                                 *)
Empty       == [data |-> <<>>, corner_sets |-> <<>>, aruco_markers |-> <<>>]
acquired    == IF pool = <<>> THEN Empty ELSE pool[Len(pool)]
poolAfter   == IF pool = <<>> THEN <<>> ELSE SubSeq(pool, 1, Len(pool) - 1)

(* FrameBufferPool::release of a buffer that has no other owner.           *)
released(p, buf) == IF Len(p) < MaxFree THEN Append(p, buf) ELSE p

(* sweepStale on the map m: the entries that have been idle for more than  *)
(* the timeout are dropped, their buffers given back.                      *)
staleOnceChunked(m) == {u \in DOMAIN m : m[u].age > Timeout /\ m[u].received > 0}
stale(m) == {u \in DOMAIN m : m[u].age > Timeout}

(* The pools that giving back the buffers of the entries S can lead to: an *)
(* unordered_map is walked in any order.                                   *)
givenBack(p, m, S) ==
  {FoldLeft(LAMBDA q, u : released(q, m[u].buf), p, order) : order \in SetToSeqs(S)}

(* The end of onBinary: sweep if the last one is over a period ago.  m and *)
(* p are the map and the pool after the message was handled.               *)
sweepEnd(m, p) ==
  IF sinceSweep > SweepPeriod
  THEN /\ sinceSweep' = 0
       /\ in_flight' = [u \in DOMAIN m \ stale(m) |-> m[u]]
       /\ pool' \in givenBack(p, m, stale(m))
  ELSE in_flight' = m /\ pool' = p /\ UNCHANGED sinceSweep

deliver(f, buf, headerOnly) ==
  /\ last' = [f |-> f, buf |-> buf, header_only |-> headerOnly]
  /\ count' = [count EXCEPT ![f] = @ + 1]

(* External: the server sends message i of frame f on this connection.     *)
sends(f, i) ==
  /\ sent' = [sent EXCEPT ![f] = @ \cup {i}]
  /\ quiet' = [quiet EXCEPT ![f] = IF i \in sent[f] THEN @ ELSE 0]
  /\ UNCHANGED conn

-----------------------------------------------------------------------------
(* handleStart: fill sets both lists of detections, the one that was not   *)
(* looked for to nothing, and leaves the pixels alone.                     *)
filledWhatWasFound(buf, f) ==
  CASE Detection(f) = "checkerboard"
         -> [buf EXCEPT !.corner_sets = parseCornerBlock(Block(f), NumSets(f))]
    [] Detection(f) = "aruco"
         -> [buf EXCEPT !.aruco_markers = parseMarkerBlock(Block(f), NumSets(f))]
    [] OTHER -> buf
filled(buf, f) ==
  [data          |-> buf.data,
   corner_sets   |-> IF Detection(f) = "checkerboard"
                     THEN parseCornerBlock(Block(f), NumSets(f)) ELSE <<>>,
   aruco_markers |-> IF Detection(f) = "aruco"
                     THEN parseMarkerBlock(Block(f), NumSets(f)) ELSE <<>>]

(* The other fields of the header are the frame's identity.  A frame       *)
(* without chunks and without bytes is delivered at once, header only; any *)
(* other is staged, unless its uuid is already there (emplace).            *)
startEmplaced(m, f, buf) ==
  IF Uuid(f) \in DOMAIN m THEN m
  ELSE [u \in DOMAIN m \cup {Uuid(f)} |->
          IF u = Uuid(f)
          THEN [f |-> f, buf |-> buf, received |-> 0, age |-> 0,
                chunks |-> [i \in 1..Total(f) |-> <<>>]]
          ELSE m[u]]

handleStart(f) ==
  /\ \A g \in Frame : Uuid(g) = Uuid(f) => 0 \notin sent[g]
  /\ sends(f, 0)
  /\ IF Total(f) = 0 /\ TotalSize(f) = 0
     THEN /\ deliver(f, filled(acquired, f), TRUE)
          /\ sweepEnd(in_flight, poolAfter)
     ELSE /\ sweepEnd(startEmplaced(in_flight, f, filled(acquired, f)), poolAfter)
          /\ UNCHANGED <<last, count>>

(* handleChunk: unknown uuid, index out of range and a slot that is not    *)
(* empty are ignored; the chunk that makes `received' reach the total      *)
(* assembles the frame and takes it out of the map.  Chunks that do not    *)
(* fit the declared size drop the frame and its buffer; a short frame is   *)
(* delivered as it is.                                                     *)
isDuplicate(e, i) == e.chunks[i] # <<>>

accepts(m, u, i) == /\ u \in DOMAIN m
                    /\ i \in 1..Len(m[u].chunks)
                    /\ ~isDuplicate(m[u], i)

storedWithoutRefresh(e, i, piece) ==
  [e EXCEPT !.chunks[i] = piece, !.received = @ + 1]
chunkStored(e, i, piece) ==
  [e EXCEPT !.chunks[i] = piece, !.received = @ + 1, !.age = 0]

assembled(e) ==
  LET flat == concatenated(e.chunks)
  IN  [e.buf EXCEPT !.data = [i \in 1..TotalSize(e.f) |->
         IF i <= Len(flat) THEN flat[i] ELSE resized(e.buf.data, TotalSize(e.f))[i]]]

overflows(e) == Len(concatenated(e.chunks)) > TotalSize(e.f)

without(m, u) == [v \in DOMAIN m \ {u} |-> m[v]]

handleChunk(f, i) ==
  /\ 0 \in sent[f]
  /\ sends(f, i)
  /\ LET u == Uuid(f)
         e == chunkStored(in_flight[u], i, Pieces(f)[i])
     IN  IF ~accepts(in_flight, u, i)
         THEN sweepEnd(in_flight, pool) /\ UNCHANGED <<last, count>>
         ELSE IF e.received # Len(e.chunks)
              THEN /\ sweepEnd([in_flight EXCEPT ![u] = e], pool)
                   /\ UNCHANGED <<last, count>>
              ELSE /\ sweepEnd(without(in_flight, u), pool)
                   /\ IF overflows(e) THEN UNCHANGED <<last, count>>
                      ELSE deliver(e.f, assembled(e), FALSE)

(* onBinary of a message that is refused: unknown magic, bad version, bad  *)
(* length, an index past the end.  It still ends with the sweep.           *)
onBinaryRefused ==
  /\ sweepEnd(in_flight, pool)
  /\ UNCHANGED <<last, sender, count>>

(* reset, called from WebSocketClient on Close; the next connection starts *)
(* from an empty map.                                                      *)
resetForgetsNothing(m) == m
afterReset(m) == [u \in {} |-> m[u]]

close ==
  /\ conn < MaxConn
  /\ conn' = conn + 1
  /\ in_flight' = afterReset(in_flight)
  /\ pool' \in givenBack(pool, in_flight, DOMAIN in_flight)
  /\ sent' = [f \in Frame |-> {}]
  /\ count' = [f \in Frame |-> 0]
  /\ quiet' = [f \in Frame |-> 0]
  /\ UNCHANGED <<sinceSweep, last>>

(* A consumer gives the frame back to the pool (FramePool models when).    *)
recycle ==
  /\ last # None
  /\ pool' = released(pool, last.buf)
  /\ last' = None
  /\ UNCHANGED <<in_flight, sinceSweep, sender, count>>

Capped(n, cap) == IF n < cap THEN n + 1 ELSE n

tick ==
  /\ in_flight' = [u \in DOMAIN in_flight |->
                     [in_flight[u] EXCEPT !.age = Capped(@, Timeout + 1)]]
  /\ sinceSweep' = Capped(sinceSweep, SweepPeriod + 1)
  /\ quiet' = [f \in Frame |-> IF InFlight(f) THEN Capped(quiet[f], Timeout + 1) ELSE 0]
  /\ UNCHANGED <<pool, last, sent, conn, count>>

-----------------------------------------------------------------------------
Init ==
  /\ in_flight = [u \in {} |-> 0]
  /\ sinceSweep = 0
  /\ pool = <<>>
  /\ last = None
  /\ sent = [f \in Frame |-> {}]
  /\ quiet = [f \in Frame |-> 0]
  /\ conn = 1
  /\ count = [f \in Frame |-> 0]

Next ==
  \/ \E f \in Frame : handleStart(f) \/ \E i \in 1..Total(f) : handleChunk(f, i)
  \/ onBinaryRefused
  \/ close
  \/ recycle
  \/ tick

Spec == Init /\ [][Next]_vars

(* Time passes, and the connection keeps receiving binary messages: frames *)
(* of the other cameras, here any message that changes nothing else.       *)
FairSpec == Spec /\ WF_vars(tick) /\ WF_vars(onBinaryRefused)

-----------------------------------------------------------------------------
(* The map holds entries of started frames, the pool stays within its cap, *)
(* and a frame is handed to the callback at most once per connection.      *)
TypeOK ==
  /\ DOMAIN in_flight \subseteq {Uuid(f) : f \in Frame}
  /\ \A u \in DOMAIN in_flight :
       /\ in_flight[u].f \in Frame /\ Uuid(in_flight[u].f) = u
       /\ in_flight[u].age \in 0..(Timeout + 1)
       /\ in_flight[u].received \in 0..Total(in_flight[u].f)
  /\ sinceSweep \in 0..(SweepPeriod + 1)
  /\ Len(pool) <= MaxFree
  /\ last # None => last.f \in Frame /\ last.header_only \in BOOLEAN
  /\ \A f \in Frame : sent[f] \subseteq 0..Total(f)
  /\ quiet \in [Frame -> 0..(Timeout + 1)]
  /\ conn \in 1..MaxConn
  /\ count \in [Frame -> 0..1]

(* A frame the callback gets is its own chunks in index order and nothing  *)
(* else, whatever other frames, repeats, malformed frames, uuids used      *)
(* again after a reconnect and recycled buffers went before it.            *)
DeliveredIntact ==
  last # None /\ ~last.header_only /\ WellFormed(last.f)
    => last.buf.data = concatenated(Pieces(last.f))

(* The detections of a delivered frame are the complete records at the     *)
(* front of its own block, as many as announced, and there are none of the *)
(* kind that was not looked for: nothing is read past the block, and       *)
(* nothing is left of the frame that used the buffer before.               *)
DetectionsAreItsOwn ==
  last # None =>
    LET f == last.f
        b == last.buf
    IN  /\ IF Detection(f) = "checkerboard"
           THEN IsFrontOf(b.corner_sets, Block(f), CornerHeader, NumSets(f))
           ELSE b.corner_sets = <<>>
        /\ IF Detection(f) = "aruco"
           THEN IsFrontOf(b.aruco_markers, Block(f), MarkerHeader, NumSets(f))
           ELSE b.aruco_markers = <<>>

(* No frame is stuck: once the server has sent all of its chunks, the      *)
(* frame is no longer waiting in the map.                                  *)
CompleteIsNotStuck ==
  \A f \in Frame : Total(f) > 0 /\ sent[f] = 0..Total(f) => ~InFlight(f)

(* A frame is delivered when its last chunk is there, and then intact.     *)
DeliveredWhenComplete == DeliveredIntact /\ CompleteIsNotStuck

(* "A frame is stale only once its chunks stop coming" (hpp:43-47): a      *)
(* frame leaves the map only into the callback, after a silence longer     *)
(* than the timeout, or with its connection.                               *)
ArrivingFrameIsKept ==
  [][\A f \in Frame : WellFormed(f) /\ InFlight(f) /\ ~InFlight(f)'
       => \/ count'[f] = count[f] + 1
          \/ quiet[f] > Timeout
          \/ conn' # conn]_vars

(* Periodic sweep: on a connection that keeps receiving, no frame stays in *)
(* the map for ever, its chunks arriving or not (cpp:118-123).             *)
AbandonedIsSwept == \A f \in Frame : InFlight(f) ~> ~InFlight(f)

(* "then header_only is set and data is empty" (Client.hpp:66).            *)
HeaderOnlyHasNoData == last # None /\ last.header_only => last.buf.data = <<>>
=============================================================================
