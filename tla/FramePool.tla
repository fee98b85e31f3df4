------------------------------ MODULE FramePool ------------------------------
(***************************************************************************)
(* The life of a frame buffer: FrameBufferPool (data/FrameBufferPool.cpp)  *)
(* and every holder of a std::shared_ptr<FrameBuffer>, each on its thread: *)
(* the reassembler and the delivery path of a network thread, the slots    *)
(* and last captures of CameraStore, and the threads that read a frame.    *)
(*                                                                         *)
(* A shared_ptr is one entry of `ref'; a buffer that no entry and no cell  *)
(* of the free list names has been destroyed, and the heap may hand it out *)
(* again.  FrameBufferPool::release reads use_count() before it takes the  *)
(* lock, so it is three steps here: check, then push or drop.              *)
(***************************************************************************)
EXTENDS Integers, Sequences, FiniteSets

CONSTANTS
  Net,        \* network threads, one per server connection
  Uuid,       \* frame uuids a connection may have in flight
  Cam,        \* cameras (slots and last captures of CameraStore)
  Gl,         \* threads that give a consumed frame back (CameraView)
  Api,        \* threads that let a consumed frame drop (Client::latest)
  Keeper,     \* holders of a capture: saver job, capture tile, API result
  Buf, NoBuf, \* addresses of frame buffers; the null pointer
  MaxFree     \* cap of the free list, 16 in the code

ASSUME PoolAssumption ==
  /\ MaxFree \in Nat
  /\ NoBuf \notin Buf
  /\ Net \cap Gl = {} /\ Net \cap Api = {} /\ Gl \cap Api = {}
  /\ Keeper \cap (Gl \cup Api) = {}

VARIABLES
  free,       \* FrameBufferPool::free_
  ref,        \* ref[p]: the buffer the shared_ptr at place p points to
  whole,      \* buffers whose content is one complete frame
  rel         \* rel[t]: where thread t is inside FrameBufferPool::release

vars == <<free, ref, whole, rel>>

Thread == Net \cup Gl
Viewer == Gl \cup Api

Fly(n, u) == <<"fly", n, u>>   \* InFlight::buf of uuid u
Local(n)  == <<"local", n>>    \* the frame a network thread delivers or evicts
Slot(c)   == <<"slot", c>>     \* Slot::latest
Still(c)  == <<"still", c>>    \* captures_[c]->frame
View(v)   == <<"view", v>>     \* the copy consumeIfNew returned
Keep(k)   == <<"keep", k>>     \* a copy of a capture's frame

FlyPlace    == {Fly(n, u) : n \in Net, u \in Uuid}
LocalPlace  == {Local(n) : n \in Net}
StorePlace  == {Slot(c) : c \in Cam} \cup {Still(c) : c \in Cam}
SharedPlace == StorePlace \cup {View(v) : v \in Viewer}
                          \cup {Keep(k) : k \in Keeper}
Place       == FlyPlace \cup LocalPlace \cup SharedPlace

(* The parameter `buf' of a thread's call of release.                      *)
Param(t) == IF t \in Net THEN Local(t) ELSE View(t)

InFree(b)     == \E i \in 1..Len(free) : free[i] = b
Referenced(b) == \E p \in Place : ref[p] = b

(* use_count() == 1 seen through the shared_ptr at p.                      *)
Sole(p) == /\ \A q \in Place \ {p} : ref[q] # ref[p]
           /\ ~InFree(ref[p])

(* A network thread owns the buffer at p and may write it or publish it:   *)
(* in flight, or delivered and not inside release.                         *)
Writing(p) == p \in FlyPlace \/ \E n \in Net : p = Local(n) /\ rel[n] = "idle"

-----------------------------------------------------------------------------
(* FrameBufferPool::acquire: the back of the free list, else a new buffer. *)
(* The mutex makes it one step.                                            *)
acquireWithoutPop(b) ==
  \/ /\ free # <<>>
     /\ b = free[Len(free)]
     /\ UNCHANGED free
  \/ /\ free = <<>>
     /\ ~Referenced(b)
     /\ UNCHANGED free

acquire(b) ==
  \/ /\ free # <<>>
     /\ b = free[Len(free)]
     /\ free' = SubSeq(free, 1, Len(free) - 1)
  \/ /\ free = <<>>
     /\ ~Referenced(b)
     /\ UNCHANGED free

(* release, first half: `if (buf.use_count() > 1) return', no lock held.   *)
releaseWithoutCheck(t) ==
  /\ rel[t] = "check"
  /\ rel' = [rel EXCEPT ![t] = "push"]
  /\ UNCHANGED <<free, ref, whole>>

releaseCheck(t) ==
  /\ rel[t] = "check"
  /\ rel' = [rel EXCEPT ![t] = IF Sole(Param(t)) THEN "push" ELSE "drop"]
  /\ UNCHANGED <<free, ref, whole>>

(* ... the early return lets the parameter go.                             *)
releaseDrop(t) ==
  /\ rel[t] = "drop"
  /\ ref' = [ref EXCEPT ![Param(t)] = NoBuf]
  /\ rel' = [rel EXCEPT ![t] = "idle"]
  /\ UNCHANGED <<free, whole>>

(* ... the second half runs under the lock; past the cap the buffer dies.  *)
releasePush(t) ==
  /\ rel[t] = "push"
  /\ free' = IF Len(free) < MaxFree THEN Append(free, ref[Param(t)]) ELSE free
  /\ ref' = [ref EXCEPT ![Param(t)] = NoBuf]
  /\ rel' = [rel EXCEPT ![t] = "idle"]
  /\ UNCHANGED whole

-----------------------------------------------------------------------------
(* A network thread between two messages.                                  *)
Ready(n) == rel[n] = "idle" /\ ref[Local(n)] = NoBuf

(* ChunkReassembler::handleStart of a frame with chunks to come: the       *)
(* metadata is written into the buffer at once, the pixels at the end.     *)
(* emplace() keeps an older entry of the same uuid; the buffer acquired    *)
(* for the new one dies unused.                                            *)
handleStart(n, u) ==
  /\ Ready(n)
  /\ \E b \in Buf :
       /\ acquire(b)
       /\ whole' = whole \ {b}
       /\ ref' = IF ref[Fly(n, u)] = NoBuf
                 THEN [ref EXCEPT ![Fly(n, u)] = b] ELSE ref
  /\ UNCHANGED rel

(* ... of a header-only frame, delivered from the same call.               *)
handleStartHeaderOnly(n) ==
  /\ Ready(n)
  /\ \E b \in Buf :
       /\ acquire(b)
       /\ whole' = whole \cup {b}
       /\ ref' = [ref EXCEPT ![Local(n)] = b]
  /\ UNCHANGED <<rel>>

(* ChunkReassembler::handleChunk with the last chunk: pixels written, the  *)
(* frame leaves the in-flight map and goes to the callback.                *)
handleLastChunk(n, u) ==
  /\ Ready(n)
  /\ ref[Fly(n, u)] # NoBuf
  /\ whole' = whole \cup {ref[Fly(n, u)]}
  /\ ref' = [ref EXCEPT ![Fly(n, u)] = NoBuf, ![Local(n)] = ref[Fly(n, u)]]
  /\ UNCHANGED <<free, rel>>

(* ... whose chunks overflow the declared size: the entry is erased and    *)
(* the buffer dies half written, outside the pool.                         *)
handleOverflow(n, u) ==
  /\ Ready(n)
  /\ ref[Fly(n, u)] # NoBuf
  /\ ref' = [ref EXCEPT ![Fly(n, u)] = NoBuf]
  /\ whole' = whole \ {ref[Fly(n, u)]}
  /\ UNCHANGED <<free, rel>>

(* ChunkReassembler::sweepStale and reset give each abandoned in-flight    *)
(* buffer back, one release at a time.                                     *)
abandon(n, u) ==
  /\ Ready(n)
  /\ ref[Fly(n, u)] # NoBuf
  /\ ref' = [ref EXCEPT ![Fly(n, u)] = NoBuf, ![Local(n)] = ref[Fly(n, u)]]
  /\ rel' = [rel EXCEPT ![n] = "check"]
  /\ UNCHANGED <<free, whole>>

-----------------------------------------------------------------------------
(* A network thread inside the frame callback.                             *)
Delivering(n) == rel[n] = "idle" /\ ref[Local(n)] # NoBuf

(* MultiServerManager::onFrame for a camera the roster does not know.      *)
dropUnknown(n) ==
  /\ Delivering(n)
  /\ rel' = [rel EXCEPT ![n] = "check"]
  /\ UNCHANGED <<free, ref, whole>>

(* CameraStore::publishFrame: swap under slots_mu_, then release the frame *)
(* that was evicted, if there was one.                                     *)
publishFrame(n, c) ==
  /\ Delivering(n)
  /\ ref' = [ref EXCEPT ![Slot(c)] = ref[Local(n)], ![Local(n)] = ref[Slot(c)]]
  /\ rel' = [rel EXCEPT ![n] = IF ref[Slot(c)] = NoBuf THEN "idle" ELSE "check"]
  /\ UNCHANGED <<free, whole>>

(* onCaptureFrame and CameraStore::publishCapture: the still replaces the  *)
(* camera's previous one, whose reference is dropped; nothing goes back to *)
(* the pool.                                                               *)
publishCapture(n, c) ==
  /\ Delivering(n)
  /\ ref' = [ref EXCEPT ![Still(c)] = ref[Local(n)], ![Local(n)] = NoBuf]
  /\ UNCHANGED <<free, whole, rel>>

(* CameraStore::rebuildGlobalIdsSorted and clear: every slot and every     *)
(* last capture is forgotten, none of them through the pool.               *)
rebuild ==
  /\ \E p \in StorePlace : ref[p] # NoBuf
  /\ ref' = [p \in Place |-> IF p \in StorePlace THEN NoBuf ELSE ref[p]]
  /\ UNCHANGED <<free, whole, rel>>

-----------------------------------------------------------------------------
(* CameraStore::consumeIfNew: a second reference to the slot's frame.      *)
consumeIfNew(v, c) ==
  /\ ref[View(v)] = NoBuf
  /\ ref[Slot(c)] # NoBuf
  /\ ref' = [ref EXCEPT ![View(v)] = ref[Slot(c)]]
  /\ UNCHANGED <<free, whole, rel>>

(* CameraView::uploadIfNew is done with the bytes: release(std::move(frame)) *)
uploadDone(g) ==
  /\ rel[g] = "idle"
  /\ ref[View(g)] # NoBuf
  /\ rel' = [rel EXCEPT ![g] = "check"]
  /\ UNCHANGED <<free, ref, whole>>

(* Client::latest copied the markers out; `buf' goes out of scope.         *)
latestDone(a) ==
  /\ ref[View(a)] # NoBuf
  /\ ref' = [ref EXCEPT ![View(a)] = NoBuf]
  /\ UNCHANGED <<free, whole, rel>>

(* CameraStore::lastCapture, or the copy a capture callback is given.      *)
keepCapture(k, c) ==
  /\ ref[Keep(k)] = NoBuf
  /\ ref[Still(c)] # NoBuf
  /\ ref' = [ref EXCEPT ![Keep(k)] = ref[Still(c)]]
  /\ UNCHANGED <<free, whole, rel>>

dropCapture(k) ==
  /\ ref[Keep(k)] # NoBuf
  /\ ref' = [ref EXCEPT ![Keep(k)] = NoBuf]
  /\ UNCHANGED <<free, whole, rel>>

-----------------------------------------------------------------------------
Init ==
  /\ free = <<>>
  /\ ref = [p \in Place |-> NoBuf]
  /\ whole = {}
  /\ rel = [t \in Thread |-> "idle"]

NetStep(n) ==
  \/ handleStartHeaderOnly(n)
  \/ dropUnknown(n)
  \/ \E u \in Uuid : \/ handleStart(n, u)
                     \/ handleLastChunk(n, u)
                     \/ handleOverflow(n, u)
                     \/ abandon(n, u)
  \/ \E c \in Cam : publishFrame(n, c) \/ publishCapture(n, c)

ReleaseStep(t) == releaseCheck(t) \/ releaseDrop(t) \/ releasePush(t)

Next ==
  \/ \E n \in Net : NetStep(n)
  \/ \E t \in Thread : ReleaseStep(t)
  \/ rebuild
  \/ \E v \in Viewer, c \in Cam : consumeIfNew(v, c)
  \/ \E g \in Gl : uploadDone(g)
  \/ \E a \in Api : latestDone(a)
  \/ \E k \in Keeper : dropCapture(k) \/ \E c \in Cam : keepCapture(k, c)

Spec == Init /\ [][Next]_vars

-----------------------------------------------------------------------------
(* The free list never grows past its cap, whatever the interleaving of    *)
(* the unlocked check with the locked push of FrameBufferPool::release.    *)
TypeOK ==
  /\ free \in Seq(Buf)
  /\ Len(free) <= MaxFree
  /\ ref \in [Place -> Buf \cup {NoBuf}]
  /\ whole \in SUBSET Buf
  /\ rel \in [Thread -> {"idle", "check", "push", "drop"}]

(* A buffer in the free list is there once, and nobody points to it: what  *)
(* acquire hands out is never in use (FrameBufferPool.cpp:20-26).          *)
FreeIsUnreferenced ==
  /\ \A i, j \in 1..Len(free) : free[i] = free[j] => i = j
  /\ \A p \in Place : ref[p] # NoBuf => ~InFree(ref[p])

(* A buffer a network thread is writing, or is about to publish, has no    *)
(* other owner: no slot, no capture, no reader and no other network thread *)
(* (the reacquire-during-upload collision of FrameBufferPool.cpp:22-26).   *)
WriterIsExclusive ==
  \A p \in Place : Writing(p) /\ ref[p] # NoBuf => Sole(p)

(* Whatever a callback, a slot, a capture or a reader holds is one         *)
(* complete frame: no thread ever sees a buffer that is being refilled (a  *)
(* torn frame).                                                            *)
ReadersSeeWholeFrames ==
  /\ \A p \in SharedPlace : ref[p] # NoBuf => ref[p] \in whole
  /\ \A n \in Net : Delivering(n) => ref[Local(n)] \in whole

(* "use_count()==1 is a stable answer" (FrameBufferPool.cpp:29-31): between *)
(* the unlocked check and the locked push nobody gains a reference.         *)
SoleOwnerIsStable ==
  \A t \in Thread : rel[t] = "push" => ref[Param(t)] # NoBuf /\ Sole(Param(t))

(* The mapping to FrameLease: what a buffer is there, and who reads it.    *)
ObservedBy(o) == IF o \in Viewer THEN View(o) ELSE Keep(o)

LeasePhase(b) ==
  IF \E p \in Place : Writing(p) /\ ref[p] = b THEN "writing"
  ELSE IF \E p \in SharedPlace : ref[p] = b THEN "shown" ELSE "idle"

Lease == INSTANCE FrameLease WITH
           Observer <- Viewer \cup Keeper,
           phase    <- [b \in Buf |-> LeasePhase(b)],
           readers  <- [b \in Buf |->
                          {o \in Viewer \cup Keeper : ref[ObservedBy(o)] = b}]

(* The buffers are used as FrameLease says: written by one thread or shown *)
(* to readers, never both, and back in the pool only when nobody reads.    *)
RefinesLease == Lease!Spec
=============================================================================
