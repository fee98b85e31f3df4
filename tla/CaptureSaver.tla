---------------------------- MODULE CaptureSaver ----------------------------
(***************************************************************************)
(* data/CaptureSaver.cpp: capture frames queued by the network threads,    *)
(* one per server, written by a worker thread; flush and the destructor    *)
(* wait for it.  A critical section of mu_ is one step; the stores and     *)
(* notifications outside it are steps of their own, and a thread asleep in *)
(* a condition variable stays there until it is notified.                  *)
(*                                                                         *)
(* External: the servers, which number captures per kind and frames from 1 *)
(* again on every start_cameras, and the file system.                      *)
(***************************************************************************)
EXTENDS Integers, Sequences, FiniteSets

CONSTANTS
  Server,      \* the servers, by address; each has its subdirectory
  Cam,         \* server-local camera ids
  Kind,        \* capture kinds used
  Shots,       \* the sets of cameras a capture may deliver
  SendImage,   \* the values of send_image used: FALSE gives header-only frames
  Unrecorded,  \* whether a capture may go by without a file name: saving was
               \* off, or the directory could not be made
  Restarted,   \* bound: the servers that see a start_cameras more than once
  MaxRun,      \* bound: start_cameras of one of these
  MaxShot,     \* bound: captures per server and run
  MaxFrameId,  \* bound: frame ids per run
  MaxFlush     \* bound: calls of flush()

ASSUME SaverAssumption ==
  /\ IsFiniteSet(Server)
  /\ Shots \subseteq (SUBSET Cam) \ {{}}
  /\ SendImage \subseteq BOOLEAN /\ Unrecorded \in BOOLEAN
  /\ MaxRun \in Nat /\ MaxShot \in Nat /\ MaxFrameId \in Nat /\ MaxFlush \in Nat

VARIABLES
  enabled, queue, busy, stop, pending,
  state,      \* the CaptureSaveState of every frame save() was called with
  done,       \* number of frames counted in status_.saved or status_.errors
  dirs,       \* per server: run and the set of keys seen in it
  files,      \* what each file written holds
  worker,     \* [pc, job]
  sender,     \* per network thread: [pc, frame]
  flusher,    \* [pc, owed, calls]: the thread in flush(), the frames it waits
              \* for and its calls so far
  dtor,       \* where the destructor is
  shots,      \* external: per server, the run, the captures in it, in all and
              \* per kind, and the frame id of the last
  inbox       \* external: capture frames handed to a network thread

camera == <<shots, inbox>>
vars   == <<enabled, queue, busy, stop, pending, state, done, dirs, files, worker,
            sender, flusher, dtor, camera>>

NoFrame == <<>>
Frame   == [server : Server, kind : Kind, capture_id : 1..MaxShot, cam : Cam,
            frame_id : 1..MaxFrameId, run : 1..MaxRun, image : SendImage]
Settled(f) == state[f] \in {"Saved", "Failed"}
Accepted   == {f \in DOMAIN state : state[f] # "NotSaved"}

(* External: a capture of kind k delivers one frame per camera of S, taken *)
(* at a frame id later than the last capture's.                            *)
shoot(n, k, S, id, image) ==
  /\ dtor = "alive" /\ inbox[n] = {}
  /\ shots[n].total < MaxShot /\ id > shots[n].last
  /\ LET t == [shots[n] EXCEPT !.total = @ + 1, !.ids[k] = @ + 1, !.last = id]
     IN  /\ shots' = [shots EXCEPT ![n] = t]
         /\ inbox' = [inbox EXCEPT ![n] =
                        {[server |-> n, kind |-> k, capture_id |-> t.ids[k], cam |-> c,
                          frame_id |-> id, run |-> t.run, image |-> image] : c \in S}]
  /\ UNCHANGED <<enabled, queue, busy, stop, pending, state, done, dirs, files, worker,
                 sender, flusher, dtor>>

FirstShot(run) == [run |-> run, total |-> 0, last |-> 0, ids |-> [k \in Kind |-> 0]]

startCameras(n) ==
  /\ dtor = "alive" /\ n \in Restarted /\ shots[n].run < MaxRun /\ inbox[n] = {}
  /\ shots' = [shots EXCEPT ![n] = FirstShot(@.run + 1)]
  /\ UNCHANGED <<enabled, queue, busy, stop, pending, state, done, dirs, files, worker,
                 sender, flusher, dtor, inbox>>

setEnabled(on) ==
  /\ Unrecorded /\ dtor = "alive" /\ enabled' = on /\ on # enabled
  /\ UNCHANGED <<queue, busy, stop, pending, state, done, dirs, files, worker,
                 sender, flusher, dtor, camera>>

-----------------------------------------------------------------------------
(* save(): the frame is left alone when saving is off; otherwise it is     *)
(* marked, queued under the lock, and the worker notified after it.        *)
saveBegin(n, f) ==
  /\ sender[n].pc = "idle" /\ f \in inbox[n]
  /\ inbox' = [inbox EXCEPT ![n] = @ \ {f}]
  /\ state' = [g \in DOMAIN state \cup {f} |->
                 IF g = f THEN (IF enabled THEN "Saving" ELSE "NotSaved") ELSE state[g]]
  /\ sender' = IF enabled THEN [sender EXCEPT ![n] = [pc |-> "push", frame |-> f]]
               ELSE sender
  /\ UNCHANGED <<enabled, queue, busy, stop, pending, done, dirs, files, worker,
                 flusher, dtor, shots>>

pendingAfterPush(q) == Len(q) + (IF busy THEN 1 ELSE 0)

savePush(n) ==
  /\ sender[n].pc = "push"
  /\ queue' = Append(queue, sender[n].frame)
  /\ pending' = pendingAfterPush(queue')
  /\ sender' = [sender EXCEPT ![n].pc = "notify"]
  /\ UNCHANGED <<enabled, busy, stop, state, done, dirs, files, worker, flusher,
                 dtor, camera>>

(* cv_.notify_all().                                                       *)
notWoken == worker
woken == IF worker.pc = "asleep" THEN [worker EXCEPT !.pc = "check"] ELSE worker

saveNotify(n) ==
  /\ sender[n].pc = "notify"
  /\ worker' = woken
  /\ sender' = [sender EXCEPT ![n] = [pc |-> "idle", frame |-> NoFrame]]
  /\ UNCHANGED <<enabled, queue, busy, stop, pending, state, done, dirs, files,
                 flusher, dtor, camera>>

-----------------------------------------------------------------------------
(* loop(): wait until there is a job or the saver stops; it returns only   *)
(* when the queue is empty.                                                *)
startWithoutPop(f) ==
  worker' = [pc |-> "write", job |-> f] /\ UNCHANGED queue /\ busy' = TRUE
startJob(f) == worker' = [pc |-> "write", job |-> f] /\ queue' = Tail(queue) /\ busy' = TRUE
turnTo(pc)  == worker' = [worker EXCEPT !.pc = pc] /\ UNCHANGED <<queue, busy>>

takeJob ==
  \/ queue # <<>> /\ startJob(Head(queue))
  \/ queue = <<>> /\ stop /\ turnTo("gone")
  \/ queue = <<>> /\ ~stop /\ turnTo("asleep")

workerCheck ==
  /\ worker.pc = "check"
  /\ takeJob
  /\ UNCHANGED <<enabled, stop, pending, state, done, dirs, files, sender, flusher,
                 dtor, camera>>

(* write(): a key seen before starts a new run of its server directory,    *)
(* and names the files after it.                                           *)
key(f) == <<f.kind, f.capture_id, f.cam>>

neverNewRun(d, f) == [d EXCEPT !.seen = @ \cup {key(f)}]
dirAfter(d, f) ==
  IF key(f) \in d.seen THEN [run |-> d.run + 1, seen |-> {key(f)}]
  ELSE [d EXCEPT !.seen = @ \cup {key(f)}]

fileName(d, f, ext) == <<f.server, f.cam, f.frame_id, d.run, ext>>
imageOf(d, f)   == fileName(d, f, IF f.kind = "stack" THEN "npy" ELSE "yuv")
sidecarOf(d, f) == fileName(d, f, "json")

(* The files on disk once `names' were written for frame f.                *)
written(names, f) == [p \in DOMAIN files \cup names |-> IF p \in names THEN f ELSE files[p]]

(* A header-only frame has no image file; a write that throws may have     *)
(* left the image behind.                                                  *)
write(ok, image) ==
  /\ worker.pc = "write"
  /\ LET f == worker.job
         d == dirAfter(dirs[f.server], f)
     IN  /\ image => f.image
         /\ ok => image = f.image
         /\ files' = written((IF image THEN {imageOf(d, f)} ELSE {})
                               \cup (IF ok THEN {sidecarOf(d, f)} ELSE {}), f)
         /\ dirs' = [dirs EXCEPT ![f.server] = d]
  /\ worker' = [worker EXCEPT !.pc = IF ok THEN "saved" ELSE "failed"]
  /\ UNCHANGED <<enabled, queue, busy, stop, pending, state, done, sender, flusher,
                 dtor, camera>>

(* The directory cannot be created: thrown before the key is recorded.     *)
writeNoDir ==
  /\ Unrecorded /\ worker.pc = "write"
  /\ worker' = [worker EXCEPT !.pc = "failed"]
  /\ UNCHANGED <<enabled, queue, busy, stop, pending, state, done, dirs, files, sender,
                 flusher, dtor, camera>>

storeState ==
  /\ worker.pc \in {"saved", "failed"}
  /\ state' = [state EXCEPT ![worker.job] = IF worker.pc = "saved" THEN "Saved" ELSE "Failed"]
  /\ worker' = [worker EXCEPT !.pc = "count"]
  /\ UNCHANGED <<enabled, queue, busy, stop, pending, done, dirs, files, sender,
                 flusher, dtor, camera>>

finishJob ==
  /\ worker.pc = "count"
  /\ busy' = FALSE /\ pending' = Len(queue) /\ done' = done + 1
  /\ worker' = [pc |-> "notify", job |-> NoFrame]
  /\ UNCHANGED <<enabled, queue, stop, state, dirs, files, sender, flusher, dtor, camera>>

(* idle_cv_.notify_all().                                                  *)
idleNotified == IF flusher.pc = "asleep" THEN [flusher EXCEPT !.pc = "check"] ELSE flusher

notifyIdle ==
  /\ worker.pc = "notify"
  /\ flusher' = idleNotified
  /\ worker' = [worker EXCEPT !.pc = "check"]
  /\ UNCHANGED <<enabled, queue, busy, stop, pending, state, done, dirs, files, sender,
                 dtor, camera>>

-----------------------------------------------------------------------------
(* flush().                                                                *)
flushCall ==
  /\ flusher.pc = "idle" /\ dtor = "alive" /\ flusher.calls < MaxFlush
  /\ flusher' = [pc |-> "check", calls |-> flusher.calls + 1,
                 owed |-> {f \in Accepted : \A n \in Server : sender[n].frame # f
                                              \/ sender[n].pc # "push"}]
  /\ UNCHANGED <<enabled, queue, busy, stop, pending, state, done, dirs, files, worker,
                 sender, dtor, camera>>

idleQueueOnly == queue = <<>>
idle == queue = <<>> /\ ~busy

flushCheck ==
  /\ flusher.pc = "check"
  /\ flusher' = [flusher EXCEPT !.pc = IF idle THEN "returned" ELSE "asleep"]
  /\ UNCHANGED <<enabled, queue, busy, stop, pending, state, done, dirs, files, worker,
                 sender, dtor, camera>>

flushDone ==
  /\ flusher.pc = "returned"
  /\ flusher' = [flusher EXCEPT !.pc = "idle", !.owed = {}]
  /\ UNCHANGED <<enabled, queue, busy, stop, pending, state, done, dirs, files, worker,
                 sender, dtor, camera>>

(* ~CaptureSaver(), which App calls once the connections are gone: no save *)
(* and no flush is running.                                                *)
dtorStop ==
  /\ dtor = "alive" /\ flusher.pc = "idle"
  /\ \A n \in Server : sender[n].pc = "idle" /\ inbox[n] = {}
  /\ stop' = TRUE /\ dtor' = "notify"
  /\ UNCHANGED <<enabled, queue, busy, pending, state, done, dirs, files, worker, sender,
                 flusher, camera>>

dtorNotify ==
  /\ dtor = "notify" /\ dtor' = "join"
  /\ worker' = woken
  /\ UNCHANGED <<enabled, queue, busy, stop, pending, state, done, dirs, files, sender,
                 flusher, camera>>

dtorJoin ==
  /\ dtor = "join" /\ worker.pc = "gone" /\ dtor' = "destroyed"
  /\ UNCHANGED <<enabled, queue, busy, stop, pending, state, done, dirs, files, worker,
                 sender, flusher, camera>>

-----------------------------------------------------------------------------
Init ==
  /\ enabled = TRUE /\ queue = <<>> /\ busy = FALSE /\ stop = FALSE /\ pending = 0
  /\ state = <<>> /\ done = 0 /\ files = <<>>
  /\ dirs = [n \in Server |-> [run |-> 0, seen |-> {}]]
  /\ worker = [pc |-> "check", job |-> NoFrame]
  /\ sender = [n \in Server |-> [pc |-> "idle", frame |-> NoFrame]]
  /\ flusher = [pc |-> "idle", owed |-> {}, calls |-> 0]
  /\ dtor = "alive"
  /\ shots = [n \in Server |-> FirstShot(1)]
  /\ inbox = [n \in Server |-> {}]

SaveStep   == \E n \in Server : \/ \E f \in inbox[n] : saveBegin(n, f)
                                \/ savePush(n) \/ saveNotify(n)
WorkerStep == \/ workerCheck \/ (\E ok, image \in BOOLEAN : write(ok, image)) \/ writeNoDir
              \/ storeState \/ finishJob \/ notifyIdle
FlushStep  == flushCheck \/ flushDone
DtorStep   == dtorNotify \/ dtorJoin

Next == \/ \E n \in Server, k \in Kind, S \in Shots, id \in 1..MaxFrameId,
             image \in SendImage : shoot(n, k, S, id, image)
        \/ \E n \in Server : startCameras(n)
        \/ \E on \in BOOLEAN : setEnabled(on)
        \/ SaveStep \/ WorkerStep
        \/ flushCall \/ FlushStep
        \/ dtorStop \/ DtorStep

Spec == Init /\ [][Next]_vars

(* The worker and a thread inside a call keep running; a thread in flush   *)
(* gets the lock again and again when it is woken.                         *)
FairSpec == Spec /\ WF_vars(SaveStep) /\ WF_vars(WorkerStep)
                 /\ WF_vars(FlushStep) /\ WF_vars(DtorStep)

-----------------------------------------------------------------------------
SaveState == {"NotSaved", "Saving", "Saved", "Failed"}

(* Types and program points; a server directory never counts more new runs *)
(* than start_cameras there were.                                          *)
TypeOK ==
  /\ enabled \in BOOLEAN /\ busy \in BOOLEAN /\ stop \in BOOLEAN
  /\ pending \in Nat /\ done \in Nat
  /\ \A f \in DOMAIN state : f \in Frame /\ state[f] \in SaveState
  /\ \A i \in DOMAIN queue : queue[i] \in DOMAIN state
  /\ \A n \in Server : dirs[n].run \in 0..(shots[n].run - 1)
  /\ worker.pc \in {"check", "asleep", "write", "saved", "failed", "count", "notify", "gone"}
  /\ \A n \in Server : sender[n].pc \in {"idle", "push", "notify"}
  /\ flusher.pc \in {"idle", "check", "asleep", "returned"}
  /\ dtor \in {"alive", "notify", "join", "destroyed"}

(* status(), which the panel shows, accounts for every frame: those save() *)
(* has accepted are about to be queued, pending or counted as saved or     *)
(* failed, though the pop in loop() leaves pending alone and pushes race   *)
(* with the worker.  None is queued twice.                                 *)
EveryFrameAccountedFor ==
  /\ Cardinality(Accepted) = done + pending
                               + Cardinality({n \in Server : sender[n].pc = "push"})
  /\ \A i, j \in DOMAIN queue : queue[i] = queue[j] => i = j

(* flush() blocks "until everything queued so far has been written (or     *)
(* failed)" (CaptureSaver.hpp:76), also when frames arrive meanwhile.      *)
FlushWaitsForWrites == flusher.pc = "returned" => \A f \in flusher.owed : Settled(f)

(* The destructor "writes what is queued, then stops" (CaptureSaver.hpp:60)*)
NothingDroppedAtExit == dtor = "destroyed" => \A f \in Accepted : Settled(f)

(* Both waits: what they waited for is on disk or has been reported.       *)
WaitedForIsSettled == FlushWaitsForWrites /\ NothingDroppedAtExit

(* The only copy survives: a frame reported Saved is still in its sidecar  *)
(* and, if it had one, its image, whatever is captured after it            *)
(* (CaptureSaver.hpp:23; "the second must not overwrite the first",        *)
(* unit_capture_test.cpp:198).                                             *)
SavedStaysOnDisk ==
  \A f \in DOMAIN state : state[f] = "Saved" =>
    Cardinality({p \in DOMAIN files : files[p] = f}) = (IF f.image THEN 2 ELSE 1)

(* What the suffix does keep apart, whichever captures are made, of        *)
(* whichever cameras and kinds, with saving on or off or failing in        *)
(* between: a saved frame loses a file only to a frame of a later          *)
(* start_cameras, and never to one with its own capture id, kind and       *)
(* camera, nor to one that came after such a frame.                        *)
TakesOver(g, f) == g.run > f.run /\ key(g) # key(f)

namesAt(f, r) == LET d == [run |-> r]
                 IN  {sidecarOf(d, f)} \cup (IF f.image THEN {imageOf(d, f)} ELSE {})
KeptAt(f, r) ==
  \A p \in namesAt(f, r) : p \in DOMAIN files /\ (files[p] = f \/ TakesOver(files[p], f))

LostOnlyAcrossRuns ==
  \A f \in DOMAIN state : state[f] = "Saved" => \E r \in 0..dirs[f.server].run : KeptAt(f, r)

(* Every frame taken on is written or reported as failed in the end: the   *)
(* worker, asleep or between two jobs, misses no push.  (As captures come  *)
(* to an end, that is to say that nothing is left over again and again.)   *)
EverySaveSettles == []<>(\A f \in Accepted : Settled(f))

(* A call of flush or of the destructor returns: no wakeup is lost and the *)
(* worker ends.                                                            *)
CallsReturn == /\ flusher.pc = "check" ~> flusher.pc = "idle"
               /\ dtor = "notify" ~> dtor = "destroyed"

(* Nothing waits for ever: no frame, no flush and no destructor.           *)
NobodyHangs == EverySaveSettles /\ CallsReturn
=============================================================================
