---------------------------- MODULE CameraStore ----------------------------
(***************************************************************************)
(* data/CameraStore.cpp and its callers in net/MultiServerManager.cpp: the *)
(* camera roster, the latest-frame slots and the last captures, keyed by   *)
(* global id.  The network thread of each server runs onDiscovery, onFrame *)
(* and onCaptureFrame; the main thread runs startStream, stopStream and    *)
(* consumeIfNew.  A locked section of the store is one step; find and      *)
(* findByServer return a pointer into the roster vector that is used after *)
(* the lock is gone, so what it points at may have moved by then.          *)
(*                                                                         *)
(* A pointer is the vector's allocation and an index.  Reading through one *)
(* whose allocation is gone, or while a discovery is sorting the vector,   *)
(* is undefined: any id may come out.                                      *)
(*                                                                         *)
(* Discoveries come at any time, for the first time as well as again, and  *)
(* so do frames and commands: the panel starts the streams of the servers  *)
(* that are connected (ControlPanel.cpp:106-133), others may follow.       *)
(***************************************************************************)
EXTENDS Integers, Sequences, FiniteSets, Functions

CONSTANTS
  NServer,       \* servers are 1..NServer, by index
  NCam,          \* each has local cameras 1..NCam
  MaxDiscovery,  \* bound: discoveries per server
  MaxFrame       \* bound: frames of one behaviour, live and captured

ASSUME StoreAssumption ==
  /\ NServer \in Nat \ {0} /\ NCam \in Nat \ {0}
  /\ MaxDiscovery \in Nat /\ MaxFrame \in Nat

VARIABLES
  roster,      \* sequence of [cam, global_id, streaming]
  alloc,       \* the vector's allocation
  slots,       \* global id -> [cam, frame, seq]
  captures,    \* global id -> [cam, frame]
  net,         \* per server, where its network thread is
  main,        \* where the main thread is
  cursor,      \* the consumer's seen_seq, per global id
  had,         \* the last frame consumeIfNew returned, per global id
  commanded,   \* the cameras whose server was last told to stream
  discoveries, \* per server, discoveries so far
  frames,      \* frames so far
  restarted,   \* the ids whose slot was cleared since their cursor moved last
  crossing,    \* the frames in hand while the roster vector moved
  strayed      \* whether it moved during a start or stop command

consumer  == <<cursor, had, restarted>>
storeVars == <<roster, alloc, slots, captures, net, main, consumer, commanded,
               discoveries, frames, crossing, strayed>>

Server == 1..NServer
Camera == Server \X (1..NCam)
Gid    == 0..(NServer * NCam - 1)
Idle   == [pc |-> "idle"]

Known == {roster[i].cam : i \in DOMAIN roster}
At(c) == CHOOSE i \in DOMAIN roster : roster[i].cam = c

Pointer(i) == [alloc |-> alloc, index |-> i]
Valid(p)   == p.alloc = alloc

-----------------------------------------------------------------------------
(* onDiscovery: addCamera for every camera of the server, each under the   *)
(* lock, then rebuildGlobalIdsSorted.                                      *)
discover(s) ==
  /\ net[s] = Idle /\ discoveries[s] < MaxDiscovery
  /\ discoveries' = [discoveries EXCEPT ![s] = @ + 1]
  /\ net' = [net EXCEPT ![s] = [pc |-> "add", next |-> 1]]
  /\ UNCHANGED <<roster, alloc, slots, captures, main, consumer, commanded, frames>>

(* push_back reallocates when the size is a power of two: libstdc++ starts *)
(* at one element and doubles.                                             *)
grows == Len(roster) \in {0, 1, 2, 4, 8, 16}

addCamera(s) ==
  /\ net[s].pc = "add"
  /\ LET c == <<s, net[s].next>>
     IN  IF c \in Known
         THEN UNCHANGED <<roster, alloc>>
         ELSE /\ roster' = Append(roster, [cam |-> c, global_id |-> Len(roster),
                                           streaming |-> FALSE])
              /\ alloc' = IF grows THEN alloc + 1 ELSE alloc
  /\ net' = [net EXCEPT ![s] = IF net[s].next < NCam
                               THEN [pc |-> "add", next |-> net[s].next + 1]
                               ELSE [pc |-> "rebuild"]]
  /\ UNCHANGED <<slots, captures, main, consumer, commanded, discoveries, frames>>

Before(a, b) == \/ a.cam[1] < b.cam[1]
                \/ a.cam[1] = b.cam[1] /\ a.cam[2] < b.cam[2]

(* std::sort: an entry's place is the number of entries before it.         *)
entryOfRank(n) ==
  CHOOSE r \in Range(roster) : Cardinality({x \in Range(roster) : Before(x, r)}) = n
rosterSorted ==
  [i \in DOMAIN roster |-> [entryOfRank(i - 1) EXCEPT !.global_id = i - 1]]

slotsKept == slots
slotsAfterRebuild == <<>>

rebuildGlobalIdsSorted(s) ==
  /\ net[s].pc = "rebuild"
  /\ roster' = rosterSorted
  /\ slots' = slotsAfterRebuild /\ captures' = <<>>
  /\ net' = [net EXCEPT ![s] = Idle]
  /\ restarted' = {g \in Gid : cursor[g] # 0}
  /\ UNCHANGED <<alloc, main, cursor, had, commanded, discoveries, frames>>

(* A thread may be sorting the roster; that moves entries, if they are not *)
(* in order, and in any case takes each out of the vector and puts it back.*)
InOrder(r) == \A i, j \in DOMAIN r : i < j => Before(r[i], r[j])
rebuilding == \E s \in Server : net[s].pc = "rebuild"
resorting  == rebuilding /\ ~InOrder(roster)
Sound(p)   == Valid(p) /\ ~resorting

-----------------------------------------------------------------------------
(* onFrame and onCaptureFrame: findByServer under the lock; an unknown     *)
(* camera's frame is dropped.  kind is "live" or "capture".                *)
onFrameFind(s, c, kind) ==
  /\ net[s] = Idle /\ frames < MaxFrame /\ c[1] = s
  /\ frames' = frames + 1
  /\ net' = IF c \in Known
            THEN [net EXCEPT ![s] = [pc |-> "found", cam |-> c, kind |-> kind,
                                     frame |-> frames + 1, at |-> Pointer(At(c))]]
            ELSE net
  /\ UNCHANGED <<roster, alloc, slots, captures, main, consumer, commanded, discoveries>>

(* info->global_id, read without the lock.                                 *)
onFrameRead(s) ==
  /\ net[s].pc = "found"
  /\ \E g \in Gid :
       /\ Sound(net[s].at) => g = roster[net[s].at.index].global_id
       /\ net' = [net EXCEPT ![s] = [pc |-> "publish", cam |-> net[s].cam,
                    kind |-> net[s].kind, frame |-> net[s].frame, gid |-> g]]
  /\ UNCHANGED <<roster, alloc, slots, captures, main, consumer, commanded,
                 discoveries, frames>>

put(f, g, v) == [h \in DOMAIN f \cup {g} |-> IF h = g THEN v ELSE f[h]]

(* The sequence number of a new frame in the slot of g.                    *)
seqAfter(g) == (IF g \in DOMAIN slots THEN slots[g].seq ELSE 0) + 1

publishFrame(s) ==
  /\ net[s].pc = "publish" /\ net[s].kind = "live"
  /\ LET g == net[s].gid
     IN  slots' = put(slots, g, [cam |-> net[s].cam, frame |-> net[s].frame,
                                 seq |-> seqAfter(g)])
  /\ net' = [net EXCEPT ![s] = Idle]
  /\ UNCHANGED <<roster, alloc, captures, main, consumer, commanded, discoveries, frames>>

publishCapture(s) ==
  /\ net[s].pc = "publish" /\ net[s].kind = "capture"
  /\ captures' = put(captures, net[s].gid, [cam |-> net[s].cam, frame |-> net[s].frame])
  /\ net' = [net EXCEPT ![s] = Idle]
  /\ UNCHANGED <<roster, alloc, slots, main, consumer, commanded, discoveries, frames>>

-----------------------------------------------------------------------------
(* consumeIfNew: nothing when the slot is empty or its number is the one   *)
(* the consumer saw last.                                                  *)
isNew(g) == g \in DOMAIN slots /\ slots[g].seq # cursor[g]

cursorKept(g) == cursor
cursorMoved(g) == [cursor EXCEPT ![g] = slots[g].seq]

consumeIfNew(g) ==
  /\ main = Idle /\ isNew(g)
  /\ cursor' = cursorMoved(g)
  /\ had' = [had EXCEPT ![g] = slots[g].frame]
  /\ restarted' = restarted \ {g}
  /\ UNCHANGED <<roster, alloc, slots, captures, net, main, commanded, discoveries, frames>>

(* startStream and stopStream: find under the lock, the command for the    *)
(* camera pointed at, then its `streaming' flag, if the send succeeded.    *)
streamFind(g, on) ==
  /\ main = Idle
  /\ \E i \in DOMAIN roster :
       /\ roster[i].global_id = g /\ roster[i].streaming # on
       /\ main' = [pc |-> "command", at |-> Pointer(i), on |-> on]
  /\ UNCHANGED <<roster, alloc, slots, captures, net, consumer, commanded,
                 discoveries, frames>>

streamCommand(sent) ==
  /\ main.pc = "command"
  /\ \E c \in Camera :
       /\ Sound(main.at) => c = roster[main.at.index].cam
       /\ commanded' = IF ~sent THEN commanded
                       ELSE IF main.on THEN commanded \cup {c} ELSE commanded \ {c}
  /\ main' = IF sent THEN [pc |-> "flag", at |-> main.at, on |-> main.on] ELSE Idle
  /\ UNCHANGED <<roster, alloc, slots, captures, net, consumer, discoveries, frames>>

(* A write that races with the sort may hit another entry, or be lost with *)
(* the copy that is put back.                                              *)
streamFlag ==
  /\ main.pc = "flag"
  /\ \/ \E i \in DOMAIN roster :
          /\ Valid(main.at) /\ (~resorting => i = main.at.index)
          /\ roster' = [roster EXCEPT ![i].streaming = main.on]
     \/ /\ ~Valid(main.at) \/ (rebuilding /\ Len(roster) > 1)
        /\ UNCHANGED roster
  /\ main' = Idle
  /\ UNCHANGED <<alloc, slots, captures, net, consumer, commanded, discoveries, frames>>

-----------------------------------------------------------------------------
(* What was in hand while the vector was reallocated or sorted.            *)
InHand == {net[s].frame : s \in {t \in Server : net[t].pc \in {"found", "publish"}}}
reallocated == alloc' # alloc

Watched ==
  /\ crossing' = IF reallocated \/ resorting THEN crossing \cup InHand ELSE crossing
  /\ strayed' = (strayed \/ (main # Idle /\ (reallocated \/ rebuilding)))

StoreInit ==
  /\ roster = <<>> /\ alloc = 0
  /\ slots = <<>> /\ captures = <<>>
  /\ net = [s \in Server |-> Idle] /\ main = Idle
  /\ cursor = [g \in Gid |-> 0] /\ had = [g \in Gid |-> 0] /\ restarted = {}
  /\ commanded = {}
  /\ discoveries = [s \in Server |-> 0] /\ frames = 0
  /\ crossing = {} /\ strayed = FALSE

StoreStep ==
  \/ \E s \in Server : \/ discover(s) \/ addCamera(s) \/ rebuildGlobalIdsSorted(s)
                       \/ onFrameRead(s) \/ publishFrame(s) \/ publishCapture(s)
  \/ \E s \in Server, c \in Camera, kind \in {"live", "capture"} : onFrameFind(s, c, kind)
  \/ \E g \in Gid : consumeIfNew(g)
  \/ \E g \in Gid, on \in BOOLEAN : streamFind(g, on)
  \/ \E sent \in BOOLEAN : streamCommand(sent)
  \/ streamFlag

StoreNext == StoreStep /\ Watched
StoreSpec == StoreInit /\ [][StoreNext]_storeVars

-----------------------------------------------------------------------------
(* Types; the global ids are dense and unique at every moment, also while  *)
(* a discovery is between addCamera and the rebuild.                       *)
StoreTypeOK ==
  /\ \A i \in DOMAIN roster : roster[i].cam \in Camera /\ roster[i].streaming \in BOOLEAN
  /\ {roster[i].global_id : i \in DOMAIN roster} = 0..(Len(roster) - 1)
  /\ alloc \in Nat
  /\ DOMAIN slots \subseteq Gid /\ DOMAIN captures \subseteq Gid
  /\ \A s \in Server : net[s].pc \in {"idle", "add", "rebuild", "found", "publish"}
  /\ main.pc \in {"idle", "command", "flag"}
  /\ cursor \in [Gid -> Nat] /\ had \in [Gid -> 0..MaxFrame]
  /\ commanded \subseteq Camera

(* The `streaming' flag of a camera, by which windows are opened and       *)
(* streams stopped, is what its server was told last.                      *)
FlagIsWhatWasSent ==
  main = Idle => {roster[i].cam : i \in {j \in DOMAIN roster : roster[j].streaming}} = commanded

BelongsTo(f, i) == roster[i].global_id \in DOMAIN f
                     => f[roster[i].global_id].cam = roster[i].cam

(* What is kept under a global id belongs to the camera that has it: live  *)
(* frames and captures ("Global ids may have moved, so a capture keyed by  *)
(* one is no longer known to belong to that camera", CameraStore.cpp:51,   *)
(* which is why both are cleared).                                         *)
KeyedByOwner ==
  \A i \in DOMAIN roster : BelongsTo(slots, i) /\ BelongsTo(captures, i)

(* What of it holds with servers that are discovered late, or again, while *)
(* frames, captures and commands come in: only a frame that was in hand    *)
(* while the vector moved can be kept under the id of another camera, also *)
(* after any number of rebuilds, and only a command under way at that time *)
(* can leave a flag that is not what was sent.                             *)
FiledByOwner ==
  /\ \A i \in DOMAIN roster :
       LET g == roster[i].global_id
       IN  /\ g \in DOMAIN slots /\ slots[g].frame \notin crossing => BelongsTo(slots, i)
           /\ g \in DOMAIN captures /\ captures[g].frame \notin crossing
                => BelongsTo(captures, i)
  /\ ~strayed => FlagIsWhatWasSent

(* consumeIfNew hides no frame: one the consumer has not had is not taken  *)
(* for the one it saw last ("nullptr if no new frame has arrived since the *)
(* last call", CameraStore.hpp:82), whatever is discovered again, but for  *)
(* an id whose slot was cleared and whose consumer has had nothing since:  *)
(* there the numbers start again and may meet the one it saw last.         *)
NoFrameHidden ==
  \A g \in DOMAIN slots \ restarted : slots[g].frame # had[g] => isNew(g)

(* consumeIfNew returns no frame twice, and nothing older than what it     *)
(* returned before: a slot shows frames in the order of their arrival,     *)
(* but for those in hand while the vector moved, which may be another      *)
(* camera's.                                                               *)
NoFrameAgain ==
  \A g \in DOMAIN slots : isNew(g) =>
    slots[g].frame # had[g] /\ (slots[g].frame \notin crossing => slots[g].frame > had[g])

(* A consumer gets every newest frame exactly once.                        *)
EachFrameOnce == NoFrameHidden /\ NoFrameAgain
=============================================================================
