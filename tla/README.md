# TLA+ models of telefacet

telefacet is a C++ client for a rig of camera servers. It connects to several
servers over WebSockets, reassembles their frames, shows them (application) or
hands them out (library `Client`), drives the servers' lifecycle, and takes and
saves still captures. This directory holds its formal models: what runs
concurrently, what is kept between messages, and what the program relies on.

Paths below are relative to `src/`, the repository.

## 1. Inventory

| component | state | operations | runs on |
|---|---|---|---|
| `data/FrameBufferPool` | free list with a cap, buffers shared by `shared_ptr` | `acquire`, `release` | every thread |
| `net/ChunkReassembler` | in-flight frames by uuid, last sweep time | `onBinary` (start, chunk), `sweepStale`, `reset` | receive thread of its connection |
| `net/WebSocketClient` | connected flag, server state, region, limits, capture requests and the acked capture | `start`, `stop`, commands; Open, Close, Error, text and frame handlers | receive thread; commands from any thread |
| `net/MultiServerManager` | the clients, the callbacks | commands to all servers, `startStream`, `onFrame`, `onDiscovery`, `onCaptureFrame` | all of them |
| `data/CameraStore` | roster with global ids, newest frame and capture per id, statistics | discovery, `publishFrame`, `publishCapture`, `consumeIfNew`, `clear` | receive threads and readers |
| `data/CaptureSaver` | job queue, `busy_`, `stop_`, runs and keys seen, counters | `save`, `flush`, worker loop, destructor | receive threads, worker, caller |
| `client/Client` | the servers a capture call waits for, its outcome | `start`, `stop`, `triggerCapture`, `stackCapture`, callbacks, `latest` | caller and receive threads |
| `ui/ControlPanel` | last stage, timers, sliders and switches, parameters of Apply, Trigger and Stack | `draw`, `advance`, `retreat`, the sections | GL thread |
| `ui/CameraView`, `CameraGrid` | textures, cursor, FoM ring, last still per camera | `sync`, `uploadIfNew`, `renderCapture`, `drawWindow` | GL thread |
| `app/App` | the session, the saver, a pending config | `openSession`, `loadPendingConfig`, `shutdown` | GL thread |
| `config/ConfigLoader`, `data/StackImage`, `gl/*` | none | parsing, pixels, OpenGL | caller |

How they interact: a receive thread of ixwebsocket calls
`WebSocketClient::onMessage`; a binary message goes through the reassembler,
which fills a pooled buffer and calls `onAssembled`; that decides between a live
frame and a capture frame and calls into `MultiServerManager`, which looks the
camera up in the store and publishes. Readers take a reference from the store and
drop it when they are done. Text messages update what the client knows of its
server, and call back into `Client` or the saver. The GL thread and API callers
send commands directly. A new config destroys the panel, the grid and the manager
and builds them again, while the store and often the saver stay.

What is hard: reference counts read without a lock; roster pointers used after
their lock is gone; answers that carry no request id, on a socket that may close
and open again between request and answer; uuids and capture ids that repeat;
condition variables shared by four kinds of threads; calls that time out and
whose answers come during the next call; several servers in different states
behind one set of buttons; a session replaced under running callbacks; widgets
that send values the server never confirms. `PROJECT.json` lists these as
hazards, each at its line, with the property that covers it.

## 2. Modules

| module | models | abstract data |
|---|---|---|
| `FrameLease` | what the pool promises: a buffer is free, written by one, or shown | buffers are names |
| `FramePool` | the pool, the unlocked check of `release`, every holder of references | content is whole or not |
| `DetectionBlock` | the parsers of corner sets and markers, as functions, with their reference | a word is a number |
| `ChunkReassembler` | one connection's reassembly, with its clock and its pooled buffers | bytes are `<<frame, piece>>` |
| `CaptureProtocol` | the capture bookkeeping of one `WebSocketClient` with its socket and its server | an entry is a camera |
| `CaptureSaver` | the saver's threads, its runs and file names, failing writes | a file holds the capture that wrote it |
| `CameraStore` | roster, slots, captures, and the network threads that use them | a frame is its camera and number |
| `ClientCapture` | `Client::runCapture` over several servers | the bookkeeping is a phase, as `CaptureProtocol` shows it |
| `ServerLink` | server state, region, limits, streams of each connection, the commands, and other commanders of some servers | one camera per server |
| `Panel` | the pipeline of the panel over the `ServerLink`s | |
| `ClientStart` | `Client::start` and `stop` over the same `ServerLink`s | the settings of steps 4 and 5 are one |
| `LiveStats` | the server-side cadence kept by `publishFrame` | the sensor has one frame duration |
| `CameraTile` | one tile: `sync`, `uploadIfNew`, `renderCapture`, `drawWindow`, against the network thread | an image is the frame it shows |
| `StackImage` | the functions on stacked images, and `gridDimensions` | samples are integers |
| `AppSession` | `App`: loading configs and shutting down, against the receive threads | a config is its addresses, directory and switch |
| `PanelControls` | the exposure, frame-rate and focus sections, over config loads and changing limits | durations and positions in small units |
| `SaveParams` | a parameter's way from the YAML file to the server, by panel and `Client` | one key for all that are treated alike |

Theorems and their proofs are in modules of their own:

| module | theorems about |
|---|---|
| `FramePool_proofs` | `FramePool`, and its refinement of `FrameLease` |
| `CaptureProtocol_proofs` | `CaptureProtocol` |
| `CaptureSaver_proofs` | `CaptureSaver` |
| `ClientCapture_proofs` | `ClientCapture` |
| `ReceivePath_proofs` | `ChunkReassembler` with `DetectionBlock`, and `CameraStore` |
| `Panel_proofs` | `ServerLink`, `Panel`, `ClientStart`, `PanelControls` and `SaveParams` |
| `AppSession_proofs` | `AppSession` |
| `CameraTile_proofs` | `CameraTile` and `LiveStats`, and the functions of `StackImage` |

`ChunkReassembler` extends `DetectionBlock`, `CameraTile` extends `LiveStats`,
`Panel` and `ClientStart` both extend `ServerLink`, and `FramePool` is shown to
implement `FrameLease`. `MCPanel` composes the two programs that command servers
(a behaviour is the GUI's, `pc = "gui"`, or a `Client`'s); `MCControls` composes
`PanelControls` and `SaveParams`, and `MCReceivePath` the two halves of the receive
path, `ChunkReassembler` and `CameraStore`: these share no state, so a behaviour
works in one of them. The other modules meet at interfaces narrow enough (a buffer
reference, a callback with an id) for each to have the other side as an
environment. The remaining `MC*` modules give the constants values that a `.cfg`
cannot write. The server is external everywhere: it is modelled from what the
code in `src/` sends it and takes from it, and marked so in the map.

Correspondence worth knowing when reading:

- **FramePool.** A *place* is a variable of the program that can hold a
  `shared_ptr`: an in-flight entry, a local of a receive thread, a slot, a still,
  the copy of a viewer, a kept capture. `use_count()` is the number of places
  with the buffer. `release` is three steps: the check, the drop (if the check
  saw another owner) and the push under the mutex.
- **ChunkReassembler.** Each packet is one step, as the receive thread handles
  it: start or chunk, then the sweep if its period has passed. A packet shorter
  than eight bytes is refused without an effect, so the model has no step for it.
  Recycled buffers keep their old content, as the pool's do.
- **DetectionBlock.** The two parsing loops are one recursive function with the
  header size as a parameter. `ParsersMeetReference` (an assumption of
  `MCChunkReassembler`, so TLC evaluates it) compares them with their reference on
  every block of up to six words, `ParsedIsFront` proves it of every block;
  `DetectionsAreItsOwn` is about the lists a delivered buffer really carries.
- **CaptureProtocol.** Record, check, send and undo of a request are steps of
  their own, since receive and caller threads interleave there; so are storing
  `connected_` and `resetCaptures` on Open and Close. Capture ids wrap at
  `IdMod`, standing for the 16 bits a frame carries.
- **CaptureSaver.** A critical section is one step, a `notify` another. A wait
  is the pair of a check under the mutex and a wakeup: a sleeping thread moves
  only when it was notified.
- **CameraStore.** A lookup and the use of its pointer are two steps. A pointer
  is an allocation of the roster vector and an index; reading through one whose
  allocation is gone, or while the vector is being sorted, is undefined behaviour,
  modelled as a read of any id. `grows` follows the doubling of libstdc++. The
  sorted roster is given by rank: an entry's place is the number of entries before
  it (`entryOfRank`), which is what any sort by a strict order on different keys
  leaves. Discoveries, first and repeated, come at any moment: the panel starts the
  streams of the servers that are connected (`ControlPanel.cpp:106-133`), and others
  may follow. `crossing` and `strayed` record what was in hand when the vector moved.
- **ClientCapture.** The callbacks run one step after the bookkeeping they
  report, because the code unlocks in between.
- **ServerLink, Panel, ClientStart.** A command takes effect at the server when
  it is sent and only its replies are under way, which nothing on this side can
  tell from a slower server. The stage of a frame is computed in `draw` and used
  by a later `advance` or `retreat`, with network steps in between; a frame has
  at most one press. The two timers are free to run out whenever no reply is
  under way. `start` is one action per `waitUntil` and one per batch of commands;
  a timeout may end any of its waits at any moment. While a connection is gone its
  server may be restarted, and one in `Shared` also configured by another commander.
- **LiveStats, CameraTile.** The two reads of the last capture in one frame of
  the GL thread (`uploadIfNew`, `drawWindow`) are two steps. `of` and `fed` record
  what the code cannot see: which image the FBO holds and which FoM values were
  taken. Timestamps have a width, so their unsigned difference wraps.
- **AppSession.** The statements of `loadPendingConfig` and `shutdown` that the
  other threads can observe are the entries of a list, `todo`, taken one per step;
  `ws_.stop()` is enabled only when the callback of its receive thread is over,
  as a join is. A callback is two steps, store then saver.
- **PanelControls.** The sections are drawn from the top down; a widget's step is
  the whole block of code under its `if`, the clamp it causes and the command it
  sends included. `sent` is what the servers were last sent; a config load makes the
  panel anew and leaves it (`reload`, `LeftOver`), and `own` is the part this panel
  sent. The limits are those of whichever server is the first connected one
  (`limitsChange`).
- **SaveParams.** Loading, seeding the panel's fields, editing, Apply, Trigger,
  Stack and `Client`'s calls are the steps. A field holds less than the config:
  `inField` cuts the directory to 255 characters (here, a directory is its length)
  and takes counts to an `int`. `ByCaller` are the keys `Client::start` replaces by
  its caller's options. The float of milliseconds in which the panel keeps the
  exposure is modelled by `ExposureSurvives`, exact binary rounding, and checked as
  the assumption `ExposuresSurvive` of `MCControls`.
- **StackImage.** Functions only; `width * 4` is a product modulo `Uint32`, as in
  the code. Their reference statements are the assumption
  `ImageFunctions` of `MCCameraTile`, which TLC evaluates over small images, and are
  proved for every size.

## 3. Runs

Passing runs, with what each property says:

| run | instance | properties |
|---|---|---|
| `pool` | 2 connections, 1 slot, GL thread, API reader, keeper, 4 buffers, cap 2 | `WriterIsExclusive`: a buffer being written has no other owner. `ReadersSeeWholeFrames`: nobody sees a torn frame. `SoleOwnerIsStable`: the unlocked `use_count() == 1` stays true up to the push. `RefinesLease`: the pool implements `FrameLease` |
| `receive_path` | the chunks of 2 connections: frames `a` (sound), `c` (same uuid, declares too much), `h` (header only), `over` (declares too little), timeout 2 ticks; or the store: 2 servers with 2 cameras, each discovered up to twice at any time, 3 frames or captures, or stream commands | `DeliveredWhenComplete`: a frame is delivered when its last chunk is there, and intact. `DetectionsAreItsOwn`. `ArrivingFrameIsKept`: only silence, delivery or the end of the connection removes a frame. `AbandonedIsSwept`. `FiledByOwner`: what is kept under an id is its camera's, unless it was in hand while the roster moved. `EachFrameOnce`: no frame is returned twice, and none hidden but by a slot that was cleared since its consumer had one |
| `capture` | 2 cameras, both kinds, 3 requests, 2 connections, ids of one bit | `InProgressIffOutstanding`: in progress exactly as long as the server owes something. `FrameFindsItsResult`. `RefusalNamesItsRequest`. `CaptureEnds` |
| `saver` | the threads: 2 receive threads, worker, a flush, destructor, failing writes, saving on and off; or the names: captures of 2 kinds and 1 or 2 cameras, 2 per run, unrecorded ones, 1 restart | `EveryFrameAccountedFor`: the counters add up. `WaitedForIsSettled`: what `flush` and the destructor waited for is written or reported. `LostOnlyAcrossRuns`: a saved frame loses a file only to one of a later `start_cameras` with another kind, id or camera. `NobodyHangs`: no frame, flush or destructor waits for ever |
| `client` | 2 servers, 3 calls, 0 to 2 frames each, refusals, timeouts, 2 connections | `OwnFrames`: no frame of an earlier call. `CompleteMeansDelivered`: complete is said only with every frame there, or after a late result without frames (`TakenLate`) |
| `panel` | GUI or `Client::start`; 2 servers idle or running at first, one failure (with or without a restart, or with another commander's `configure` of the second server), one step back or one stream switched off; with `Client`, refused commands | `StageIsTheMinimum`, `RegionIsCurrent`, `NoHiddenStream` of the panel. `StartedMeansStreaming`: `start` returns only when every server whose link held streams. `SettingsAccepted`: no such server refuses the settings. `GuiStartsAll`, `GuiGetsLimits` (liveness) |
| `tile` | 4 live frames (1 lost between two), 2 captures, 1 reconnection, windows of 2 | `OverlayBelongsToTheImage`: badge and corners belong to the pixels under them. `StillIsShown`. `CurveIsTheLastValues`: the FoM ring before and after its wrap. `CadenceRecovers`: the measured durations are the sensor's, and a wrong one has left after a window |
| `session` | 3 configs and a bad file over 2 addresses, 2 loads, 2 captures, 1 broken link or foreign commander | `CallbacksFindTheirSession`: no callback meets a destroyed manager or saver. `FiledUnderItsServer`. `EveryCaptureIsWritten`. `StoreIsThisSessions`. `EndsConnected`: the config asked for last ends connected to all its servers |
| `controls` | 3 sensors (one without focuser, one with no frame durations), limits arriving, going and becoming another sensor's, config loads over cameras that keep their settings; 24 YAML files, reloads, one edit per load | `ShutterFitsTheFrame`: once a panel sent both, the servers hold no shutter longer than the locked frame duration. `LensPulledIn`. `SentAsConfigured`: a key of the file nobody edited is sent as the file has it, by the panel cut to its field and widget. `RequestsAccepted`: no capture request out of range |

`tile` is the largest (about 3.6 million states, a minute and a half);
`receive_path` has 900 000 and `panel` 660 000, with liveness properties, and they
take three minutes each; `saver` has 450 000, `client` and `session` 200 000,
`controls` 70 000.

Runs that end in a violation, each a disagreement between the code and what the
repository says of it (quoted under `findings`):

| run | what TLC finds |
|---|---|
| `reassembler_header_only` | a header-only frame in a recycled buffer still carries pixels |
| `saver_overwrite` | a first capture of another kind after `start_cameras` replaces a sidecar |
| `store_pointers` | a server discovered while another one's frame is in hand moves the roster under the pointer; the frame is kept under the wrong id |

**Bounds.** Two of each kind of thread, server or camera is what it takes for one to
get between the steps of another; no step of the code distinguishes a third. Two
connections are enough for something of the first to survive into the second.
Capture ids wrap after two, so that a wrap happens with three requests. The pool has
more buffers than `MaxFree`, so that the cap is reached, and fewer than the places,
so that buffers are recycled. The reassembler has one frame of each way a frame can
be wrong, and a uuid used on both connections. In `panel` one failure or retreat
suffices because servers that connect at different times already differ in state and
a failed server may restart; the number of replies under way (`MaxMsg`, one more for
`Client::start`) is that of the longest answer; only one server has another
commander. In `saver` a behaviour is about the threads or about the names: run
numbers and file names are given by the worker alone, one server at a time, so what
the names depend on is the series of captures (two kinds, one or two cameras, two
per run, one of them unrecorded or failed, a restart) and not the interleaving, and
the second server is there for its thread. `LostOnlyAcrossRuns` holds of the
interleavings as well, by its proof. In `receive_path` two discoveries of two
servers meet at any moment while three frames of either are looked up, read or
published; behaviours about frames repeat the discovery of one of them. In `tile`
four frames fill and wrap windows of two and a ring of two, also after a
reconnection. In `session` two loads and one fault let a load meet a slot that is
still held, by the old connection or by another commander. In `controls` the sliders
take every value up to past their ends (`MaxTyped`), so a typed value can leave the
range; the files have each key given, left out, below and above its range.

Deadlock is not checked where `CHECK_DEADLOCK FALSE` stands: those behaviours end
because a bound is reached (no request, connection, frame or capture left) or the
program is left. That nothing gets stuck before is what the liveness properties
say.

**What the instances leave out.** These are limits of the properties, and facts
about the code that a reader should know:

- `KeyedByOwner`, what a reader of `CameraStore.cpp:51` would expect, fails
  (`store_pointers`): `onFrame` and the stream commands use a roster pointer after
  its lock is gone (`MultiServerManager.cpp:241`), and a server may be discovered at
  that moment. `FiledByOwner` excepts what was in hand then, `crossing` and
  `strayed`, and nothing that comes later.
- `EachFrameOnce` excepts a slot that was cleared by `rebuildGlobalIdsSorted` and
  whose consumer has had nothing since (`restarted`): consumers keep their cursors
  while the numbers start again, so the first new frame can have the number last
  seen, and is not shown until the next one comes.
- `LostOnlyAcrossRuns`: across a `start_cameras` files can be lost
  (`saver_overwrite`): a run whose first capture has another kind, or other cameras,
  or went by unrecorded, repeats no key yet, and takes the names of the run before.
- `capture` lets a caller overlap requests of one kind only, as `Client` and the
  panel do: with a stack requested behind an unacked trigger, the refusal is
  booked on the trigger. A request that crosses the `resetCaptures` of Open
  (`WebSocketClient.cpp:190`) is recorded, cleared and sent; the model has it
  (`lost`), and `InProgressIffOutstanding` excludes it.
- `CompleteMeansDelivered` excepts servers whose answer was a late result *without*
  frames (`TakenLate`): it clears the record (`noteCaptureAcked`,
  `WebSocketClient.cpp:350`) before its callback runs (`:358`), and can be taken for
  the ack of the next call, which then returns complete without its frames. It is
  about the servers a call armed: one that connects between arming and sending is
  sent the request and not waited for. A server that drops after it was sent the
  request makes the call wait out its timeout.
- `RegionIsCurrent` excepts servers that Open found configured in another mode than
  that of the region known (`missed`): Close does not forget the region, and it is
  fetched only when none is known (`WebSocketClient.cpp:284`), so a disconnect, a
  foreign `configure` and a reconnect leave the old one, until the next IDLE or
  region message. The streaming flags err on one side only: a rediscovered camera
  keeps its own.
- The settings of `Client::start` and of the panel's widgets are sent once and not
  again after a reconnection; `SettingsAccepted` excludes servers whose link
  failed during the call, and `ShutterFitsTheFrame` and `LensPulledIn` are about
  what was last sent. A panel made by a config load knows nothing of the exposure
  and the lock the cameras keep ("The cameras are left as they are", `App.cpp:154`):
  `ShutterFitsTheFrame` is about a panel that has sent both.
- `ShutterFitsTheFrame` says nothing of the sensor's limits: a lock raised to the
  shutter may leave them. `LensPulledIn` allows the rounding to the step, which may
  leave the range by less than one step, and limits that change between a switch
  to manual and the next frame (`slipped`): the switch sends the position brought
  into the range but keeps the panel's own, with which the pull-in then compares.
- `SentAsConfigured`: the keys of a detector are read only when the file itself
  names that mode; selecting another mode later sends that mode's defaults. The
  panel sends what its fields hold: a directory of more than 255 characters is cut
  (`ControlPanel.cpp:59`), a count past an `int` becomes another number
  (`ControlPanel.cpp:61-62`) and Apply brings it into the widget's range. `Client`
  always sends its caller's `save_frames`, and for markers its caller's options.
- `hasSf32` compares with `width * 4` as a `uint32_t` (`StackImage.cpp:19`). From a
  width of 2^30 on it accepts lines shorter than their samples, and the last rows
  are read past the frame; below that everything is read within it
  (`NpyReadsWithin`, which states the bound exactly).
- `CadenceRecovers` needs `Window` frames after a restart: the first frame of a
  restarted server with a greater id has a meaningless duration (its timestamp may
  have stepped back, and the difference is unsigned).
- The sample of `StackImage.cpp:36`, "at most kMaxSamples", is fewer than twice
  that many; the reference states the bound the code keeps.
- A `release` that saw a second owner may drop the last reference, and then the
  buffer goes to the heap and not to the pool.

**Fairness.** Only threads that the code really keeps running are fair, and only
weakly unless said otherwise.

- `receive_path` (`AbandonedIsSwept`): time passes and packets keep arriving. The
  sweep runs inside `onBinary`; on a silent connection it does not run.
- `capture` (`CaptureEnds`): the receive thread handles what has arrived, a caller
  finishes the request it began, the server answers and sends its frames or the
  socket reports the drop. No fairness on new requests or on reconnecting.
- `saver` (`NobodyHangs`): the scheduler runs the worker, callers inside `save`
  and `flush`, and the destructor. Wakeups are never spurious, which is the weaker
  assumption: a spurious one only repeats a check.
- `panel`: receive threads run, ixwebsocket reconnects, frames are drawn and the
  limits timer runs out, and, for `GuiStartsAll`, the user keeps pressing. The
  timer and the press are strongly fair because the bound on the replies under way
  disables them again and again; the program itself never does. `Client::start`
  needs none: its promises are about what holds when it returns.
- `session` (`EndsConnected`): the main loop looks at `pending_config_` every
  frame and finishes what it began, the saver's worker runs, ixwebsocket retries a
  connection that failed or was refused (automatic reconnection is on), running
  callbacks end, and a server notices in the end that a link is broken or that
  another commander has left. No fairness on requests, captures or faults.

**Mutants.** For every property `PROJECT.json` names a variant of a mapped
definition (a dropped guard, a missing reset, a swapped order) that breaks it.

## 4. Proofs

What the runs show on small instances, these theorems show for every value of the
constants: any number of servers, cameras, threads, requests, frames, loads and
connections, every width of an id, every window and every ring. The assumptions
are those of the modules that declare the constants, which TLC evaluates on every
run; the ones that are more than a type are named below.

Each proof has the same shape: the invariant, a lemma that `Init` establishes it,
a lemma per action (or per group of actions that touch the same part of it) that
it is preserved, and the theorems, which follow from it. No property below is
inductive by itself except where said; what had to be added is the argument.

**FramePool_proofs**: `TypeOK`, `FreeIsUnreferenced`, `WriterIsExclusive`,
`ReadersSeeWholeFrames`, `SoleOwnerIsStable` and the refinement of `FrameLease`.
Assumed: the kinds of threads are disjoint, `NoBuf` is not a buffer. The invariant
`IInv` is their conjunction with `ReleaseHasBuffer` (a thread inside `release`
still holds its parameter), and is the argument for the unlocked check:

1. `release` saw `use_count() == 1` and is about to push. The only place with the
   buffer is its own parameter. A new reference can only be copied from a place
   that has one, and the parameter is not a place anybody copies from
   (`SoleOwnerIsStable`).
2. So the pushed buffer has no reference, and nothing gives it one but `acquire`,
   which pops it first (`FreeIsUnreferenced`).
3. So a buffer that `acquire` hands out is referred to by its writer alone, until
   the writer publishes it whole (`WriterIsExclusive`).
4. So what a reader holds was published whole and is written by nobody
   (`ReadersSeeWholeFrames`).

The refinement maps a buffer to *free*, *written* or *shown* and shows that each
action is a step of `FrameLease` or a stutter.

**CaptureProtocol_proofs**: `InProgressIffOutstanding`, `FrameFindsItsResult`,
`RefusalNamesItsRequest`. `CaptureInv` counts two things. Of each kind, the requests
on record against those that wait for an answer, wherever they are (with the
caller, on the way, with the server, answered but not handled): never more on
record than awaited between handlers, never fewer unless a request crossed the
reset of Open (`lost`). And of each result, acked or on its way, the frames that
follow it in the socket and those not yet sent against the entries it announces,
all of them its own. Frames need no id wider than the wire's for this: the order of
the socket alone keeps them with their result. The record holds one kind at a time
because the model's callers do not mix kinds (section 3).

**CaptureSaver_proofs**: `EveryFrameAccountedFor`, `WaitedForIsSettled`,
`LostOnlyAcrossRuns`. `SaverInv` says where every accepted frame is: with the thread
about to push it, in the queue (once), with the worker, or settled; that `pending`
and the counters add up over these places; that a flush is owed no frame that is
still about to be pushed; and what the destructor may find. That a frame is not
handed to `save` twice, without which the counts fail, comes from how servers
number runs and captures. Assumed: finitely many servers, captures of at least one
camera.

`SavedFramesStay` proves `LostOnlyAcrossRuns` for any servers, kinds, cameras and
captures, recorded or not, failing or not. `SavedStaysOnDisk` itself is false
(`saver_overwrite`); what the suffix does guarantee is this. `FilesInv` has four
parts: no camera delivers two frames with one frame id in a run of the server
(`NumbersInv`); the worker gets the frames of a server in the order of its runs
(`InTurn`); a frame is in one place while it is being saved (`OnePlace`); and a saved
frame has its files under some run of the directory, but for those that a frame of a
later run with another key has taken over, and while that run of the directory lasts
its own key is among those seen (`DiskInv`). A frame with the same key therefore
opens a new run of the directory, after which nothing writes the earlier run's
names. A frame with another key that meets the names has the same camera and frame
id, so it is of another run of the server, and, as the worker works in turn, of a
later one. A write that failed half-way has marked its key and may have taken over
one file and not the other, which is covered.

**ClientCapture_proofs**: `OwnFrames`, `CompleteMeansDelivered`. `OwnInv` states what
the wait at the start of `runCapture` leaves behind: every capture under way is the
call's own, and a callback already on its way can only be the last of an earlier
capture. `DeliverInv` adds that frames taken, in hand and to come are the number
the ack announced, unless that ack was the late result, without frames, of an
earlier call. Calls are numbered for this (`Numbered`): what a server was asked last
is the newest, and a result without frames in hand is never of the capture now under
way (`Following`), so such an ack tells itself by its id.

**ReceivePath_proofs**, the reassembler: `DeliveredWhenComplete`,
`DetectionsAreItsOwn`, `ArrivingFrameIsKept` (an action property). `ReassemblerInv`
has three parts. Of the sender: chunks follow their start, and a uuid names one
started frame. Of every entry of the map (`EntryInv`): a chunk that is there is
the frame's own piece of that index and was sent; the buffer was filled from the
frame's own header and block; the clock of its age is not ahead of the silence; and
`received` is below the total and not below the number of chunks sent, and, where no
piece is empty, exactly the number of chunks that are there. Of the last delivery:
it was filled from its own frame and, if sound, is the concatenation of its pieces.
The counter is what the code compares with the total, so its cardinality is the
heart of the first theorem, twice: a frame all of whose chunks were sent would have
a counter at the total and so cannot wait in the map, and a counter that reaches the
total means that every piece is there.

`ParsedIsFront` states what the two parsers return for *every* block, header size
and announced count: the records that lie whole in the block, in order and from its
start, no more than announced. The parsers are a recursive function of the place in
the block; the library's induction cannot be instantiated (it takes an operator),
so the proof looks at a least counterexample (`LeastElement`, from the theorem that
`<` is well-founded on the naturals) and derives a smaller one.

**ReceivePath_proofs**, the store: `FiledByOwner` and `EachFrameOnce`, for
discoveries at any time and without a hypothesis. `StoreInv` (`StoreKeepsItsCameras`)
is: entries differ and a global id is the entry's index (`RosterInv`); a frame in
hand is nowhere else (`ApartInv`); one in hand that has seen no move of the vector
is at the place of its camera and came after every frame that has, and after those
in its slot and with its consumer (`HeldInv`); what is kept under an id is of its
camera unless it crossed a move (`KeptInv`); the numbers of a slot run ahead of the
cursor unless they were started again (`NumbersInv`, `FrameInv`); and unless the
vector moved during a command the flag is what the server was told, but for the one
about to be set (`FlagInv`). The steps that matter are those of a discovery. An
`addCamera` that does not reallocate, and a rebuild of a roster already in order,
leave every entry where it is (an order has one entry of each rank), so pointers
and ids keep their meaning; at every other one all that is in hand is added to
`crossing`. A rebuild clears what was filed before, and so what could be filed
wrongly under a moved id; only what crossed can still arrive.

**Panel_proofs**, the servers and their links: `StageIsTheMinimum`, `RegionIsCurrent`,
`NoHiddenStream` of the panel;
`StartedMeansStreaming` and `SettingsAccepted` of `Client::start`. `LinkInv` is about
the replies under way: read to their end, they leave the link with the server's
state and, unless Open left an old one standing (`missed`), its region. For the
region (`RegionWillBe`) this is: a reply that carries another mode than the server's
is followed by one that makes the link forget it, that one by one that brings the
region again, and what is known before the first of them is right. Another
commander only gets at a server whose connection is gone, so no reply under way is
outdated by it. The properties of the panel
speak of links with nothing under way and are the special case. `StartInv` adds that
`start` only takes servers forward, so that a state once reported stays reached, and
that on a held connection the discovery comes before the first state, which is why
waiting for one camera leaves no server out.

**AppSession_proofs**: `CallbacksFindTheirSession`, `FiledUnderItsServer`,
`EveryCaptureIsWritten`, `StoreIsThisSessions`. `SessionInv` lists what holds before
each remaining step of a load and of the shutdown: after the first step every
receive thread has been joined and stays off until `connectAll`, so what is torn
down in between is seen by nobody, and a running callback belongs to the session
in force.

**CameraTile_proofs**: `OverlayBelongsToTheImage`, `CurveIsTheLastValues`,
`StillIsShown` (an action property), `CadenceRecovers`. `TileInv` relates the view's
flags to what the FBO really holds, from the upload of one frame to its drawing,
and the ring with its head to the values in the order they came (`RingPush`, for
every length). `CadenceInv` says that the last `origin.run` durations are the
sensor's and that within one start the store's last id and timestamp are the
server's. Assumed: the time between two frames that arrive, with at most `MaxSkip`
lost between them, fits the timestamp, `(MaxSkip + 1) * Cadence < TsWidth` (64 bits
in the code).

The functions of `StackImage` are proved there too, for every width, height, line
length, table and number of tiles: a `.npy` file holds the image row by row without
the padding of its lines and reads no byte outside the frame
(`NpyFilesHoldTheImage`), as long as a line of samples fits a `uint32_t`, a bound
that is exact (`NpyFilesReadWithin`); its data is aligned (`NpyHeadersAreAligned`),
the 8-bit stretch keeps the order of samples (`StretchIsMonotone`), the sample for
the white point has between one element and `2 * kMaxSamples - 1`
(`SamplesAreInBounds`, one per stride), and a grid has a cell for every tile and no
empty row (`GridsHoldAll`). The products and quotients of variables are kept in
lemmas of their own (`DivIs`, `DivMod`, `DivMonotone`), which is what keeps the
arithmetic within the solver's reach.

**Panel_proofs**, the controls: `ShutterFitsTheFrame` (strengthened by its own types
only), `LensPulledIn`, `SentAsConfigured`, `RequestsAccepted`. `LensInv` says which
three values the servers can have been sent in manual focus, until the limits change
right after a switch to manual (`slipped`): the position the panel keeps, or that
position pulled into the fallback range or into the sensor's, since the switch to
manual does not keep what it sends. This showed an assumption the code makes
silently: a focuser's least position is not above the end of the fallback range
(`lensMin <= LensFallback`, 0 and 10 dioptres in practice). If it were, the position
sent at a switch to manual before the limits are known could be left uncorrected,
because the pull-in compares with `lens_pos_`, not with what was sent
(`ControlPanel.cpp:503`). `ParamsInv` says that a field nobody edited still holds
what the file gives, cut to the field, or that brought into the widget's range by an
earlier Apply, which a second one leaves alone (`AppliedOnce`). `ExposureIsKept`: a
stack exposure survives the panel's float of milliseconds, since two roundings to
the nearest lose less than half a microsecond. Assumed of the ranges: their ends are
natural numbers, and the least values are inside.

**Only model-checked.** Every invariant and action property of the passing runs is
also a theorem, and so are the statements about functions that the `MC` modules
assume. What is left to TLC is liveness (`AbandonedIsSwept`, `CaptureEnds`,
`NobodyHangs`, `GuiStartsAll`, `GuiGetsLimits`, `EndsConnected`), since fairness is
out of the prover's reach.

## 5. Not modelled

- `gl/*` and the drawing (OpenGL and ImGui calls), `Protocol.hpp` (constants), the
  logging, `tools/lowfps_repro.cpp` (a diagnostic that drives `Client`).
- In `WebSocketClient`: `raw_stream_` and `header_only_`, which nothing in the
  repository reads back; coded errors such as `capture_timeout`; the keywords by
  which the text of an error is taken for the refusal of a capture
  (`WebSocketClient.cpp:70`); the bytes of headers and JSON.
- In `ChunkReassembler`: a chunk of size zero, whose repeat counts again
  (`ChunkReassembler.cpp:259`); the frames of the model have none.
- In `CaptureSaver`: the names of directories; two addresses that differ in
  punctuation only share one (`CaptureSaver.cpp:83`).
- In `CameraStore` the client's own fps, a count over wall time; in `StackImage`
  the gamma curve and NaN; in `ControlPanel` the readouts and the buttons that only
  send (`setHeaderOnlyAll`, `resetFrameCountsAll`); in `ConfigLoader` the text of
  the file.

See the components in `PROJECT.json`.

## 6. Plan

Done: the models of all components listed as modelled, and proofs of every safety
and action property that a passing run checks. What could follow:

1. `SavedStaysOnDisk` is false as the code is, and so is `KeyedByOwner`
   (`LostOnlyAcrossRuns` and `FiledByOwner` are what remains of them); a run number
   that the server reports, and looking up and publishing under one lock, would
   make them true, and the proofs could then drop their exceptions.
2. The parts of section 5 that change state: the coded errors of `WebSocketClient`
   and the client's own fps.
