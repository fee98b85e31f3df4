----------------------------- MODULE CameraTile -----------------------------
(***************************************************************************)
(* One tile of ui/CameraGrid.cpp, a CameraView of ui/CameraView.cpp, with  *)
(* its camera's part of data/CameraStore.cpp.  The network thread          *)
(* publishes live frames and captures at any time; each frame of the GL    *)
(* thread synchronises the tile with the streaming flag, draws the last    *)
(* capture into the FBO (capture view), takes and draws the newest live    *)
(* frame, and draws the window, for which it reads the last capture again. *)
(*                                                                         *)
(* What the code cannot see is kept beside it: which image the FBO really  *)
(* holds (of), and the FoM values in the order they were taken (fed).      *)
(***************************************************************************)
EXTENDS LiveStats

CONSTANTS
  KFom,          \* kFomHistory
  MaxFrame,      \* bound: live frames of one behaviour
  MaxSkip,       \* bound: frames lost between two that arrive
  MaxCapture,    \* bound: captures
  MaxReconnect   \* bound: reconnections

ASSUME TileAssumption ==
  /\ KFom \in Nat \ {0} /\ MaxFrame \in Nat /\ MaxSkip \in Nat
  /\ MaxCapture \in Nat /\ MaxReconnect \in Nat
  /\ (MaxSkip + 1) * Cadence < TsWidth

VARIABLES
  server,       \* external: [start, id, ts, stamps, back]: how often it was
                \* started, the id and time of its last frame, whether it stamps
                \* frames, and how often the connection came back
  slot,         \* slots_[gid]: the latest frame and its seq
  capture,      \* captures_[gid]
  capture_seq,  \* capture_seq_
  frames,       \* live frames so far
  view,         \* the CameraView
  gl,           \* where the GL thread is: [pc, capture_view, cap]
  screen        \* what the window shows

storeVars == <<server, slot, capture, capture_seq, frames, statsVars>>
vars      == <<storeVars, view, gl, screen>>

NoSlot  == [frame |-> [n |-> 0], seq |-> 0]
None    == [seq |-> 0, pixels |-> "none"]
Closed  == [open |-> FALSE]
Idle    == [pc |-> "idle", capture_view |-> FALSE, cap |-> None]
Nothing == [kind |-> "none", pixels |-> <<>>, overlay |-> <<>>, curve |-> <<>>]

NewView ==
  [open |-> TRUE, seen_seq |-> 0, n |-> 0, header_only |-> FALSE,
   fbo_content |-> "None", of |-> <<>>, capture_seq_shown |-> 0,
   fom_hist |-> [i \in 0..(KFom - 1) |-> 0], fom_len |-> 0, fom_head |-> 0, fed |-> <<>>]

-----------------------------------------------------------------------------
(* The network thread.  A frame is known by its number n; its FoM value,   *)
(* when it has one, is n, too.  Bound: frames get lost only where it can   *)
(* matter, on the way from a server that stamps them, and a header-only    *)
(* frame has a FoM value.                                                  *)
publishFrame(skip, header_only, has_fom) ==
  /\ frames < MaxFrame
  /\ skip = 0 \/ server.stamps
  /\ has_fom \/ ~header_only
  /\ LET id == server.id + skip + 1
         ts == server.ts + (skip + 1) * Cadence
         f  == [n |-> frames + 1, id |-> id, ts |-> IF server.stamps THEN ts ELSE 0,
                fdur |-> Cadence, header_only |-> header_only,
                focus_fom |-> IF has_fom THEN frames + 1 ELSE -1]
     IN  /\ server' = [server EXCEPT !.id = id, !.ts = ts]
         /\ slot' = [frame |-> f, seq |-> slot.seq + 1]
         /\ updateStats(f, server.start)
  /\ frames' = frames + 1
  /\ UNCHANGED <<capture, capture_seq, view, gl, screen>>

(* A capture has its pixels, none (header-only), or too few of them.       *)
publishCapture(pixels) ==
  /\ capture_seq < MaxCapture
  /\ capture_seq' = capture_seq + 1
  /\ capture' = [seq |-> capture_seq + 1, pixels |-> pixels]
  /\ UNCHANGED <<server, slot, frames, statsVars, view, gl, screen>>

(* The connection comes back and the discovery rebuilds the roster, which  *)
(* forgets slots and captures but not the stats.  Meanwhile the server may *)
(* have been started again, on a clock that went on or began anew.         *)
Restarted(v) == [v EXCEPT !.start = @ + 1, !.id = 0, !.ts = @ + 3 * Cadence]
Rebooted(v)  == [v EXCEPT !.start = @ + 1, !.id = 0, !.ts = 1]

rediscover ==
  /\ server.back < MaxReconnect
  /\ \E v \in {server, Restarted(server), Rebooted(server)} :
       server' = [v EXCEPT !.back = @ + 1]
  /\ slot' = NoSlot /\ capture' = None
  /\ UNCHANGED <<capture_seq, frames, statsVars, view, gl, screen>>

-----------------------------------------------------------------------------
(* CameraGrid::sync: only a streaming camera has a view.  The panel, drawn *)
(* before, has set the flag and the option.  A new frame begins empty.     *)
sync(streaming, capture_view) ==
  /\ gl.pc = "idle"
  /\ view' = IF ~streaming THEN Closed ELSE IF view.open THEN view ELSE NewView
  /\ gl' = IF streaming
           THEN [Idle EXCEPT !.pc = "capture", !.capture_view = capture_view]
           ELSE Idle
  /\ screen' = Nothing
  /\ UNCHANGED storeVars

(* uploadIfNew, first part: in capture view, the last capture if it has    *)
(* pixels and is not in the FBO yet.  renderCapture gives up on a capture  *)
(* with too few.                                                           *)
shows(cap) == gl.capture_view /\ cap.pixels \in {"image", "short"}

inFboAny(cap) == view.fbo_content = "Capture"
inFbo(cap)    == view.fbo_content = "Capture" /\ view.capture_seq_shown = cap.seq

uploadCapture ==
  /\ gl.pc = "capture"
  /\ view' = IF shows(capture) /\ ~inFbo(capture) /\ capture.pixels = "image"
             THEN [view EXCEPT !.fbo_content = "Capture", !.of = <<"capture", capture.seq>>,
                               !.capture_seq_shown = capture.seq]
             ELSE view
  /\ gl' = [gl EXCEPT !.pc = "live", !.cap = capture]
  /\ UNCHANGED <<storeVars, screen>>

(* Second part: the newest live frame, its readouts in any case, its       *)
(* pixels unless it has none or the still must stay.                       *)
fomPushed(v, f) ==
  IF f.focus_fom < 0 THEN v
  ELSE [v EXCEPT !.fom_hist[v.fom_head] = f.focus_fom,
                 !.fom_head = (v.fom_head + 1) % KFom,
                 !.fom_len = IF v.fom_len < KFom THEN @ + 1 ELSE @,
                 !.fed = IF Len(@) < KFom THEN Append(@, f.focus_fom)
                         ELSE Append(Tail(@), f.focus_fom)]

keepsNoPixels(f) == f.header_only
keepsFbo(f) == f.header_only \/ (shows(gl.cap) /\ view.fbo_content = "Capture")

uploadLive ==
  /\ gl.pc = "live"
  /\ LET f == slot.frame
         v == [fomPushed(view, f) EXCEPT !.seen_seq = slot.seq, !.n = f.n,
                                         !.header_only = f.header_only]
     IN  view' = IF slot = NoSlot \/ slot.seq = view.seen_seq THEN view
                 ELSE IF keepsFbo(f) THEN v
                 ELSE [v EXCEPT !.fbo_content = "Live", !.of = <<"live", f.n>>]
  /\ gl' = [gl EXCEPT !.pc = "draw"]
  /\ UNCHANGED <<storeVars, screen>>

(* The FoM curve from its oldest value on.                                 *)
oldestAlways == view.fom_head
oldest == IF view.fom_len < KFom THEN 0 ELSE view.fom_head
curve  == [i \in 1..view.fom_len |-> view.fom_hist[(oldest + i - 1) % KFom]]

(* drawWindow: the capture with its own detections and its badge, the live *)
(* frame with those of the last readouts, or only a table of readouts.     *)
noLiveImage == view.header_only \/ view.fbo_content # "Live"

drawWindow ==
  /\ gl.pc = "draw"
  /\ LET showing_capture == gl.capture_view /\ capture # None /\ inFbo(capture)
     IN  screen' =
           IF showing_capture
           THEN [kind |-> "image", pixels |-> view.of, overlay |-> <<"capture", capture.seq>>,
                 curve |-> <<>>]
           ELSE IF noLiveImage
           THEN [kind |-> "table", pixels |-> <<>>, overlay |-> <<>>, curve |-> curve]
           ELSE [kind |-> "image", pixels |-> view.of, overlay |-> <<"live", view.n>>,
                 curve |-> curve]
  /\ gl' = Idle
  /\ UNCHANGED <<storeVars, view>>

-----------------------------------------------------------------------------
Init ==
  /\ server \in [start : {1}, id : {0}, ts : {1}, back : {0}, stamps : BOOLEAN]
  /\ slot = NoSlot /\ capture = None /\ capture_seq = 0 /\ frames = 0
  /\ StatsInit
  /\ view = Closed /\ gl = Idle /\ screen = Nothing

GlStep == uploadCapture \/ uploadLive \/ drawWindow

Next ==
  \/ \E skip \in 0..MaxSkip, header_only, has_fom \in BOOLEAN :
       publishFrame(skip, header_only, has_fom)
  \/ \E pixels \in {"image", "none", "short"} : publishCapture(pixels)
  \/ rediscover
  \/ \E streaming, capture_view \in BOOLEAN : sync(streaming, capture_view)
  \/ GlStep

Spec == Init /\ [][Next]_vars

-----------------------------------------------------------------------------
(* Types.                                                                  *)
TypeOK ==
  /\ slot.seq \in 0..MaxFrame /\ capture_seq \in 0..MaxCapture /\ frames \in 0..MaxFrame
  /\ gl.pc \in {"idle", "capture", "live", "draw"} /\ gl.capture_view \in BOOLEAN
  /\ view.open \/ gl.pc = "idle"
  /\ view.open => /\ view.fbo_content \in {"None", "Live", "Capture"}
                  /\ view.fom_len \in 0..KFom /\ view.fom_head \in 0..(KFom - 1)
  /\ origin.run \in 0..Window /\ Len(stats.durations) <= Window

(* What is drawn over an image belongs to it: the badge and corners of a   *)
(* capture over its own pixels, a live frame's corners over that frame's,  *)
(* though live frames keep moving the readouts while a still is shown and  *)
(* captures arrive between the upload and the draw.                        *)
OverlayBelongsToTheImage == screen.kind = "image" => screen.overlay = screen.pixels

(* In capture view "the tile shows the last capture, if it has pixels"     *)
(* (CameraView.cpp:132), and "live pixels must not overwrite it" (:166):   *)
(* a capture that does not change while a frame is drawn is what it shows. *)
StillIsShown ==
  [][(/\ gl.pc = "draw" /\ gl'.pc = "idle"
      /\ gl.capture_view /\ gl.cap.pixels = "image" /\ gl.cap = capture)
       => screen'.overlay = <<"capture", capture.seq>>]_vars

(* "The kFomHistory most recent FoM values (frames without one are         *)
(* skipped)", oldest first (CameraView.hpp:102-104), before and after the  *)
(* ring is full.                                                           *)
CurveIsTheLastValues == screen.curve # <<>> => screen.curve = view.fed
=============================================================================
