--------------------------- MODULE PanelControls ---------------------------
(***************************************************************************)
(* The exposure, frame-rate and focus sections of ui/ControlPanel.cpp.     *)
(* Every widget keeps a value of its own and sends it to all connected     *)
(* servers the moment it is moved; nothing is read back from them, and a   *)
(* config loaded at run time makes a new panel for cameras left as they    *)
(* are.  The limits are those of the first connected server: they arrive   *)
(* on a network thread, at any time after the widgets were first moved,    *)
(* and another server, with another sensor, may become the first.          *)
(*                                                                         *)
(* Durations and lens positions are in small units that keep the order of  *)
(* the real ones; LensStep is the 0.05 dpt the panel rounds to.            *)
(***************************************************************************)
EXTENDS Integers

CONSTANTS
  MaxUs,         \* the 1 000 000 us that end both sliders
  FdFallback,    \* the slider's shortest frame duration without limits
  ExposureInit, FdInit,   \* the values the panel starts with
  LensStep,
  LensFallback,  \* the lens range without limits, from 0 on
  Sensors,       \* what may be connected: [fdMin, fdMax, lensMin, lensMax]
  NoFocuser,     \* a sensor of Sensors that has no focuser
  MaxTyped       \* bound: a value typed into a slider, past its end

ASSUME ControlsAssumption ==
  /\ MaxUs \in Nat /\ FdFallback \in 1..MaxUs /\ MaxTyped \in Nat
  /\ ExposureInit \in 1..MaxUs /\ FdInit \in ExposureInit..MaxUs
  /\ LensStep \in Nat \ {0} /\ LensFallback \in Nat /\ LensFallback % LensStep = 0
  /\ \A s \in Sensors : /\ s.fdMin \in 0..MaxUs /\ s.fdMax \in Nat
                        /\ s.lensMin \in 0..LensFallback /\ s.lensMax \in Nat
                        /\ s.lensMin <= s.lensMax

VARIABLES
  sensor,        \* external: the sensor of the first connected server
  limits_valid,  \* fdl.valid and lpl.valid of the first connected server
  enabled,       \* whether the frame's stage is Configured or Running
  shutter,       \* auto_ae_, exposure_us_
  lock,          \* fd_locked_, fd_us_
  focus,         \* focus_manual_, lens_pos_
  sent,          \* what the servers were last sent, Released when on auto
  own,           \* what of it this panel sent, not one of an earlier config
  pulled,        \* focus was drawn since the limits, or the mode, changed
  slipped        \* the limits changed between a switch to manual, which sent
                 \* a position the panel does not keep, and the next frame

controlVars ==
  <<sensor, limits_valid, enabled, shutter, lock, focus, sent, own, pulled, slipped>>

Released    == -1
Typed       == (0 - 1)..MaxTyped
min(a, b)   == IF a <= b THEN a ELSE b
max(a, b)   == IF a >= b THEN a ELSE b
clamp(v, lo, hi) == max(lo, min(hi, v))

(* quantize: std::round to a multiple of the step (v is never negative).   *)
quantize(v) == ((2 * v + LensStep) \div (2 * LensStep)) * LensStep

-----------------------------------------------------------------------------
(* drawExposure.  The two checkboxes bring the value they are about to     *)
(* send within the other one.                                              *)
sendExposure(v) ==
  sent' = [sent EXCEPT !.exposure = v] /\ own' = own \cup {"exposure"}
sendFrameDuration(v) ==
  sent' = [sent EXCEPT !.fd = v] /\ own' = own \cup {"fd"}

cappedAtLock(us, l)   == IF l.locked /\ us > l.us THEN l.us ELSE us
raisedNever(us, s)    == us
raisedToShutter(us, s) == IF ~s.auto /\ us < s.us THEN s.us ELSE us

toggleAutoAe ==
  /\ enabled
  /\ shutter' = [auto |-> ~shutter.auto,
                 us |-> IF shutter.auto THEN cappedAtLock(shutter.us, lock) ELSE shutter.us]
  /\ sendExposure(IF shutter'.auto THEN Released ELSE shutter'.us)
  /\ UNCHANGED <<sensor, limits_valid, enabled, lock, focus, pulled, slipped>>

toggleLock ==
  /\ enabled
  /\ lock' = [locked |-> ~lock.locked,
              us |-> IF ~lock.locked THEN raisedToShutter(lock.us, shutter) ELSE lock.us]
  /\ sendFrameDuration(IF lock'.locked THEN lock'.us ELSE Released)
  /\ UNCHANGED <<sensor, limits_valid, enabled, shutter, focus, pulled, slipped>>

(* The two sliders.  The shutter is capped at the lock; the lock keeps to  *)
(* the sensor's limits and then, whatever they are, is no shorter than the *)
(* shutter.                                                                *)
exposureMax == IF lock.locked THEN min(MaxUs, max(1, lock.us)) ELSE MaxUs

moveShutter(v) ==
  /\ enabled /\ ~shutter.auto
  /\ shutter' = [shutter EXCEPT !.us = clamp(v, 1, exposureMax)]
  /\ sendExposure(shutter'.us)
  /\ UNCHANGED <<sensor, limits_valid, enabled, lock, focus, pulled, slipped>>

fdRange ==
  IF limits_valid /\ sensor.fdMax > 0
  THEN [lo |-> max(1, sensor.fdMin), hi |-> min(MaxUs, sensor.fdMax)]
  ELSE [lo |-> FdFallback, hi |-> MaxUs]

moveLock(v) ==
  /\ enabled /\ lock.locked
  /\ lock' = [lock EXCEPT !.us = raisedToShutter(clamp(v, fdRange.lo, fdRange.hi), shutter)]
  /\ sendFrameDuration(lock'.us)
  /\ UNCHANGED <<sensor, limits_valid, enabled, shutter, focus, pulled, slipped>>

-----------------------------------------------------------------------------
(* drawFocus.  Without a focuser nothing is drawn; otherwise every frame,  *)
(* also a disabled one, first pulls a manual position into the limits and  *)
(* sends it, and then takes the widget's input.  Switching to manual sends *)
(* the position within the range but keeps the panel's own as it is.       *)
sendLens(v) == sent' = [sent EXCEPT !.lens = v]
hasFocuser  == ~(limits_valid /\ sensor = NoFocuser)

lensRange ==
  IF limits_valid THEN [lo |-> sensor.lensMin, hi |-> sensor.lensMax]
  ELSE [lo |-> 0, hi |-> LensFallback]
inRange(v) == quantize(clamp(v, lensRange.lo, lensRange.hi))

pulledIn(f) ==
  IF f.manual /\ limits_valid THEN [f EXCEPT !.pos = inRange(f.pos)] ELSE f

notPushed(was)  == sent.lens
sentPulled(was) == IF pulledIn(was) # was THEN pulledIn(was).pos ELSE sent.lens

drawFocus ==
  /\ hasFocuser
  /\ focus' = pulledIn(focus)
  /\ sendLens(sentPulled(focus))
  /\ pulled' = TRUE /\ slipped' = (slipped /\ focus' = focus)
  /\ UNCHANGED <<sensor, limits_valid, enabled, shutter, lock, own>>

switchFocus ==
  /\ enabled /\ hasFocuser
  /\ focus' = [pulledIn(focus) EXCEPT !.manual = ~focus.manual]
  /\ sendLens(IF focus.manual THEN Released ELSE inRange(focus.pos))
  /\ pulled' = FALSE /\ slipped' = FALSE
  /\ UNCHANGED <<sensor, limits_valid, enabled, shutter, lock, own>>

moveLens(v) ==
  /\ enabled /\ hasFocuser /\ focus.manual
  /\ focus' = [focus EXCEPT !.pos = inRange(v)]
  /\ sendLens(inRange(v))
  /\ pulled' = TRUE /\ slipped' = FALSE
  /\ UNCHANGED <<sensor, limits_valid, enabled, shutter, lock, own>>

-----------------------------------------------------------------------------
(* The limits reply is stored, or another server, whose limits are known   *)
(* or not, becomes the first connected one; the stage changes.             *)
limitsChange ==
  /\ sensor' \in Sensors /\ limits_valid' \in BOOLEAN
  /\ pulled' = FALSE
  /\ slipped' = (slipped \/ (limits_valid /\ focus.manual /\ sent.lens # focus.pos))
  /\ UNCHANGED <<enabled, shutter, lock, focus, sent, own>>

stageChange ==
  /\ enabled' = ~enabled
  /\ UNCHANGED <<sensor, limits_valid, shutter, lock, focus, sent, own, pulled, slipped>>

FreshShutter == [auto |-> TRUE, us |-> ExposureInit]
FreshLock    == [locked |-> FALSE, us |-> FdInit]
FreshFocus   == [manual |-> FALSE, pos |-> 0]

(* App::loadPendingConfig: the panel and the clients are made anew; the    *)
(* cameras keep what the earlier panel sent.                               *)
reload ==
  /\ sensor' \in Sensors /\ limits_valid' = FALSE /\ enabled' = FALSE
  /\ shutter' = FreshShutter /\ lock' = FreshLock /\ focus' = FreshFocus
  /\ own' = {} /\ pulled' = FALSE /\ slipped' = FALSE
  /\ UNCHANGED sent

(* The servers may hold anything a panel before this one sent.             *)
LeftOver(f) == {Released} \cup (IF f = "lens" THEN 0..LensFallback ELSE 1..MaxUs)

ControlsInit ==
  /\ sensor \in Sensors /\ limits_valid = FALSE /\ enabled = FALSE
  /\ shutter = FreshShutter /\ lock = FreshLock /\ focus = FreshFocus
  /\ sent \in [exposure : LeftOver("exposure"), fd : LeftOver("fd"), lens : LeftOver("lens")]
  /\ own = {} /\ pulled = FALSE /\ slipped = FALSE

ExposureStep ==
  \/ toggleAutoAe \/ toggleLock
  \/ \E v \in Typed : moveShutter(v) \/ moveLock(v)
FocusStep ==
  \/ drawFocus \/ switchFocus
  \/ \E v \in Typed : moveLens(v)
SurroundStep == limitsChange \/ stageChange \/ reload

ControlsNext == ExposureStep \/ FocusStep \/ SurroundStep
ControlsSpec == ControlsInit /\ [][ControlsNext]_controlVars

-----------------------------------------------------------------------------
(* "when fd is locked, cap at fd so the sensor can actually deliver at the *)
(* requested cadence" (ControlPanel.cpp:434-435): in whatever order the    *)
(* two modes are switched and the two sliders moved, with whatever limits  *)
(* come and go, once a panel sent both, the servers do not hold a shutter  *)
(* longer than the frame duration they are locked to.  What the cameras    *)
(* still hold of an earlier config no panel knows of.                      *)
ShutterFitsTheFrame ==
  /\ {"exposure", "fd"} \subseteq own
  /\ sent.exposure # Released /\ sent.fd # Released
  => sent.exposure <= sent.fd

(* The panel adjusts its values on its own (capped, raised), so a value it *)
(* shows could be one it never sent: what it shows as the manual shutter   *)
(* and the lock, once moved, is what the servers were last sent.           *)
SentIsShown ==
  /\ sent.exposure = (IF shutter.auto THEN Released ELSE shutter.us) \/ "exposure" \notin own
  /\ sent.fd = (IF lock.locked THEN lock.us ELSE Released) \/ "fd" \notin own

(* "When real limits arrive and the current position falls outside the     *)
(* range, pull it back in (and push, since we're in manual)"               *)
(* (ControlPanel.cpp:499-500): once a frame was drawn with the limits      *)
(* known, of whichever server is now the first, a manual focus the servers *)
(* were sent lies in the range of its sensor, up to the rounding to the    *)
(* step, unless the limits slipped in before the frame after a switch.     *)
LensPulledIn ==
  focus.manual /\ limits_valid /\ pulled /\ ~slipped /\ sensor # NoFocuser =>
    2 * sent.lens \in (2 * sensor.lensMin - LensStep)..(2 * sensor.lensMax + LensStep)
=============================================================================
