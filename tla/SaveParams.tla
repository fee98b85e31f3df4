----------------------------- MODULE SaveParams -----------------------------
(***************************************************************************)
(* The way of a parameter from the YAML file to a server: loadFromFile of  *)
(* config/ConfigLoader.cpp, the fields ui/ControlPanel.cpp seeds from it,  *)
(* edits and sends with Apply, Trigger and Stack, and the same parameters  *)
(* as client/Client.cpp sends them.  One key stands for all those that are *)
(* treated alike (batch_size for writer_threads; output_dir for            *)
(* prepend_timestamp_to_dir, of which nothing is cut; backlog_max_bytes    *)
(* for the other resource guards; trigger_skip_frames for                  *)
(* stack_skip_frames, which is sent when 0 as well; checkerboard_rows and  *)
(* aruco_num_threads for the other keys of their detector, the flags among *)
(* which have no range).  A flag is 0 or 1, and a directory its length: it *)
(* is only ever cut.                                                       *)
(***************************************************************************)
EXTENDS Integers, FiniteSets

CONSTANTS
  Yamls,     \* the files: [mode, and a value or Absent for every key]
  Default,   \* FrameSavingCfg's own value of every key
  Top,       \* the upper end of a key's range, where it has one
  Absent,
  IntSpan,   \* the number of values of an int, 2^32
  SubpixDefault,  \* the panel's value for a subpix window the file leaves out
  MaxEntry,  \* bound: values typed into a field
  MaxEdits   \* bound: fields edited after a load

Checkerboard == {"checkerboard_rows", "checkerboard_subpix_window"}
Aruco        == {"aruco_num_threads"}
Writing      == {"output_dir", "batch_size"}
SaveKeys     == {"save_frames"} \cup Writing \cup Checkerboard \cup Aruco
Guards       == {"backlog_max_bytes"}
CaptureKeys  == {"trigger_skip_frames", "stack_num_frames",
                 "stack_exposure_time", "stack_analogue_gain"}
Key          == SaveKeys \cup Guards \cup CaptureKeys
DetectionMode == {"none", "checkerboard", "aruco"}
Field        == SaveKeys \cup CaptureKeys \cup {"mode"}  \* of the panel

ASSUME ParamsAssumption ==
  /\ \A y \in Yamls : /\ DOMAIN y = Key \cup {"mode"}
                      /\ y["save_frames"] \in {0, 1, Absent}
  /\ Default["save_frames"] \in {0, 1}
  /\ \A k \in Key \ {"checkerboard_subpix_window"} : Default[k] \in Nat
  /\ Default["checkerboard_subpix_window"] = Absent
  /\ SubpixDefault \in 0..Top["checkerboard_subpix_window"]
  /\ \A k \in CaptureKeys \cup Aruco \cup {"output_dir", "checkerboard_subpix_window"} :
       Top[k] \in Nat
  /\ Top["stack_num_frames"] >= 1 /\ Top["stack_analogue_gain"] >= 2
  /\ IntSpan \in Nat \ {0} /\ MaxEntry \in Nat /\ MaxEdits \in Nat

VARIABLES
  yaml,    \* the file of the session
  cfg,     \* cfg.saving: what the loader made of it
  panel,   \* the panel's fields, and the mode selected
  edited,  \* the fields the user changed since the load
  params,  \* set_process_mode, when it was the last command sent
  request  \* trigger_capture or stack_capture, when it was the last one

paramVars == <<yaml, cfg, panel, edited, params, request>>

Entry       == (0 - 1)..MaxEntry
atLeast(lo, v)   == IF v < lo THEN lo ELSE v
atMost(hi, v)    == IF v > hi THEN hi ELSE v
between(lo, hi, v) == atLeast(lo, atMost(hi, v))

(* The keys a mode uses: the others are not sent with it.                  *)
keysOf(mode) ==
  {"save_frames"} \cup Writing \cup Guards
    \cup (IF mode = "checkerboard" THEN Checkerboard ELSE {})
    \cup (IF mode = "aruco" THEN Aruco ELSE {})

-----------------------------------------------------------------------------
(* loadFromFile: an unknown mode, and a value out of its range where there *)
(* is one, refuse the file.  The keys of a detector are only read, and     *)
(* checked, when the file's own mode is that detector.                     *)
bottom(k) == IF k = "stack_num_frames" THEN 1 ELSE 0
allowed(k, v) ==
  CASE k = "stack_analogue_gain" -> v = 0 \/ v \in 2..Top[k]
    [] k \in CaptureKeys \cup {"checkerboard_subpix_window"} -> v \in bottom(k)..Top[k]
    [] OTHER -> TRUE

reads(y, k) == y[k] # Absent /\ (k \in keysOf(y.mode) \/ k \in CaptureKeys)
accepts(y)  == y.mode \in DetectionMode /\ \A k \in Key : reads(y, k) => allowed(k, y[k])
loaded(y)   == [k \in Key |-> IF reads(y, k) THEN y[k] ELSE Default[k]]

(* ControlPanel::ControlPanel: a panel of its own for every session.  Its  *)
(* field for the directory ends at 255 characters (strncpy), those for     *)
(* counts are ints (static_cast from std::size_t), and an unset subpix     *)
(* window leaves the panel at the server's default.                        *)
asInt(v) == IF v % IntSpan < IntSpan \div 2 THEN v % IntSpan ELSE (v % IntSpan) - IntSpan
inField(f, v) ==
  CASE f = "output_dir" -> atMost(Top[f], v)
    [] f = "batch_size" -> asInt(v)
    [] OTHER            -> v

fieldsOf(y, c) ==
  [f \in Field |->
     CASE f = "mode" -> y.mode
       [] f = "checkerboard_subpix_window" /\ c[f] = Absent -> SubpixDefault
       [] OTHER -> inField(f, c[f])]
keepsFields(y, c) == panel
seeded(y, c)      == fieldsOf(y, c)

NoParams  == [mode |-> "", by |-> "", of |-> [k \in {} |-> 0]]
NoRequest == [k \in {} |-> 0]

load(y) ==
  /\ accepts(y)
  /\ yaml' = y /\ cfg' = loaded(y)
  /\ panel' = seeded(y, cfg')
  /\ edited' = {} /\ params' = NoParams /\ request' = NoRequest

-----------------------------------------------------------------------------
(* drawSaveMode: only the keys of the selected mode have a widget, those   *)
(* of writing only an enabled one while frames are saved, and what is      *)
(* typed stays as it is until Apply brings it into its range and sends the *)
(* mode with its keys (buildSaveParams).  The guards have no widget and    *)
(* come from the config.                                                   *)
selectMode(m) ==
  /\ panel' = [panel EXCEPT !["mode"] = m]
  /\ UNCHANGED <<yaml, cfg, edited, params, request>>

change(k, v) ==
  /\ Cardinality(edited \cup {k}) <= MaxEdits
  /\ edited' = edited \cup {k}
  /\ panel' = [panel EXCEPT ![k] = v]
  /\ UNCHANGED <<yaml, cfg, params, request>>

widget(k) == CASE k = "save_frames" -> {0, 1}
               [] k = "output_dir"  -> Entry \cap (0..Top[k])
               [] OTHER             -> Entry

editSave(k, v) ==
  /\ k \in keysOf(panel.mode) \ Guards /\ v \in widget(k)
  /\ k \in Writing => panel["save_frames"] = 1
  /\ change(k, v)

applied(f, v) ==
  CASE f \in {"batch_size", "checkerboard_rows"} -> atLeast(1, v)
    [] f = "aruco_num_threads"                   -> between(1, Top[f], v)
    [] f = "checkerboard_subpix_window"          -> between(0, Top[f], v)
    [] OTHER                                     -> v

buildSaveParams(p) ==
  [k \in keysOf(p.mode) |-> IF k \in Guards THEN cfg[k] ELSE p[k]]

apply ==
  /\ panel' = [f \in Field |-> applied(f, panel[f])]
  /\ params' = [mode |-> panel.mode, by |-> "panel", of |-> buildSaveParams(panel')]
  /\ request' = NoRequest
  /\ UNCHANGED <<yaml, cfg, edited>>

(* Client::start, step 5: savingParamsFromConfig for the mode the caller   *)
(* wants, which leaves an unset subpix window out; ClientOptions'          *)
(* save_frames and aruco options replace the config's.                     *)
savingParamsFromConfig(mode) ==
  [k \in {j \in keysOf(mode) : cfg[j] # Absent} |-> cfg[k]]

ByCaller == {"save_frames"} \cup Aruco

clientStart(mode, save, threads) ==
  /\ LET p == savingParamsFromConfig(mode)
     IN  params' = [mode |-> mode, by |-> "client",
                    of |-> [k \in DOMAIN p |-> CASE k = "save_frames" -> save
                                                [] k \in Aruco       -> threads
                                                [] OTHER             -> p[k]]]
  /\ request' = NoRequest
  /\ UNCHANGED <<yaml, cfg, panel, edited>>

-----------------------------------------------------------------------------
(* drawCapture and drawStack: what is typed is brought into range at once. *)
entered(k, v) ==
  IF k = "stack_analogue_gain" THEN IF v <= 0 THEN 0 ELSE between(2, Top[k], v)
  ELSE between(bottom(k), Top[k], v)

editCapture(k, v) == change(k, entered(k, v))

(* triggerCapture and stackCapture of WebSocketClient: v is what the panel *)
(* or the caller of Client asks for.  A value of 0 or less leaves the key  *)
(* out; Absent in a request is a key left out.                             *)
asAsked(k, v) == v
clamped(k, v) ==
  CASE k = "stack_num_frames" -> between(1, Top[k], v)
    [] v <= 0                 -> Absent
    [] k = "stack_analogue_gain" -> between(2, Top[k], v)
    [] OTHER                  -> atMost(Top[k], v)

requestFrom(asked) ==
  /\ request' = [k \in CaptureKeys |-> clamped(k, asked[k])]
  /\ params' = NoParams
  /\ UNCHANGED <<yaml, cfg, panel, edited>>

panelCapture == requestFrom([k \in CaptureKeys |-> panel[k]])

(* Client::triggerCapture and stackCapture: an option or, without one, the *)
(* config's value.  Bound: at most one option is given.                    *)
clientCapture(k, v) == requestFrom([[j \in CaptureKeys |-> cfg[j]] EXCEPT ![k] = v])

-----------------------------------------------------------------------------
(* The panel's float of milliseconds (drawStack and the constructor) and   *)
(* the microseconds it goes back to, at the coarsest spacing a float has   *)
(* up to 10000 ms: 1/1024 ms.                                              *)
rescaled(v, from, to) == (v \div from) * to + (2 * (v % from) * to + from) \div (2 * from)
toMs(us) == rescaled(us, 1000, 1024)   \* the nearest float, in 1/1024 ms
toUs(ms) == rescaled(ms, 1024, 1000)   \* std::lround(ms * 1000)

(* A stack exposure of the config survives its way through the panel.      *)
ExposureSurvives(us) == toUs(toMs(us)) = us

-----------------------------------------------------------------------------
ParamsInit ==
  /\ yaml \in {y \in Yamls : accepts(y)}
  /\ cfg = loaded(yaml)
  /\ panel = fieldsOf(yaml, cfg)
  /\ edited = {} /\ params = NoParams /\ request = NoRequest

ParamsStep ==
  \/ \E y \in Yamls : load(y)
  \/ \E m \in DetectionMode : selectMode(m)
  \/ \E v \in Entry : \/ \E k \in SaveKeys : editSave(k, v)
                      \/ \E k \in CaptureKeys : editCapture(k, v) \/ clientCapture(k, v)
  \/ apply
  \/ \E m \in DetectionMode, save \in {0, 1}, n \in 1..Top["aruco_num_threads"] :
       clientStart(m, save, n)
  \/ panelCapture

ParamsSpec == ParamsInit /\ [][ParamsStep]_paramVars

-----------------------------------------------------------------------------
(* "so hitting Apply cannot silently reset them" (ControlPanel.cpp:826):   *)
(* after any reloads, mode switches, edits and earlier Applies, a key the  *)
(* file gives for its mode and nobody edited is sent as the file gives it, *)
(* by the panel as by Client.  But the caller of Client decides about      *)
(* save_frames and the detection of markers, and what the panel sends is   *)
(* cut to what its field holds (a directory to 255 characters, a count to  *)
(* an int) and then brought into the range of its widget.                  *)
fieldGives(k, v) == applied(k, inField(k, v))

SentAsConfigured ==
  \A k \in DOMAIN params.of :
    reads(yaml, k) /\ k \notin edited =>
      IF params.by = "panel" THEN params.of[k] = fieldGives(k, yaml[k])
      ELSE k \notin ByCaller => params.of[k] = yaml[k]

(* "Clamped to the server's accepted range, so an out-of-range value       *)
(* cannot turn into a refusal" (WebSocketClient.cpp:472-473): whatever the *)
(* file holds, the user types or a caller asks for.                        *)
RequestsAccepted ==
  \A k \in DOMAIN request : request[k] # Absent =>
    IF k = "stack_analogue_gain" THEN request[k] \in 2..Top[k]
    ELSE request[k] \in bottom(k)..Top[k]
=============================================================================
