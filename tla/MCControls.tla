----------------------------- MODULE MCControls -----------------------------
(* The control sections of the panel.  They share no state, so a behaviour *)
(* works in one of them: the other two are left as they start.             *)
EXTENDS PanelControls, SaveParams

VARIABLE section
vars == <<controlVars, paramVars, section>>

MCSensors == {[fdMin |-> 2, fdMax |-> 4, lensMin |-> 0, lensMax |-> 5],
              [fdMin |-> 0, fdMax |-> 0, lensMin |-> 8, lensMax |-> 11],
              [fdMin |-> 3, fdMax |-> 9, lensMin |-> 0, lensMax |-> 0]}
MCNoFocuser == [fdMin |-> 3, fdMax |-> 9, lensMin |-> 0, lensMax |-> 0]

MCTop == [k \in {"output_dir"} \cup Checkerboard \cup Aruco \cup CaptureKeys |->
            IF k \in {"stack_analogue_gain", "checkerboard_subpix_window"} THEN 3 ELSE 2]
MCDefault == [k \in Key |->
                CASE k = "checkerboard_subpix_window" -> Absent
                  [] k \in Guards \cup (CaptureKeys \ {"stack_num_frames"}) -> 0
                  [] k = "save_frames" -> 1
                  [] OTHER -> 2]
(* Per mode: an empty section and one that gives every key; and that one   *)
(* with one of the keys the mode uses left out, below its range or above   *)
(* it, or past an int.                                                     *)
MCYamls ==
  LET Given      == [k \in Key |-> IF k = "stack_analogue_gain" THEN 2 ELSE 1]
      File(m, f) == [k \in Key \cup {"mode"} |-> IF k = "mode" THEN m ELSE f[k]]
      Odd(m, k)  == {File(m, [Given EXCEPT ![k] = v]) : v \in {0, 4, Absent}}
  IN  {File(m, f) : m \in DetectionMode, f \in {Given, [k \in Key |-> Absent]}}
        \cup Odd("none", "output_dir") \cup Odd("none", "batch_size")
        \cup Odd("none", "stack_analogue_gain")
        \cup Odd("checkerboard", "checkerboard_subpix_window")
        \cup Odd("aruco", "aruco_num_threads")
        \cup {File("none", [Given EXCEPT !["batch_size"] = 7]),
              File("none", [Given EXCEPT !["save_frames"] = 0]), File("trigger", Given)}

(* The whole range at the coarsest spacing, in steps that meet every       *)
(* remainder, and its end.                                                 *)
ASSUME ExposuresSurvive ==
  \A us \in {8192000 + 1777 * i : i \in 0..1017} \cup 9997000..10000000 : ExposureSurvives(us)

Init == /\ ControlsInit /\ ParamsInit
        /\ section \in {"exposure", "focus", "save"}
        /\ section # "save" => yaml = CHOOSE y \in Yamls : accepts(y)
        /\ section = "exposure" => sent.lens = Released
        /\ section # "exposure" => sent.exposure = Released /\ sent.fd = Released
        /\ section = "save" => sensor = MCNoFocuser /\ sent.lens = Released

Next ==
  /\ \/ section = "exposure" /\ (ExposureStep \/ SurroundStep) /\ UNCHANGED paramVars
     \/ section = "focus" /\ (FocusStep \/ SurroundStep) /\ UNCHANGED paramVars
     \/ section = "save" /\ ParamsStep /\ UNCHANGED controlVars
  /\ UNCHANGED section

Spec == Init /\ [][Next]_vars
=============================================================================
