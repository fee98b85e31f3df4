------------------------------ MODULE MCPanel ------------------------------
(* The two programs that command servers: in a behaviour it is the panel   *)
(* of the GUI, or a Client that calls start and stop.                      *)
EXTENDS Panel, ClientStart

allVars == <<vars, startVars>>
Gui     == pc = "gui"

MCInit == Init /\ (StartInit("gui") \/ StartInit("idle"))

MCNext ==
  \/ Gui /\ Next /\ UNCHANGED startVars
  \/ ~Gui /\ StartNext /\ UNCHANGED <<panelVars, upsets>>

(* The fairness of Panel, for its own steps.                               *)
MCSpec == /\ MCInit /\ [][MCNext]_allVars
          /\ \A s \in Server : WF_allVars(Gui /\ NetStep(s) /\ UNCHANGED startVars)
          /\ SF_allVars(Gui /\ draw(FALSE, TRUE) /\ UNCHANGED startVars)
          /\ SF_allVars(Gui /\ advance /\ UNCHANGED startVars)

(* In the GUI, a user who goes on pressing the advance button gets all     *)
(* servers running (advance).                                              *)
GuiStartsAll  == Gui => PressingStartsAll

(* In the GUI, the limits query is retried until it is answered            *)
(* (refreshLimits).                                                        *)
GuiGetsLimits == Gui => LimitsArrive
=============================================================================
