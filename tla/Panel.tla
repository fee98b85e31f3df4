------------------------------- MODULE Panel -------------------------------
(***************************************************************************)
(* The pipeline of ui/ControlPanel.cpp over several ServerLinks: each      *)
(* frame computes the stage all servers have reached, queries the limits   *)
(* on entering Configured, polls get_state on a timer, and offers the      *)
(* buttons of that stage.  A press acts on the stage its frame computed,   *)
(* which the network threads may have made stale meanwhile.                *)
(***************************************************************************)
EXTENDS ServerLink

CONSTANT MaxUpset  \* bound: failures, retreats and streams switched off

ASSUME PanelAssumption == MaxUpset \in Nat

VARIABLES
  stage,           \* Agg.stage of the frame being drawn, "None" once pressed
  in_config_prev,  \* in_config_prev_
  upsets           \* how many of them there were so far

panelVars == <<stage, in_config_prev>>
vars      == <<linkVars, panelVars, upsets>>

Connected == {s \in Server : connected(s)}
InConfig  == {"Configured", "Running"}
upset     == upsets < MaxUpset /\ upsets' = upsets + 1

(* The least advanced of a set of server states; none is Connected.        *)
mostAdvanced(states) ==
  IF "running" \in states THEN "Running"
  ELSE IF "configured" \in states THEN "Configured" ELSE "Connected"
leastAdvanced(states) ==
  IF states = {} \/ "idle" \in states THEN "Connected"
  ELSE IF "configured" \in states THEN "Configured" ELSE "Running"

computeAgg ==
  IF Connected = {} THEN "None"
  ELSE leastAdvanced({server_state[s] : s \in Connected} \ {""})

firstConnected(s) == s \in Connected /\ \A t \in Connected : s <= t

(* refreshLimits: on entering a configured stage, and again, on a timer,   *)
(* while the first connected server's limits are not known.                *)
needOnEntry(st, retry) == st \in InConfig /\ ~in_config_prev
need(st, retry) ==
  st \in InConfig
    /\ (~in_config_prev \/ (retry /\ \E s \in Server : firstConnected(s) /\ ~limits[s]))

(* draw: poll and retry say whether the two timers have run out (bound:    *)
(* they do so only while no reply is under way).                           *)
Quiet == \A s \in Server : inbox[s] = <<>>

draw(poll, retry) ==
  /\ poll \/ retry => Quiet
  /\ stage' = computeAgg
  /\ in_config_prev' = (stage' \in InConfig)
  /\ sendCommands(NoCommand,
                  [s \in Server |->
                     {q \in {"state", "limits"} :
                        \/ q = "state" /\ poll
                        \/ q = "limits" /\ need(stage', retry) /\ firstConnected(s)}],
                  inbox)
  /\ Bounded(MaxMsg)
  /\ UNCHANGED <<phase, known, upsets>>

-----------------------------------------------------------------------------
(* A button: its command to every server, or to those of to, and then      *)
(* get_state to all.                                                       *)
press(cmd, to) ==
  /\ sendCommands([s \in Server |-> IF s \in to THEN cmd ELSE "none"],
                  [s \in Server |-> {"state"}], inbox)
  /\ Bounded(MaxMsg)
  /\ stage' = "None"
  /\ UNCHANGED <<phase, server_state, region, limits, missed, in_config_prev>>

(* startStream and stopStream flag the camera if the command was sent; on  *)
(* a connection that has failed, sending may or may not succeed.           *)
flagAs(flag, to) ==
  \E lost \in SUBSET {s \in to : phase[s] = "dead"} :
    streaming' = [s \in Server |-> IF s \in to \ lost THEN flag ELSE streaming[s]]

advance ==
  /\ \/ /\ stage = "Connected" /\ press("configure", Server)
        /\ UNCHANGED streaming
     \/ /\ stage = "Configured" /\ press("start", Server)
        /\ UNCHANGED streaming
     \/ /\ stage = "Running" /\ \E s \in Server : streaming[s] = "off"
        /\ LET off == {s \in Connected : streaming[s] = "off"}
           IN  press("stream", off) /\ flagAs("on", off)
  /\ UNCHANGED upsets

(* retreat: only stop_cameras ends the streams, and their flags with them. *)
clearedAlways(st) == [s \in Server |-> IF streaming[s] = "on" THEN "off" ELSE streaming[s]]
streamingAfterRetreat(st) ==
  [s \in Server |-> IF st = "Running" /\ streaming[s] = "on" THEN "off" ELSE streaming[s]]

retreat ==
  /\ upset
  /\ streaming' = streamingAfterRetreat(stage)
  /\ \/ stage = "Running" /\ press("stop", Server)
     \/ stage = "Configured" /\ press("unconfigure", Server)

(* drawCameras: the checkbox of one camera.  No get_state follows.         *)
toggle(s) ==
  /\ stage = "Running" /\ connected(s)
  /\ \E on \in BOOLEAN :
       /\ streaming[s] = IF on THEN "off" ELSE "on"
       /\ sendCommands([NoCommand EXCEPT ![s] = IF on THEN "stream" ELSE "unstream"],
                       [t \in Server |-> {}], inbox)
       /\ Bounded(MaxMsg)
       /\ flagAs(IF on THEN "on" ELSE "off", {s})
       /\ IF on THEN UNCHANGED upsets ELSE upset
  /\ stage' = "None"
  /\ UNCHANGED <<phase, server_state, region, limits, missed, in_config_prev>>

-----------------------------------------------------------------------------
Init == LinkInit /\ stage = "None" /\ in_config_prev = FALSE /\ upsets = 0

NetStep(s) ==
  (open(s) \/ close(s) \/ handleText(s)) /\ UNCHANGED <<panelVars, upsets>>

Next ==
  \/ \E s \in Server :
       \/ NetStep(s)
       \/ upset /\ fails(s) /\ UNCHANGED panelVars
       \/ changes(s) /\ UNCHANGED <<panelVars, upsets>>
  \/ \E poll, retry \in BOOLEAN : draw(poll, retry)
  \/ advance
  \/ retreat
  \/ \E s \in Server : toggle(s)

Spec == Init /\ [][Next]_vars

(* The network threads run and ixwebsocket reconnects, frames are drawn    *)
(* with the retry timer run out, and the user goes on pressing.  The last  *)
(* two are strong only because of the bounds on the replies under way,     *)
(* which keep disabling what the program could do at any time.             *)
FairSpec == /\ Spec
            /\ \A s \in Server : WF_vars(NetStep(s))
            /\ SF_vars(draw(FALSE, TRUE))
            /\ SF_vars(advance)

-----------------------------------------------------------------------------
(* Types.                                                                  *)
TypeOK ==
  /\ LinkTypeOK
  /\ stage \in {"None", "Connected", "Configured", "Running"}
  /\ in_config_prev \in BOOLEAN /\ upsets \in 0..MaxUpset

Settled == \A s \in Server : phase[s] # "dead" /\ inbox[s] = <<>>

(* "a stage holds only if every known-state server is at least there"      *)
(* (ControlPanel.cpp:120): with no reply under way, the stage the next     *)
(* frame shows is that of the least advanced connected server, whatever    *)
(* connections were lost, servers restarted and commands refused before.   *)
StageIsTheMinimum ==
  Settled /\ Connected # {} => computeAgg = leastAdvanced({srv[s].state : s \in Connected})

(* "forget it in IDLE, and fetch it when we find the server configured     *)
(* without knowing it (e.g. after a reconnect, or when another client did  *)
(* the configuring)" (WebSocketClient.cpp:277-279): with no reply under    *)
(* way, the region stamped on the frames is the one of the server's mode,  *)
(* also when another commander has configured it.  The one exception is a  *)
(* gap of the code: a region known when the connection came up to a server *)
(* configured in another mode is kept, until the next IDLE or region.      *)
RegionIsCurrent ==
  Settled => \A s \in Connected :
               IF srv[s].state = "idle" THEN region[s] = 0
                                        ELSE missed[s] \/ region[s] = srv[s].mode

(* A server that streams has its camera flagged as streaming, so that the  *)
(* panel shows it live and offers to stop it: also when another server     *)
(* holds the pipeline back at an earlier stage (ControlPanel.cpp:331-340). *)
NoHiddenStream == \A s \in Server : srv[s].streams => streaming[s] = "on"

(* However the servers start out and whatever happened to them, a user who *)
(* goes on pressing the advance button gets all of them running.           *)
PressingStartsAll == <>[](\A s \in Server : srv[s].state = "running" /\ computeAgg = "Running")

(* The limits query is retried until it is answered, also when it went to  *)
(* another server or failed ("retry on a timer until a valid reply lands", *)
(* ControlPanel.cpp:137).                                                  *)
LimitsArrive == <>limits[1]
=============================================================================
