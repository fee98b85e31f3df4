----------------------------- MODULE ClientStart -----------------------------
(***************************************************************************)
(* Client::start and Client::stop (client/Client.cpp) over the ServerLinks *)
(* of the servers: connect, discover, configure, set up, start, stream.    *)
(* Each step waits for what the network threads have stored so far and     *)
(* throws when its timeout runs out, which it may at any moment.           *)
(***************************************************************************)
EXTENDS ServerLink

VARIABLES
  pc,       \* where the call is
  lost,     \* the servers whose connection failed since the call
  settings  \* what became of the settings of steps 4 and 5 at each server

startVars == <<pc, lost, settings>>

Waiting == {"connecting", "discovering", "configuring", "starting"}
Quietly == [s \in Server |-> {}]
AskAll  == [s \in Server |-> {"state"}]

(* A command to every connected server, and getStateAll.  External: some   *)
(* servers may refuse it (no such mode, a camera that does not start).     *)
(* Bound: one reply more under way than for the panel, so that a server    *)
(* may lag behind the whole call.                                          *)
sendAll(cmd) ==
  /\ \E refusing \in SUBSET Server :
       sendCommands([s \in Server |-> IF s \in refusing THEN "none" ELSE cmd], AskAll, inbox)
  /\ Bounded(MaxMsg + 1)

(* Step 1: connectAll.                                                     *)
start ==
  /\ pc = "idle"
  /\ pc' = "connecting"
  /\ UNCHANGED <<linkVars, lost, settings>>

(* waitUntil returns: every server is connected; the roster is not empty;  *)
(* every cached state is configured or running; every one is running.      *)
someIn(states) == \E s \in Server : server_state[s] \in states
allIn(states)  == \A s \in Server : server_state[s] \in states

awaitConnected ==
  /\ pc = "connecting" /\ \A s \in Server : connected(s)
  /\ pc' = "discovering"
  /\ UNCHANGED <<linkVars, lost, settings>>

(* Step 3: configureAll, getStateAll.                                      *)
awaitDiscovery ==
  /\ pc = "discovering" /\ \E s \in Server : streaming[s] # "none"
  /\ sendAll("configure")
  /\ pc' = "configuring"
  /\ UNCHANGED <<phase, known, lost, settings>>

(* Steps 4 to 6: focus, exposure, frame duration, save mode and            *)
(* header-only, then startAllCameras and getStateAll.  A server in IDLE    *)
(* refuses the settings with an error nobody notices.                      *)
awaitConfigured ==
  /\ pc = "configuring" /\ allIn({"configured", "running"})
  /\ settings' = [s \in Server |-> CASE phase[s] # "up" -> "lost"
                                     [] srv[s].state = "idle" -> "refused"
                                     [] OTHER -> "accepted"]
  /\ sendAll("start")
  /\ pc' = "starting"
  /\ UNCHANGED <<phase, known, lost>>

(* startStream for every camera of the roster; its result is ignored.  On  *)
(* a failed connection the send may succeed all the same.                  *)
awaitRunning ==
  /\ pc = "starting" /\ allIn({"running"})
  /\ LET to == {s \in Server : connected(s) /\ streaming[s] # "none"}
     IN  /\ sendCommands([s \in Server |-> IF s \in to THEN "stream" ELSE "none"],
                         Quietly, inbox)
         /\ \E failed \in SUBSET {s \in to : phase[s] = "dead"} :
              streaming' = [s \in Server |-> IF s \in to \ failed THEN "on" ELSE streaming[s]]
  /\ pc' = "started"
  /\ UNCHANGED <<phase, server_state, region, limits, missed, lost, settings>>

timeout ==
  /\ pc \in Waiting
  /\ pc' = "failed"
  /\ UNCHANGED <<linkVars, lost, settings>>

(* stop, also after start has thrown: stopAllCameras, then disconnectAll.  *)
stop ==
  /\ pc \in {"started", "failed"}
  /\ srv' = [s \in Server |->
               [After(srv[s], IF phase[s] = "up" THEN "stop" ELSE "none")
                  EXCEPT !.streams = FALSE]]
  /\ phase' = [s \in Server |-> "down"]
  /\ inbox' = [s \in Server |-> <<>>]
  /\ pc' = "stopped"
  /\ UNCHANGED <<known, lost, settings>>

-----------------------------------------------------------------------------
StartInit(at) == pc = at /\ lost = {} /\ settings = [s \in Server |-> "unsent"]

NetworkStep(s) ==
  /\ pc \notin {"idle", "stopped"}
  /\ \/ (open(s) \/ close(s) \/ handleText(s) \/ changes(s)) /\ UNCHANGED lost
     \/ s \notin lost /\ fails(s) /\ lost' = lost \cup {s}   \* bound: once
  /\ UNCHANGED <<pc, settings>>

StartNext ==
  \/ \E s \in Server : NetworkStep(s)
  \/ start \/ awaitConnected \/ awaitDiscovery \/ awaitConfigured \/ awaitRunning
  \/ timeout \/ stop

StartSpec ==
  LinkInit /\ StartInit("idle") /\ [][StartNext]_<<linkVars, startVars>>

-----------------------------------------------------------------------------
(* "Runs the full bring-up and blocks until every configured server is     *)
(* streaming" (Client.hpp:179-180): when start has returned, every server  *)
(* whose connection held runs and streams its cameras, whatever happened   *)
(* to the others.  Step 2 waits for the first camera only: that no server  *)
(* is left out rests on its discovery arriving before its state.           *)
StartedMeansStreaming ==
  pc = "started" => \A s \in Server \ lost : srv[s].state = "running" /\ srv[s].streams

(* "These must come *after* configure - the server rejects                 *)
(* set_lens_position / set_exposure_time unless it is CONFIGURED or        *)
(* RUNNING ..., and the rejection is an async `error` reply we'd never     *)
(* notice" (Client.cpp:91-94): no server whose connection held refuses the *)
(* settings, even if it refused the configure before them.                 *)
SettingsAccepted ==
  \A s \in Server \ lost : settings[s] # "refused"
=============================================================================
