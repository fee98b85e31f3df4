----------------------------- MODULE ServerLink -----------------------------
(***************************************************************************)
(* The lifecycle side of net/WebSocketClient.cpp: what a connection knows  *)
(* of its server's state, FocusFoM region, limits and streams, and the     *)
(* commands of net/MultiServerManager.cpp that go to every connected       *)
(* server.  The set-up commands without an effect on these (save mode,     *)
(* header-only, exposure, lens) are in PanelControls and SaveParams.       *)
(*                                                                         *)
(* External: the server, as the e2e lifecycle tests use it.  It accepts    *)
(* configure when idle, unconfigure when configured, start_cameras when    *)
(* configured, stop_cameras and start_stream when running, stop_stream at  *)
(* any time, and answers others with an error, which changes nothing here. *)
(* A disconnect ends its streams and leaves its state as it is.  Nothing   *)
(* here sees how long a command takes to get there, so it takes effect     *)
(* when it is sent and only the replies are under way; a failed connection *)
(* loses both.                                                             *)
(***************************************************************************)
EXTENDS Integers, Sequences

CONSTANTS
  NServer,   \* servers are 1..NServer, by index; each has one camera
  Shared,    \* the servers that another commander configures, too
  MaxMsg     \* bound: replies under way from one server

ASSUME LinkAssumption ==
  NServer \in Nat \ {0} /\ Shared \in SUBSET (1..NServer) /\ MaxMsg \in Nat

VARIABLES
  phase,         \* "down", "up", or "dead": failed, but Close not handled yet
  server_state,  \* server_state_, "" before the first state message
  region,        \* focus_fom_region_: the mode it belongs to, 0 when not valid
  limits,        \* the frame-duration and lens limits are valid
  streaming,     \* CameraInfo::streaming, "none" before the discovery
  srv,           \* external: the server's state, mode, and whether it streams
  inbox,         \* replies under way
  missed         \* history: Open found the server configured in another mode
                 \* than the one of the region known, and it is known still

known    == <<server_state, region, limits, streaming, missed>>
linkVars == <<phase, known, srv, inbox>>

Server       == 1..NServer
State        == {"idle", "configured", "running"}
Ours         == 1          \* the mode of our config
Theirs       == 2          \* that of another commander's
Mode         == {Ours, Theirs}
connected(s) == phase[s] # "down"

-----------------------------------------------------------------------------
(* External: what a command does to the server v, and what it answers.  A  *)
(* transition may be pushed as a state message before the status reply (a  *)
(* push after it only repeats the answer to the get_state that follows).   *)
(* "none" is no command.                                                   *)

After(v, cmd) ==
  CASE cmd = "configure" /\ v.state = "idle"
         -> [v EXCEPT !.state = "configured", !.mode = Ours]
    [] cmd = "unconfigure" /\ v.state = "configured"
         -> [v EXCEPT !.state = "idle", !.mode = Ours]
    [] cmd = "start" /\ v.state = "configured"       -> [v EXCEPT !.state = "running"]
    [] cmd = "stop" /\ v.state = "running"
         -> [v EXCEPT !.state = "configured", !.streams = FALSE]
    [] cmd = "stream" /\ v.state = "running"         -> [v EXCEPT !.streams = TRUE]
    [] cmd = "unstream"                              -> [v EXCEPT !.streams = FALSE]
    [] OTHER                                         -> v

StateOf(v)  == [type |-> "state", state |-> v.state, mode |-> 0]
RegionOf(v) == [type |-> "region", state |-> "", mode |-> v.mode]
StatusOf(v) == [type |-> "status", state |-> "", mode |-> v.mode]
Limits      == [type |-> "limits", state |-> "", mode |-> 0]
Discovery   == [type |-> "discovery", state |-> "", mode |-> 0]
If(c, m)    == IF c THEN <<m>> ELSE <<>>

Replies(v, cmd, asks, push) ==
  LET w     == After(v, cmd)
      moved == w.state # v.state
      cfg   == w.state # "idle"
  IN  If(moved /\ push, StateOf(w))
        \o If(moved /\ cmd = "configure", StatusOf(w))
        \o If("state" \in asks, StateOf(w))
        \o If("region" \in asks /\ cfg, RegionOf(w))
        \o If("limits" \in asks /\ cfg, Limits)

(* sendCommand of cmd[s] and then of the queries asks[s], to every server  *)
(* s: those to a server that is not connected are dropped, those on a      *)
(* failed connection lost.  The replies follow those already under way.    *)
sendCommands(cmd, asks, underWay) ==
  \E push \in BOOLEAN :
    /\ push => \E s \in Server : After(srv[s], cmd[s]) # srv[s]
    /\ srv' = [s \in Server |-> IF phase[s] = "up" THEN After(srv[s], cmd[s]) ELSE srv[s]]
    /\ inbox' = [s \in Server |->
                   underWay[s] \o IF phase[s] = "up"
                                  THEN Replies(srv[s], cmd[s], asks[s], push) ELSE <<>>]

(* The bound on the replies under way, for those who command.              *)
Bounded(most) == \A s \in Server : Len(inbox'[s]) <= most

NoCommand == [s \in Server |-> "none"]

-----------------------------------------------------------------------------
(* Open: the client discovers and asks for the state at once.              *)
openWithoutState(s) == <<Discovery>>
openStateFirst(s)   == <<StateOf(srv[s]), Discovery>>
repliesToOpen(s)    == <<Discovery, StateOf(srv[s])>>

open(s) ==
  /\ phase[s] = "down"
  /\ phase' = [phase EXCEPT ![s] = "up"]
  /\ inbox' = [inbox EXCEPT ![s] = repliesToOpen(s)]
  /\ missed' = [missed EXCEPT ![s] =
                  srv[s].state # "idle" /\ region[s] \notin {0, srv[s].mode}]
  /\ UNCHANGED <<server_state, region, limits, streaming, srv>>

(* External: the connection fails, and its streams with it; Close follows. *)
(* What is known of the server is kept.                                    *)
fails(s) ==
  /\ phase[s] = "up"
  /\ phase' = [phase EXCEPT ![s] = "dead"]
  /\ inbox' = [inbox EXCEPT ![s] = <<>>]
  /\ srv' = [srv EXCEPT ![s].streams = FALSE]
  /\ UNCHANGED known

close(s) ==
  /\ phase[s] = "dead"
  /\ phase' = [phase EXCEPT ![s] = "down"]
  /\ UNCHANGED <<known, srv, inbox>>

(* External: while the connection is gone the server is restarted, or      *)
(* another commander leaves it in another state, perhaps in another mode.  *)
(* Nothing here notices when, so it is before Close.  Bound: as in         *)
(* LinkInit, it is idle or running, and an idle one's mode is no matter.   *)
changes(s) ==
  /\ phase[s] = "dead"
  /\ \E v \in [state : {"idle", "running"}, mode : Mode, streams : {FALSE}] :
       /\ IF v.state = "idle" THEN v.mode = Ours
                              ELSE s \in Shared
       /\ v # srv[s]
       /\ srv' = [srv EXCEPT ![s] = v]
  /\ UNCHANGED <<phase, known, inbox>>

-----------------------------------------------------------------------------
receives(s, type) ==
  phase[s] = "up" /\ inbox[s] # <<>> /\ Head(inbox[s]).type = type

(* handleText: a discovery enters a new camera into the roster and leaves  *)
(* the flags of one that is there alone.                                   *)
handleDiscovery(s) ==
  /\ receives(s, "discovery")
  /\ streaming' = [streaming EXCEPT ![s] = IF @ = "none" THEN "off" ELSE @]
  /\ inbox' = [inbox EXCEPT ![s] = Tail(@)]
  /\ UNCHANGED <<phase, server_state, region, limits, missed, srv>>

(* The state is stored, the region forgotten in IDLE and fetched when the  *)
(* server is configured without it being known.                            *)
regionKept(s, state)  == region[s]
regionAfter(s, state) == IF state = "idle" THEN 0 ELSE region[s]

handleState(s) ==
  /\ receives(s, "state")
  /\ LET state == Head(inbox[s]).state
         r     == regionAfter(s, state)
     IN  /\ server_state' = [server_state EXCEPT ![s] = state]
         /\ region' = [region EXCEPT ![s] = r]
         /\ missed' = [missed EXCEPT ![s] = @ /\ state # "idle"]
         /\ sendCommands(NoCommand,
                         [t \in Server |->
                            IF t = s /\ state # "idle" /\ r = 0 THEN {"region"} ELSE {}],
                         [inbox EXCEPT ![s] = Tail(@)])
  /\ UNCHANGED <<phase, limits, streaming>>

(* The replies to get_focus_fom_region and to configure carry the region.  *)
storeRegion(s) ==
  /\ region' = [region EXCEPT ![s] = Head(inbox[s]).mode]
  /\ missed' = [missed EXCEPT ![s] = FALSE]
  /\ inbox' = [inbox EXCEPT ![s] = Tail(@)]
  /\ UNCHANGED <<phase, server_state, limits, streaming, srv>>

handleRegion(s) == receives(s, "region") /\ storeRegion(s)
handleStatus(s) == receives(s, "status") /\ storeRegion(s)

handleLimits(s) ==
  /\ receives(s, "limits")
  /\ limits' = [limits EXCEPT ![s] = TRUE]
  /\ inbox' = [inbox EXCEPT ![s] = Tail(@)]
  /\ UNCHANGED <<phase, server_state, region, streaming, missed, srv>>

handleText(s) ==
  \/ handleDiscovery(s) \/ handleState(s) \/ handleLimits(s)
  \/ handleRegion(s) \/ handleStatus(s)

(* Bound: a server is idle or already running when the client comes up; a  *)
(* configured one is found in the same way as a running one.               *)
LinkInit ==
  /\ phase = [s \in Server |-> "down"]
  /\ server_state = [s \in Server |-> ""]
  /\ region = [s \in Server |-> 0]
  /\ limits = [s \in Server |-> FALSE]
  /\ streaming = [s \in Server |-> "none"]
  /\ srv \in [Server -> [state : {"idle", "running"}, mode : {Ours}, streams : {FALSE}]]
  /\ inbox = [s \in Server |-> <<>>]
  /\ missed = [s \in Server |-> FALSE]

LinkTypeOK ==
  /\ phase \in [Server -> {"down", "up", "dead"}]
  /\ server_state \in [Server -> State \cup {""}]
  /\ region \in [Server -> Mode \cup {0}]
  /\ limits \in [Server -> BOOLEAN]
  /\ streaming \in [Server -> {"none", "off", "on"}]
  /\ srv \in [Server -> [state : State, mode : Mode, streams : BOOLEAN]]
  /\ missed \in [Server -> BOOLEAN]
  /\ \A s \in Server : Len(inbox[s]) <= MaxMsg + 1
=============================================================================
