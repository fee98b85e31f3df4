----------------------------- MODULE AppSession -----------------------------
(***************************************************************************)
(* app/App.cpp: the session of one config (MultiServerManager, CameraGrid, *)
(* ControlPanel), loading another config between two frames, and the       *)
(* shutdown, against the receive threads, which call back into all of it:  *)
(* a capture frame goes into the store and then to the saver, under the    *)
(* address that cfg_ has for the index of its connection.                  *)
(*                                                                         *)
(* A list of steps the main thread has still to make is its program        *)
(* counter; the other threads run between them.  ws_.stop() joins the      *)
(* receive thread, so it waits for a callback that is running.             *)
(*                                                                         *)
(* External: the servers, each with one commander slot, freed when its     *)
(* holder closes or, after a broken link, when the server notices; other   *)
(* commanders, which leave in the end; ixwebsocket, which retries.         *)
(***************************************************************************)
EXTENDS Integers, Sequences, FiniteSets

CONSTANTS
  Address,    \* servers, by address
  Config,     \* configs that load
  Bad,        \* paths of files that do not load
  ServersOf,  \* per config: its servers' addresses, in order
  DirOf,      \* per config: captures.dir
  SaveOf,     \* per config: captures.save
  First,      \* the config the program starts with
  MaxLoad,    \* bound: loads requested
  MaxCapture, \* bound: capture frames
  MaxFault    \* bound: links broken and slots taken by others

ASSUME SessionAssumption ==
  /\ First \in Config /\ Config \cap Bad = {}
  /\ \A c \in Config : ServersOf[c] \in Seq(Address) /\ SaveOf[c] \in BOOLEAN
  /\ MaxLoad \in Nat /\ MaxCapture \in Nat /\ MaxFault \in Nat

VARIABLES
  cfg, pending_config, config_error,
  todo,          \* what loadPendingConfig or shutdown has still to do
  next,          \* its local `next'
  session,       \* number of the session opened last
  msm, grid, panel,  \* the session each object belongs to, 0 when destroyed
  clients,       \* per index of msm: [phase, address]
  net,           \* per index: the callback its receive thread is in
  store,         \* capture frames in the store
  saver,         \* [alive, root, enabled, queue]
  written,       \* jobs written to disk
  slot,          \* external, per address: who holds the commander slot
  accepted,      \* capture frames handed to a saver that saves
  requested,     \* the path asked for last
  loads, captures, faults

appVars   == <<cfg, pending_config, config_error, todo, next, session, msm, grid, panel>>
dataVars  == <<store, saver, written, accepted>>
countVars == <<requested, loads, captures, faults>>
vars      == <<appVars, clients, net, dataVars, slot, countVars>>

NoConfig == ""
Idle     == [pc |-> "idle"]
Free     == 0
Other    == -1     \* another commander; our sessions are 1, 2, ...
Index    == DOMAIN clients
fault    == faults < MaxFault /\ faults' = faults + 1

-----------------------------------------------------------------------------
(* The connections.                                                        *)
opensOnce(i) == clients[i].phase = "connecting"
mayOpen(i)   == clients[i].phase \in {"connecting", "refused"}

open(i) ==
  /\ i \in Index /\ mayOpen(i) /\ slot[clients[i].address] = Free
  /\ clients' = [clients EXCEPT ![i].phase = "open"]
  /\ slot' = [slot EXCEPT ![clients[i].address] = session]
  /\ UNCHANGED <<appVars, net, dataVars, countVars>>

(* Upgrade refused with 503: slot_taken_, shown in the panel.              *)
refuse(i) ==
  /\ i \in Index /\ clients[i].phase = "connecting" /\ slot[clients[i].address] # Free
  /\ clients' = [clients EXCEPT ![i].phase = "refused"]
  /\ UNCHANGED <<appVars, net, dataVars, slot, countVars>>

(* The link breaks; the server still holds the slot for us.                *)
breaks(i) ==
  /\ i \in Index /\ fault /\ clients[i].phase = "open" /\ net[i] = Idle
  /\ clients' = [clients EXCEPT ![i].phase = "connecting"]
  /\ UNCHANGED <<appVars, net, dataVars, slot, requested, loads, captures>>

HeldByUs(a) == \E i \in Index : clients[i] = [phase |-> "open", address |-> a]

serverNotices(a) ==
  /\ slot[a] # Free /\ ~HeldByUs(a)
  /\ slot' = [slot EXCEPT ![a] = Free]
  /\ UNCHANGED <<appVars, clients, net, dataVars, countVars>>

otherCommander(a) ==
  /\ fault /\ slot[a] = Free
  /\ slot' = [slot EXCEPT ![a] = Other]
  /\ UNCHANGED <<appVars, clients, net, dataVars, requested, loads, captures>>

-----------------------------------------------------------------------------
(* A capture frame: MultiServerManager::onCaptureFrame stores it, then the *)
(* callback set by openSession hands it to the saver.                      *)
captureArrives(i) ==
  /\ i \in Index /\ clients[i].phase = "open" /\ net[i] = Idle /\ captures < MaxCapture
  /\ captures' = captures + 1
  /\ net' = [net EXCEPT ![i] =
               [pc |-> "store", frame |-> [n |-> captures + 1, from |-> clients[i].address,
                                           session |-> session, cfg |-> cfg]]]
  /\ UNCHANGED <<appVars, clients, dataVars, slot, requested, loads, faults>>

publishCapture(i) ==
  /\ i \in Index /\ net[i].pc = "store"
  /\ store' = store \cup {net[i].frame}
  /\ net' = [net EXCEPT ![i].pc = "save"]
  /\ UNCHANGED <<appVars, clients, saver, written, accepted, slot, countVars>>

addressOf(i) == IF i \in DOMAIN ServersOf[cfg] THEN ServersOf[cfg][i] ELSE "undefined"

save(i) ==
  /\ i \in Index /\ net[i].pc = "save"
  /\ IF saver.enabled
     THEN /\ saver' = [saver EXCEPT !.queue = @ \cup
                         {[frame |-> net[i].frame, address |-> addressOf(i),
                           root |-> saver.root]}]
          /\ accepted' = accepted \cup {net[i].frame}
     ELSE UNCHANGED <<saver, accepted>>
  /\ net' = [net EXCEPT ![i] = Idle]
  /\ UNCHANGED <<appVars, clients, store, written, slot, countVars>>

(* The saver's worker (module CaptureSaver).                               *)
worker ==
  \E j \in saver.queue :
    /\ saver' = [saver EXCEPT !.queue = @ \ {j}]
    /\ written' = written \cup {j}
    /\ UNCHANGED <<appVars, clients, net, store, accepted, slot, countVars>>

-----------------------------------------------------------------------------
(* The main loop: a path dropped on the window or typed in the panel, and  *)
(* what loadPendingConfig makes of the last one.                           *)
clearFirst  == <<"clear", "disconnect", "panel", "grid", "msm", "saver", "cfg", "openSession",
                 "connectAll">>
cfgFirst    == <<"cfg", "disconnect", "panel", "grid", "msm", "clear", "saver", "openSession",
                 "connectAll">>
loadSteps   == <<"disconnect", "panel", "grid", "msm", "clear", "saver", "cfg", "openSession",
                 "connectAll">>
shutdownSteps == <<"disconnect", "msm", "endSaver", "grid", "panel", "exit">>

requestConfig(path) ==
  /\ todo = <<>> /\ loads < MaxLoad
  /\ loads' = loads + 1 /\ requested' = path /\ pending_config' = path
  /\ UNCHANGED <<cfg, config_error, todo, next, session, msm, grid, panel, clients, net,
                 dataVars, slot, captures, faults>>

loadPendingConfig ==
  /\ todo = <<>> /\ pending_config # NoConfig
  /\ pending_config' = NoConfig
  /\ IF pending_config \in Bad
     THEN config_error' = pending_config /\ UNCHANGED <<todo, next>>
     ELSE todo' = loadSteps /\ next' = pending_config /\ UNCHANGED config_error
  /\ UNCHANGED <<cfg, session, msm, grid, panel, clients, net, dataVars, slot, countVars>>

shutdown ==
  /\ todo = <<>>
  /\ todo' = shutdownSteps
  /\ UNCHANGED <<cfg, pending_config, config_error, next, session, msm, grid, panel,
                 clients, net, dataVars, slot, countVars>>

at(step)  == todo # <<>> /\ Head(todo) = step
stepDone  == todo' = Tail(todo)
unchangedLoad == UNCHANGED <<pending_config, countVars>>

(* disconnectAll: client after client, each until its thread is gone.  A   *)
(* connection that is up is closed with a handshake, which frees its slot. *)
stopsAtOnce(i) == clients[i].phase # "off"
joins(i)       == clients[i].phase # "off" /\ net[i] = Idle

disconnect(i) ==
  /\ at("disconnect") /\ i \in Index /\ joins(i)
  /\ \A j \in 1..(i - 1) : clients[j].phase = "off"
  /\ clients' = [clients EXCEPT ![i].phase = "off"]
  /\ slot' = IF clients[i].phase = "open" THEN [slot EXCEPT ![clients[i].address] = Free]
             ELSE slot
  /\ UNCHANGED <<appVars, net, dataVars, countVars>>

disconnected ==
  /\ at("disconnect") /\ \A i \in Index : clients[i].phase = "off"
  /\ stepDone
  /\ UNCHANGED <<cfg, config_error, next, session, msm, grid, panel, clients, net,
                 dataVars, slot>>
  /\ unchangedLoad

reset ==
  /\ \/ at("panel") /\ panel' = 0 /\ config_error' = NoConfig /\ UNCHANGED <<grid, msm>>
     \/ at("grid") /\ grid' = 0 /\ UNCHANGED <<panel, msm, config_error>>
     \/ at("msm") /\ msm' = 0 /\ UNCHANGED <<panel, grid, config_error>>
  /\ stepDone
  /\ UNCHANGED <<cfg, next, session, clients, net, dataVars, slot>>
  /\ unchangedLoad

clear ==
  /\ at("clear") /\ store' = {} /\ stepDone
  /\ UNCHANGED <<cfg, config_error, next, session, msm, grid, panel, clients, net,
                 saver, written, accepted, slot>>
  /\ unchangedLoad

(* A saver that is replaced or destroyed writes what is queued first.      *)
drainedAtOnce == TRUE
drained       == saver.queue = {}

replaceSaver ==
  /\ at("saver") /\ stepDone
  /\ IF DirOf[next] # saver.root
     THEN drained /\ saver' = [alive |-> TRUE, root |-> DirOf[next],
                               enabled |-> SaveOf[next], queue |-> {}]
     ELSE saver' = [saver EXCEPT !.enabled = SaveOf[next]]
  /\ UNCHANGED <<cfg, config_error, next, session, msm, grid, panel, clients, net, store,
                 written, accepted, slot>>
  /\ unchangedLoad

endSaver ==
  /\ at("endSaver") /\ drained /\ stepDone
  /\ saver' = [saver EXCEPT !.alive = FALSE, !.queue = {}]
  /\ UNCHANGED <<cfg, config_error, next, session, msm, grid, panel, clients, net, store,
                 written, accepted, slot>>
  /\ unchangedLoad

assignCfg ==
  /\ at("cfg") /\ cfg' = next /\ stepDone
  /\ UNCHANGED <<config_error, next, session, msm, grid, panel, clients, net, dataVars, slot>>
  /\ unchangedLoad

openSession ==
  /\ at("openSession") /\ stepDone
  /\ session' = session + 1
  /\ msm' = session + 1 /\ grid' = session + 1 /\ panel' = session + 1
  /\ clients' = [i \in DOMAIN ServersOf[cfg] |-> [phase |-> "off", address |-> ServersOf[cfg][i]]]
  /\ net' = [i \in DOMAIN ServersOf[cfg] |-> Idle]
  /\ UNCHANGED <<cfg, config_error, next, dataVars, slot>>
  /\ unchangedLoad

connectAll ==
  /\ at("connectAll") /\ stepDone
  /\ clients' = [i \in Index |-> [clients[i] EXCEPT !.phase = "connecting"]]
  /\ UNCHANGED <<cfg, config_error, next, session, msm, grid, panel, net, dataVars, slot>>
  /\ unchangedLoad

-----------------------------------------------------------------------------
Init ==
  /\ cfg = First /\ pending_config = NoConfig /\ config_error = NoConfig
  /\ todo = <<"openSession", "connectAll">> /\ next = First
  /\ session = 0 /\ msm = 0 /\ grid = 0 /\ panel = 0
  /\ clients = <<>> /\ net = <<>>
  /\ store = {} /\ written = {} /\ accepted = {}
  /\ saver = [alive |-> TRUE, root |-> DirOf[First], enabled |-> SaveOf[First], queue |-> {}]
  /\ slot = [a \in Address |-> Free]
  /\ requested = First /\ loads = 0 /\ captures = 0 /\ faults = 0

Callback(i) == publishCapture(i) \/ save(i)
LoadStep == \/ \E i \in Index : disconnect(i)
            \/ disconnected \/ reset \/ clear \/ replaceSaver \/ endSaver
            \/ assignCfg \/ openSession \/ connectAll

Next ==
  \/ \E i \in Index : \/ open(i) \/ refuse(i) \/ breaks(i)
                      \/ captureArrives(i) \/ Callback(i)
  \/ \E a \in Address : serverNotices(a) \/ otherCommander(a)
  \/ worker
  \/ \E path \in Config \cup Bad : requestConfig(path)
  \/ loadPendingConfig \/ shutdown \/ LoadStep

Spec == Init /\ [][Next]_vars

(* The main loop, the worker and the receive threads run, ixwebsocket      *)
(* retries, servers notice broken links and other commanders leave.  A     *)
(* slot that others may take again and again is won in the end: retries    *)
(* meet it free, which the bound on faults makes weak fairness.            *)
FairSpec ==
  /\ Spec
  /\ WF_vars(loadPendingConfig) /\ WF_vars(LoadStep) /\ WF_vars(worker)
  /\ \A i \in 1..Cardinality(Address) : WF_vars(i \in Index /\ (open(i) \/ Callback(i)))
  /\ \A a \in Address : WF_vars(serverNotices(a))

-----------------------------------------------------------------------------
Exited   == at("exit")
InLoop   == todo = <<>>

(* A receive thread never calls into a session that is gone: while a       *)
(* callback runs, the manager it belongs to and the saver are there.       *)
CallbacksFindTheirSession ==
  \A i \in Index : net[i] # Idle =>
    msm = net[i].frame.session /\ saver.alive

(* A capture is filed under the server that sent it, in the directory of   *)
(* the config it was taken under, though a load changes what an index and  *)
(* the saver stand for.                                                    *)
FiledUnderItsServer ==
  \A j \in saver.queue \cup written :
    j.address = j.frame.from /\ j.root = DirOf[j.frame.cfg]

(* No capture is lost to a load or to leaving the program ("writes what is *)
(* still queued", App.cpp:75).                                             *)
EveryCaptureIsWritten ==
  /\ accepted \subseteq {j.frame : j \in saver.queue \cup written}
  /\ Exited => accepted \subseteq {j.frame : j \in written}

(* Once a config is loaded, nothing in the store is left of the one before.*)
StoreIsThisSessions == InLoop => \A f \in store : f.session = session

InForce == IF requested \in Bad THEN config_error = requested ELSE cfg = requested

(* The config asked for last is the one in force in the end, connected to  *)
(* all its servers ("a bad file keeps the current session", App.cpp:137,   *)
(* and is reported), or the program is left: neither a slot its own old    *)
(* connections held, nor another commander, nor a broken link keeps it out *)
(* for ever.                                                               *)
EndsConnected ==
  <>[](Exited \/ (InLoop /\ InForce /\ \A i \in Index : clients[i].phase = "open"))
=============================================================================
