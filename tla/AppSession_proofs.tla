-------------------------- MODULE AppSession_proofs --------------------------
(***************************************************************************)
(* Proofs about the session (AppSession), for every set of configs and     *)
(* servers and any number of loads, captures and faults.  The argument is  *)
(* one about order: what every suffix of the load's and of the shutdown's  *)
(* steps can rely on.                                                      *)
(***************************************************************************)
EXTENDS AppSession, TLAPS

(* What is left of the steps, after the n-th.                              *)
Load1 == <<"panel", "grid", "msm", "clear", "saver", "cfg", "openSession", "connectAll">>
Load2 == <<"grid", "msm", "clear", "saver", "cfg", "openSession", "connectAll">>
Load3 == <<"msm", "clear", "saver", "cfg", "openSession", "connectAll">>
Load4 == <<"clear", "saver", "cfg", "openSession", "connectAll">>
Load5 == <<"saver", "cfg", "openSession", "connectAll">>
Load6 == <<"cfg", "openSession", "connectAll">>
Load7 == <<"openSession", "connectAll">>
Load8 == <<"connectAll">>
Down1 == <<"msm", "endSaver", "grid", "panel", "exit">>
Down2 == <<"endSaver", "grid", "panel", "exit">>
Down3 == <<"grid", "panel", "exit">>
Down4 == <<"panel", "exit">>
Down5 == <<"exit">>

LEMMA Heads ==
  /\ loadSteps # <<>> /\ Head(loadSteps) = "disconnect"
  /\ shutdownSteps # <<>> /\ Head(shutdownSteps) = "disconnect"
  /\ Head(Load1) = "panel" /\ Head(Load2) = "grid" /\ Head(Load3) = "msm"
  /\ Head(Load4) = "clear" /\ Head(Load5) = "saver" /\ Head(Load6) = "cfg"
  /\ Head(Load7) = "openSession" /\ Head(Load8) = "connectAll"
  /\ Head(Down1) = "msm" /\ Head(Down2) = "endSaver" /\ Head(Down3) = "grid"
  /\ Head(Down4) = "panel" /\ Head(Down5) = "exit"
BY DEF loadSteps, shutdownSteps, Load1, Load2, Load3, Load4, Load5, Load6, Load7, Load8,
       Down1, Down2, Down3, Down4, Down5

LEMMA NonEmpty ==
  <<>> \notin {loadSteps, shutdownSteps, Load1, Load2, Load3, Load4, Load5, Load6, Load7,
               Load8, Down1, Down2, Down3, Down4, Down5}
BY DEF loadSteps, shutdownSteps, Load1, Load2, Load3, Load4, Load5, Load6, Load7, Load8,
       Down1, Down2, Down3, Down4, Down5

LEMMA Tails ==
  /\ Tail(loadSteps) = Load1 /\ Tail(shutdownSteps) = Down1
  /\ Tail(Load1) = Load2 /\ Tail(Load2) = Load3 /\ Tail(Load3) = Load4
  /\ Tail(Load4) = Load5 /\ Tail(Load5) = Load6 /\ Tail(Load6) = Load7
  /\ Tail(Load7) = Load8 /\ Tail(Load8) = <<>>
  /\ Tail(Down1) = Down2 /\ Tail(Down2) = Down3 /\ Tail(Down3) = Down4
  /\ Tail(Down4) = Down5
BY DEF loadSteps, shutdownSteps, Load1, Load2, Load3, Load4, Load5, Load6, Load7, Load8,
       Down1, Down2, Down3, Down4, Down5

-----------------------------------------------------------------------------
(* Every receive thread is gone.                                           *)
AllOff == \A i \in Index : clients[i].phase = "off"

(* The objects the receive threads use are those of the config in force.   *)
ClientsOfCfg ==
  /\ Index = DOMAIN ServersOf[cfg]
  /\ \A i \in Index : clients[i].address = ServersOf[cfg][i]

Ready ==
  /\ saver.alive /\ saver.root = DirOf[cfg] /\ msm = session
  /\ ClientsOfCfg
  /\ \A f \in store : f.session = session

(* What holds at each step of a load and of the shutdown.                  *)
AtItsStep ==
  \/ todo \in {<<>>, loadSteps, shutdownSteps} /\ Ready
  \/ todo \in {Load1, Load2, Load3, Load4, Down1, Down2} /\ AllOff /\ saver.alive
  \/ todo = Load5 /\ AllOff /\ saver.alive /\ store = {}
  \/ todo = Load6 /\ AllOff /\ saver.alive /\ store = {} /\ saver.root = DirOf[next]
  \/ todo = Load7 /\ AllOff /\ saver.alive /\ store = {} /\ saver.root = DirOf[cfg]
  \/ todo = Load8 /\ AllOff /\ Ready
  \/ todo \in {Down3, Down4, Down5} /\ AllOff /\ saver.queue = {}

(* A callback belongs to an open connection of the session.                *)
InCallback(i) ==
  /\ clients[i].phase = "open"
  /\ net[i] = [pc |-> net[i].pc, frame |-> net[i].frame]
  /\ net[i].frame.session = session /\ net[i].frame.cfg = cfg
  /\ net[i].frame.from = clients[i].address

SessionTypeOK ==
  /\ cfg \in Config /\ next \in Config
  /\ pending_config \in Config \cup Bad \cup {NoConfig}
  /\ DOMAIN net = Index
  /\ \A i \in Index : clients[i] = [phase |-> clients[i].phase, address |-> clients[i].address]
  /\ saver = [alive |-> saver.alive, root |-> saver.root, enabled |-> saver.enabled,
              queue |-> saver.queue]

Kept == accepted \subseteq {j.frame : j \in saver.queue \cup written}

SessionInv ==
  /\ SessionTypeOK
  /\ AtItsStep
  /\ \A i \in Index : net[i] # Idle => InCallback(i)
  /\ FiledUnderItsServer
  /\ Kept

LEMMA SessionInvInit == Init => SessionInv
<1> SUFFICES ASSUME Init PROVE SessionInv
  OBVIOUS
<1>1. Index = {} /\ DOMAIN net = {}
  BY DEF Init, Index
<1>2. todo = Load7
  BY DEF Init, Load7
<1>3. saver = [alive |-> TRUE, root |-> DirOf[First], enabled |-> SaveOf[First], queue |-> {}]
      /\ cfg = First /\ next = First /\ store = {} /\ written = {} /\ accepted = {}
      /\ pending_config = NoConfig
  BY DEF Init
<1>4. SessionTypeOK
  BY <1>1, <1>3, SessionAssumption DEF SessionTypeOK
<1>5. AtItsStep
  BY <1>1, <1>2, <1>3 DEF AtItsStep, AllOff
<1>6. FiledUnderItsServer /\ Kept
  BY <1>3 DEF FiledUnderItsServer, Kept
<1>7. QED
  BY <1>1, <1>4, <1>5, <1>6 DEF SessionInv

(* While a connection is up, no step of a load or of the shutdown but the  *)
(* first has been made.                                                    *)
LEMMA UpMeansReady ==
  ASSUME SessionInv, NEW i \in Index, clients[i].phase # "off"
  PROVE  todo \in {<<>>, loadSteps, shutdownSteps} /\ Ready
BY DEF SessionInv, AtItsStep, AllOff

(* A connection changes its phase outside a callback.                      *)
LEMMA PhaseChange ==
  ASSUME SessionInv, NEW i \in Index, clients[i].phase # "off", net[i] = Idle, NEW p,
         clients' = [clients EXCEPT ![i].phase = p],
         UNCHANGED <<appVars, net, dataVars>>
  PROVE  SessionInv'
<1>1. todo \in {<<>>, loadSteps, shutdownSteps} /\ Ready
  BY UpMeansReady
<1>2. /\ Index' = Index
      /\ \A j \in Index : clients'[j].address = clients[j].address
      /\ \A j \in Index : j # i => clients'[j] = clients[j]
      /\ \A j \in Index : clients'[j] = [phase |-> clients'[j].phase,
                                         address |-> clients'[j].address]
  BY DEF SessionInv, SessionTypeOK, Index
<1>3. UNCHANGED <<cfg, pending_config, todo, next, session, msm, net, store, saver, written, accepted>>
  BY DEF appVars, dataVars
<1>4. SessionTypeOK'
  BY <1>2, <1>3 DEF SessionInv, SessionTypeOK
<1>5. Ready'
  BY <1>1, <1>2, <1>3 DEF Ready, ClientsOfCfg
<1>6. AtItsStep'
  BY <1>1, <1>3, <1>5 DEF AtItsStep
<1>7. \A j \in Index' : net'[j] # Idle => InCallback(j)'
  BY <1>2, <1>3 DEF SessionInv, InCallback
<1>8. FiledUnderItsServer' /\ Kept'
  BY <1>3 DEF SessionInv, FiledUnderItsServer, Kept
<1>9. QED
  BY <1>4, <1>6, <1>7, <1>8 DEF SessionInv

(* A step that leaves all that SessionInv speaks of alone.                 *)
LEMMA SessionElsewhere ==
  ASSUME SessionInv,
         UNCHANGED <<cfg, todo, next, session, msm, clients, net, dataVars>>,
         pending_config' \in Config \cup Bad \cup {NoConfig}
  PROVE  SessionInv'
<1>1. UNCHANGED <<cfg, todo, next, session, msm, clients, net, store, saver, written, accepted>>
  BY DEF dataVars
<1>2. Index' = Index
  BY <1>1 DEF Index
<1>3. SessionTypeOK'
  BY <1>1, <1>2 DEF SessionInv, SessionTypeOK
<1>4. AtItsStep'
  BY <1>1, <1>2 DEF SessionInv, AtItsStep, AllOff, Ready, ClientsOfCfg
<1>5. \A j \in Index' : net'[j] # Idle => InCallback(j)'
  BY <1>1, <1>2 DEF SessionInv, InCallback
<1>6. FiledUnderItsServer' /\ Kept'
  BY <1>1 DEF SessionInv, FiledUnderItsServer, Kept
<1>7. QED
  BY <1>3, <1>4, <1>5, <1>6 DEF SessionInv

LEMMA ConnectionStep ==
  ASSUME SessionInv, NEW i \in Index, open(i) \/ refuse(i) \/ breaks(i)
  PROVE  SessionInv'
<1>1. clients[i].phase # "off" /\ net[i] = Idle
  BY DEF open, refuse, breaks, mayOpen, SessionInv, InCallback
<1>2. UNCHANGED <<appVars, net, dataVars>>
  BY DEF open, refuse, breaks
<1>3. \E p : clients' = [clients EXCEPT ![i].phase = p]
  BY DEF open, refuse, breaks
<1>4. QED
  BY <1>1, <1>2, <1>3, PhaseChange

LEMMA ServerStep ==
  ASSUME SessionInv, NEW a \in Address, serverNotices(a) \/ otherCommander(a)
  PROVE  SessionInv'
<1>1. UNCHANGED <<cfg, pending_config, todo, next, session, msm, clients, net, dataVars>>
  BY DEF serverNotices, otherCommander, appVars
<1>2. QED
  BY <1>1, SessionElsewhere DEF SessionInv, SessionTypeOK

(* A capture frame on its way through the callback.                        *)
LEMMA CaptureStep ==
  ASSUME SessionInv, NEW i \in Index,
         captureArrives(i) \/ publishCapture(i) \/ save(i)
  PROVE  SessionInv'
<1>1. clients[i].phase = "open"
  <2>1. Idle.pc = "idle"
    BY DEF Idle
  <2>2. captureArrives(i) \/ net[i] # Idle
    BY <2>1 DEF publishCapture, save
  <2>3. QED
    BY <2>2 DEF captureArrives, SessionInv, InCallback
<1>2. todo \in {<<>>, loadSteps, shutdownSteps} /\ Ready
  BY <1>1, UpMeansReady
<1>3. UNCHANGED <<cfg, pending_config, todo, next, session, msm, clients, written>> /\ Index' = Index
  BY DEF captureArrives, publishCapture, save, appVars, dataVars, Index
<1>4. DOMAIN net' = Index /\ \A j \in Index : j # i => net'[j] = net[j]
  BY DEF captureArrives, publishCapture, save, SessionInv, SessionTypeOK
<1>5. CASE captureArrives(i)
  <2>1. UNCHANGED <<store, saver, accepted>>
    BY <1>5 DEF captureArrives, dataVars
  <2>2. net'[i] = [pc |-> "store", frame |-> [n |-> captures + 1, from |-> clients[i].address,
                                              session |-> session, cfg |-> cfg]]
    BY <1>5 DEF captureArrives, SessionInv, SessionTypeOK
  <2>3. InCallback(i)'
    BY <1>1, <1>3, <2>2 DEF InCallback
  <2>4. \A j \in Index' : net'[j] # Idle => InCallback(j)'
    BY <1>3, <1>4, <2>3 DEF SessionInv, InCallback
  <2>5. Ready' /\ SessionTypeOK' /\ FiledUnderItsServer' /\ Kept'
    BY <1>2, <1>3, <1>4, <2>1
       DEF Ready, ClientsOfCfg, SessionInv, SessionTypeOK, FiledUnderItsServer, Kept
  <2>6. QED
    BY <1>2, <1>3, <2>4, <2>5 DEF SessionInv, AtItsStep
<1>6. CASE publishCapture(i)
  <2>1. UNCHANGED <<saver, accepted>> /\ store' = store \cup {net[i].frame} /\ net[i].pc = "store"
    BY <1>6 DEF publishCapture
  <2>2. InCallback(i)
    BY <2>1 DEF SessionInv, Idle
  <2>3. net'[i] = [pc |-> "save", frame |-> net[i].frame]
    BY <1>6, <2>2 DEF publishCapture, SessionInv, SessionTypeOK, InCallback
  <2>4. InCallback(i)'
    BY <1>3, <2>2, <2>3 DEF InCallback
  <2>5. \A j \in Index' : net'[j] # Idle => InCallback(j)'
    BY <1>3, <1>4, <2>4 DEF SessionInv, InCallback
  <2>6. Ready'
    BY <1>2, <1>3, <2>1, <2>2 DEF Ready, ClientsOfCfg, InCallback
  <2>7. SessionTypeOK' /\ FiledUnderItsServer' /\ Kept'
    BY <1>3, <1>4, <2>1 DEF SessionInv, SessionTypeOK, FiledUnderItsServer, Kept
  <2>8. QED
    BY <1>2, <1>3, <2>5, <2>6, <2>7 DEF SessionInv, AtItsStep
<1>7. CASE save(i)
  <2> DEFINE f == net[i].frame
             job == [frame |-> f, address |-> addressOf(i), root |-> saver.root]
  <2>1. store' = store /\ net[i].pc = "save" /\ net'[i] = Idle
    BY <1>7 DEF save, SessionInv, SessionTypeOK
  <2>2. InCallback(i)
    BY <2>1 DEF SessionInv, Idle
  <2>3. job.address = f.from /\ job.root = DirOf[f.cfg]
    BY <1>2, <2>2 DEF Ready, ClientsOfCfg, InCallback, addressOf
  <2>4. \/ UNCHANGED <<saver, accepted>>
        \/ /\ saver' = [saver EXCEPT !.queue = @ \cup {job}]
           /\ accepted' = accepted \cup {f}
    BY <1>7 DEF save
  <2>5. saver'.alive = saver.alive /\ saver'.root = saver.root
        /\ saver' = [alive |-> saver'.alive, root |-> saver'.root, enabled |-> saver'.enabled,
                     queue |-> saver'.queue]
    BY <2>4 DEF SessionInv, SessionTypeOK
  <2>6. \/ saver'.queue = saver.queue /\ accepted' = accepted
        \/ saver'.queue = saver.queue \cup {job} /\ accepted' = accepted \cup {f}
    BY <2>4 DEF SessionInv, SessionTypeOK
  <2>7. FiledUnderItsServer'
    BY <1>3, <2>3, <2>6 DEF SessionInv, FiledUnderItsServer
  <2>8. Kept'
    <3>1. job.frame = f
      OBVIOUS
    <3> HIDE DEF job, f
    <3>2. QED
      BY <1>3, <2>6, <3>1 DEF SessionInv, Kept
  <2>9. Ready' /\ SessionTypeOK'
    BY <1>2, <1>3, <1>4, <2>1, <2>5 DEF Ready, ClientsOfCfg, SessionInv, SessionTypeOK
  <2>10. \A j \in Index' : net'[j] # Idle => InCallback(j)'
    BY <1>3, <1>4, <2>1 DEF SessionInv, InCallback
  <2>11. QED
    BY <1>2, <1>3, <2>7, <2>8, <2>9, <2>10 DEF SessionInv, AtItsStep
<1>8. QED
  BY <1>5, <1>6, <1>7

(* The saver's worker.                                                     *)
LEMMA WorkerStep == ASSUME SessionInv, worker PROVE SessionInv'
<1>1. PICK j \in saver.queue : /\ saver' = [saver EXCEPT !.queue = @ \ {j}]
                               /\ written' = written \cup {j}
                               /\ UNCHANGED <<appVars, clients, net, store, accepted>>
  BY DEF worker
<1>2. UNCHANGED <<cfg, pending_config, todo, next, session, msm, clients, net, store, accepted>>
      /\ Index' = Index
  BY <1>1 DEF appVars, Index
<1>3. saver'.queue = saver.queue \ {j} /\ saver'.alive = saver.alive /\ saver'.root = saver.root
      /\ saver' = [alive |-> saver'.alive, root |-> saver'.root, enabled |-> saver'.enabled,
                   queue |-> saver'.queue]
  BY <1>1 DEF SessionInv, SessionTypeOK
<1>4. saver'.queue \cup written' = saver.queue \cup written
  BY <1>1, <1>3
<1>5. SessionTypeOK'
  BY <1>2, <1>3 DEF SessionInv, SessionTypeOK
<1>6. AtItsStep'
  BY <1>2, <1>3 DEF SessionInv, AtItsStep, AllOff, Ready, ClientsOfCfg
<1>7. \A k \in Index' : net'[k] # Idle => InCallback(k)'
  BY <1>2 DEF SessionInv, InCallback
<1>8. FiledUnderItsServer' /\ Kept'
  BY <1>2, <1>4 DEF SessionInv, FiledUnderItsServer, Kept
<1>9. QED
  BY <1>5, <1>6, <1>7, <1>8 DEF SessionInv

-----------------------------------------------------------------------------
(* The main thread, in its loop.                                           *)
LEMMA LoopStep ==
  ASSUME SessionInv,
         \/ \E path \in Config \cup Bad : requestConfig(path)
         \/ loadPendingConfig \/ shutdown
  PROVE  SessionInv'
<1>1. UNCHANGED <<cfg, session, msm, clients, net, store, saver, written, accepted>>
      /\ Index' = Index /\ todo = <<>>
  BY DEF requestConfig, loadPendingConfig, shutdown, dataVars, Index
<1>2. /\ todo' \in {<<>>, loadSteps, shutdownSteps} /\ next' \in Config
      /\ pending_config' \in Config \cup Bad \cup {NoConfig}
  BY <1>1 DEF requestConfig, loadPendingConfig, shutdown, SessionInv, SessionTypeOK
<1>3. Ready
  BY <1>1, NonEmpty DEF SessionInv, AtItsStep
<1>4. Ready' /\ SessionTypeOK'
  BY <1>1, <1>2, <1>3 DEF SessionInv, SessionTypeOK, Ready, ClientsOfCfg
<1>5. \A k \in Index' : net'[k] # Idle => InCallback(k)'
  BY <1>1 DEF SessionInv, InCallback
<1>6. FiledUnderItsServer' /\ Kept'
  BY <1>1 DEF SessionInv, FiledUnderItsServer, Kept
<1>7. QED
  BY <1>2, <1>4, <1>5, <1>6 DEF SessionInv, AtItsStep

(* Every connection is off, so no callback runs: what a step of the main   *)
(* thread changes then is no thread's business.                            *)
LEMMA QuietStep ==
  ASSUME SessionInv, AllOff, SessionTypeOK', AtItsStep',
         UNCHANGED <<clients, net, written, accepted>>,
         saver'.queue = saver.queue
  PROVE  SessionInv'
<1>1. Index' = Index
  BY DEF Index
<1>2. \A k \in Index' : net'[k] # Idle => InCallback(k)'
  BY <1>1 DEF SessionInv, AllOff, InCallback
<1>3. FiledUnderItsServer' /\ Kept'
  BY DEF SessionInv, FiledUnderItsServer, Kept
<1>4. QED
  BY <1>2, <1>3 DEF SessionInv

LEMMA DisconnectStep ==
  ASSUME SessionInv, disconnected \/ \E i \in Index : disconnect(i)
  PROVE  SessionInv'
<1>1. ASSUME NEW i \in Index, disconnect(i) PROVE SessionInv'
  BY <1>1, PhaseChange DEF disconnect, joins
<1>2. CASE disconnected
  <2>1. UNCHANGED <<cfg, pending_config, next, session, msm, clients, net, store, saver,
                    written, accepted>> /\ AllOff /\ Index' = Index
    BY <1>2 DEF disconnected, unchangedLoad, dataVars, AllOff, Index
  <2>2. todo \in {loadSteps, shutdownSteps} /\ todo' = Tail(todo)
    BY <1>2, Heads DEF disconnected, at, stepDone, SessionInv, AtItsStep
  <2>3. saver.alive
    BY <2>2, Heads DEF SessionInv, AtItsStep, Ready
  <2>4. AtItsStep'
    BY <2>1, <2>2, <2>3, Tails DEF AtItsStep, AllOff
  <2>5. SessionTypeOK'
    BY <2>1 DEF SessionInv, SessionTypeOK
  <2>6. QED
    BY <2>1, <2>4, <2>5, QuietStep
<1>3. QED
  BY <1>1, <1>2

(* The steps after the disconnect, up to the new session.                  *)
LEMMA TeardownStep ==
  ASSUME SessionInv, reset \/ clear
  PROVE  SessionInv'
<1>1. UNCHANGED <<cfg, pending_config, next, session, clients, net, saver, written, accepted>>
      /\ todo # <<>> /\ todo' = Tail(todo) /\ Index' = Index
  BY DEF reset, clear, at, stepDone, unchangedLoad, dataVars, Index
<1>2. \/ /\ Head(todo) \in {"panel", "grid", "msm"} /\ store' = store
      \/ Head(todo) = "clear" /\ store' = {}
  BY DEF reset, clear, at, dataVars
<1>3. \/ /\ todo \in {Load1, Load2, Load3, Down1} /\ AllOff /\ saver.alive
      \/ /\ todo = Load4 /\ AllOff /\ saver.alive /\ store' = {}
      \/ /\ todo \in {Down3, Down4} /\ AllOff /\ saver.queue = {}
  BY <1>1, <1>2, Heads DEF SessionInv, AtItsStep
<1>4. AllOff'
  BY <1>1, <1>3 DEF AllOff
<1>5. AtItsStep'
  BY <1>1, <1>3, <1>4, Tails DEF AtItsStep
<1>6. SessionTypeOK'
  BY <1>1 DEF SessionInv, SessionTypeOK
<1>7. QED
  BY <1>1, <1>3, <1>5, <1>6, QuietStep

LEMMA SaverStep ==
  ASSUME SessionInv, replaceSaver \/ endSaver
  PROVE  SessionInv'
<1>1. UNCHANGED <<cfg, pending_config, next, session, clients, net, store, written, accepted>>
      /\ todo # <<>> /\ todo' = Tail(todo) /\ Index' = Index
  BY DEF replaceSaver, endSaver, at, stepDone, unchangedLoad, Index
<1>2. CASE replaceSaver
  <2>1. todo = Load5 /\ AllOff /\ saver.alive /\ store = {} /\ todo' = Load6
    BY <1>1, <1>2, Heads, Tails DEF replaceSaver, at, SessionInv, AtItsStep
  <2>2. saver'.alive /\ saver'.root = DirOf[next] /\ saver'.queue = saver.queue
        /\ saver' = [alive |-> saver'.alive, root |-> saver'.root, enabled |-> saver'.enabled,
                     queue |-> saver'.queue]
    <3>1. CASE DirOf[next] = saver.root
      BY <1>2, <2>1, <3>1 DEF replaceSaver, SessionInv, SessionTypeOK
    <3>2. CASE DirOf[next] # saver.root
      BY <1>2, <2>1, <3>2 DEF replaceSaver, drained
    <3>3. QED
      BY <3>1, <3>2
  <2>3. AtItsStep'
    BY <1>1, <2>1, <2>2 DEF AtItsStep, AllOff
  <2>4. SessionTypeOK'
    BY <1>1, <2>2 DEF SessionInv, SessionTypeOK
  <2>5. QED
    BY <1>1, <2>1, <2>2, <2>3, <2>4, QuietStep
<1>3. CASE endSaver
  <2>1. todo = Down2 /\ AllOff /\ todo' = Down3
    BY <1>1, <1>3, Heads, Tails DEF endSaver, at, SessionInv, AtItsStep
  <2>2. saver'.queue = saver.queue /\ saver'.queue = {}
        /\ saver' = [alive |-> saver'.alive, root |-> saver'.root, enabled |-> saver'.enabled,
                     queue |-> saver'.queue]
    BY <1>3 DEF endSaver, drained, SessionInv, SessionTypeOK
  <2>3. AtItsStep'
    BY <1>1, <2>1, <2>2 DEF AtItsStep, AllOff
  <2>4. SessionTypeOK'
    BY <1>1, <2>2 DEF SessionInv, SessionTypeOK
  <2>5. QED
    BY <1>1, <2>1, <2>2, <2>3, <2>4, QuietStep
<1>4. QED
  BY <1>2, <1>3

LEMMA OpenStep ==
  ASSUME SessionInv, assignCfg \/ openSession \/ connectAll
  PROVE  SessionInv'
<1>1. UNCHANGED <<pending_config, next, store, saver, written, accepted>>
      /\ todo # <<>> /\ todo' = Tail(todo)
  BY DEF assignCfg, openSession, connectAll, at, stepDone, unchangedLoad, dataVars
<1>2. CASE assignCfg
  <2>1. todo = Load6 /\ AllOff /\ saver.alive /\ store = {} /\ saver.root = DirOf[next]
        /\ todo' = Load7
    BY <1>1, <1>2, Heads, Tails DEF assignCfg, at, SessionInv, AtItsStep
  <2>2. cfg' = next /\ UNCHANGED <<clients, net>> /\ Index' = Index
    BY <1>2 DEF assignCfg, Index
  <2>3. AtItsStep' /\ SessionTypeOK'
    BY <1>1, <2>1, <2>2 DEF AtItsStep, AllOff, SessionInv, SessionTypeOK
  <2>4. QED
    BY <1>1, <2>1, <2>2, <2>3, QuietStep
<1>3. CASE openSession
  <2>1. todo = Load7 /\ saver.alive /\ store = {} /\ saver.root = DirOf[cfg] /\ todo' = Load8
    BY <1>1, <1>3, Heads, Tails DEF openSession, at, SessionInv, AtItsStep
  <2>2. cfg' = cfg /\ msm' = session' /\ Index' = DOMAIN ServersOf[cfg] /\ DOMAIN net' = Index'
        /\ \A i \in Index' : /\ clients'[i] = [phase |-> "off", address |-> ServersOf[cfg][i]]
                             /\ net'[i] = Idle
    BY <1>3 DEF openSession, Index
  <2>3. AllOff' /\ Ready'
    <3>1. ASSUME NEW i \in Index'
          PROVE  clients'[i].phase = "off" /\ clients'[i].address = ServersOf[cfg][i]
      <4>1. clients'[i] = [phase |-> "off", address |-> ServersOf[cfg][i]]
        BY <2>2
      <4>2. QED
        BY <4>1
    <3>2. QED
      BY <1>1, <2>1, <2>2, <3>1 DEF AllOff, Ready, ClientsOfCfg
  <2>4. AtItsStep' /\ SessionTypeOK'
    <3>1. ASSUME NEW i \in Index'
          PROVE  clients'[i] = [phase |-> clients'[i].phase, address |-> clients'[i].address]
      <4>1. clients'[i] = [phase |-> "off", address |-> ServersOf[cfg][i]]
        BY <2>2
      <4>2. QED
        BY <4>1
    <3>2. SessionTypeOK'
      BY <1>1, <2>2, <3>1 DEF SessionInv, SessionTypeOK
    <3>3. QED
      BY <2>1, <2>3, <3>2 DEF AtItsStep
  <2>5. FiledUnderItsServer' /\ Kept'
    BY <1>1 DEF SessionInv, FiledUnderItsServer, Kept
  <2>6. QED
    BY <2>2, <2>4, <2>5 DEF SessionInv
<1>4. CASE connectAll
  <2>1. todo = Load8 /\ AllOff /\ Ready /\ todo' = <<>>
    BY <1>1, <1>4, Heads, Tails DEF connectAll, at, SessionInv, AtItsStep
  <2>2. UNCHANGED <<cfg, session, msm, net>> /\ Index' = Index
        /\ \A i \in Index : clients'[i] = [clients[i] EXCEPT !.phase = "connecting"]
    BY <1>4 DEF connectAll, Index
  <2>3. \A i \in Index : clients'[i] = [phase |-> "connecting", address |-> clients[i].address]
    BY <2>2 DEF SessionInv, SessionTypeOK
  <2>4. AtItsStep'
    BY <1>1, <2>1, <2>2, <2>3 DEF AtItsStep, Ready, ClientsOfCfg
  <2>5. SessionTypeOK'
    BY <1>1, <2>2, <2>3 DEF SessionInv, SessionTypeOK
  <2>6. \A i \in Index' : net'[i] = Idle
    BY <2>1, <2>2 DEF SessionInv, AllOff, InCallback
  <2>7. FiledUnderItsServer' /\ Kept'
    BY <1>1 DEF SessionInv, FiledUnderItsServer, Kept
  <2>8. QED
    BY <2>4, <2>5, <2>6, <2>7 DEF SessionInv
<1>5. QED
  BY <1>2, <1>3, <1>4

LEMMA SessionInvNext == SessionInv /\ [Next]_vars => SessionInv'
<1> SUFFICES ASSUME SessionInv, [Next]_vars PROVE SessionInv'
  OBVIOUS
<1>1. CASE LoadStep
  BY <1>1, DisconnectStep, TeardownStep, SaverStep, OpenStep DEF LoadStep
<1>2. CASE UNCHANGED vars
  <2>1. UNCHANGED <<cfg, pending_config, todo, next, session, msm, clients, net, dataVars>>
    BY <1>2 DEF vars, appVars
  <2>2. QED
    BY <2>1, SessionElsewhere DEF SessionInv, SessionTypeOK
<1>3. QED
  BY <1>1, <1>2, ConnectionStep, ServerStep, CaptureStep, WorkerStep, LoopStep
     DEF Next, Callback

LEMMA SessionInvariant == Spec => []SessionInv
BY SessionInvInit, SessionInvNext, PTL DEF Spec

-----------------------------------------------------------------------------
(* A receive thread never calls into a session that is gone: whatever a    *)
(* load (loadPendingConfig) or the shutdown has torn down, while a         *)
(* callback runs its manager and the saver are there.                      *)
THEOREM CallbacksAreSafe == Spec => []CallbacksFindTheirSession
<1>1. SessionInv => CallbacksFindTheirSession
  <2> SUFFICES ASSUME SessionInv, NEW i \in Index, net[i] # Idle
               PROVE  msm = net[i].frame.session /\ saver.alive
    BY DEF CallbacksFindTheirSession
  <2>1. InCallback(i)
    BY DEF SessionInv
  <2>2. Ready
    BY <2>1, UpMeansReady DEF InCallback
  <2>3. QED
    BY <2>1, <2>2 DEF InCallback, Ready
<1>2. QED
  BY <1>1, SessionInvariant, PTL

(* However loads and captures interleave, a capture is filed under the     *)
(* server that sent it and in the directory of the config it was taken     *)
(* under (the callback set by openSession).                                *)
THEOREM CapturesFiledRight == Spec => []FiledUnderItsServer
<1>1. SessionInv => FiledUnderItsServer
  BY DEF SessionInv
<1>2. QED
  BY <1>1, SessionInvariant, PTL

(* No capture that was accepted is lost to a load or to leaving: it is     *)
(* queued or written, and written once the program exits (App::shutdown).  *)
THEOREM CapturesAreWritten == Spec => []EveryCaptureIsWritten
<1>1. SessionInv => EveryCaptureIsWritten
  <2>1. SessionInv /\ Exited => saver.queue = {}
    BY Heads DEF SessionInv, AtItsStep, Exited, at
  <2>2. QED
    BY <2>1 DEF SessionInv, Kept, EveryCaptureIsWritten
<1>2. QED
  BY <1>1, SessionInvariant, PTL

(* Once a config is loaded, no frame of an earlier session is in the store *)
(* (loadPendingConfig clears it after the receive threads are gone).       *)
THEOREM StoreIsOfTheSession == Spec => []StoreIsThisSessions
<1>1. SessionInv => StoreIsThisSessions
  BY NonEmpty DEF SessionInv, AtItsStep, Ready, StoreIsThisSessions, InLoop
<1>2. QED
  BY <1>1, SessionInvariant, PTL
=============================================================================
