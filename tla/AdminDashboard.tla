---------------------------- MODULE AdminDashboard ----------------------------
(***************************************************************************)
(* The web dashboard of a running hub: the endpoints of ui/web_view.py with   *)
(* the callbacks of examples/10_admin_dashboard.py, over HubServer.           *)
(*                                                                          *)
(* The endpoints are coroutines that call blocking callbacks, so the web       *)
(* server's loop handles one request at a time.  view.stop ends neither the   *)
(* loop nor the thread: requests are handled whether or not the hub runs.      *)
(***************************************************************************)
EXTENDS HubServer

VARIABLES
  web,              \* the request that is handled
  admin             \* processes that run because the dashboard started them

vars == <<busVars, serverVars, web, admin>>

NoRequest == [op |-> "none"]

DashboardInit ==
  /\ ServerInit
  /\ web = NoRequest
  /\ admin = {}

\* Mutant: the endpoints are plain functions, which the web server runs on a pool of
\* threads: another request is taken while one waits for the executor.
LoopFreeAlways == TRUE

\* The loop takes a request when it has answered the one before.  (A start is taken only
\* then in any case: web has room for one.)
LoopFree == web = NoRequest

unchangedServer == <<busVars, loopVars, handler, told, lost, runs>>

-----------------------------------------------------------------------------
\* POST /api/admin/processes/start and /{name}/start, on_process_start.

StartRequest(names) ==
  /\ Input /\ web = NoRequest
  /\ web' = [op |-> "start", names |-> names]
  /\ UNCHANGED <<unchangedServer, coreVars, configs, admin>>

StartOne(n) == StartRequest({n})

\* A name without a configuration is passed over.
StartLooksUp ==
  /\ web.op = "start"
  /\ \E n \in web.names :
       LET left == web.names \ {n}
       IN  web' = IF n \in configs THEN [op |-> "starting", name |-> n, names |-> left]
                  ELSE [web EXCEPT !.names = left]
  /\ UNCHANGED <<unchangedServer, coreVars, configs, admin, inputs>>

\* executor.start: a process that runs already is a success.
StartExecutes ==
  /\ web.op = "starting"
  /\ \E success \in BOOLEAN :
       /\ alive' = IF success THEN alive \cup {web.name} ELSE alive
       /\ admin' = IF success /\ web.name \notin alive THEN admin \cup {web.name} ELSE admin
       /\ web' = IF success THEN [web EXCEPT !.op = "started"]
                 ELSE [op |-> "start", names |-> web.names]
  /\ UNCHANGED <<unchangedServer, connections, registry, configs, inputs>>

\* server.register_admin_process
StartRegisters ==
  /\ web.op = "started" /\ LockFree
  /\ registry' = IF Registry!Get(registry, web.name).state \in {"RUNNING", "STARTING"} THEN registry
                 ELSE Registry!WithState(Registry!Register(registry, web.name, Admin),
                                         web.name, "RUNNING")
  /\ web' = [op |-> "start", names |-> web.names]
  /\ UNCHANGED <<unchangedServer, connections, alive, configs, admin, inputs>>

-----------------------------------------------------------------------------
\* POST /api/admin/processes/stop and /{name}/stop, on_process_stop.

StopRequest(names) ==
  /\ Input /\ LoopFree
  /\ web' = [op |-> "stop", names |-> names]
  /\ UNCHANGED <<unchangedServer, coreVars, configs, admin>>

StopOne(n) == StopRequest({n})

\* executor.stop
StopExecutes ==
  /\ web.op = "stop" /\ web.names # {}
  /\ \E n \in web.names, success \in BOOLEAN :
       /\ alive' = IF success THEN alive \ {n} ELSE alive
       /\ web' = IF success THEN [op |-> "stopped", name |-> n, names |-> web.names \ {n}]
                 ELSE [web EXCEPT !.names = @ \ {n}]
  /\ admin' = admin \cap alive'
  /\ UNCHANGED <<unchangedServer, connections, registry, configs, inputs>>

\* server.unregister_admin_process
StopUnregisters ==
  /\ web.op = "stopped" /\ LockFree
  /\ registry' =
       LET released == Registry!Unregister(registry, web.name, Admin)
       IN  IF Registry!CanStop(registry, web.name, Admin)
           THEN Registry!WithState(released, web.name, "STOPPED") ELSE released
  /\ web' = [op |-> "stop", names |-> web.names]
  /\ UNCHANGED <<unchangedServer, connections, alive, configs, admin, inputs>>

\* A start or a stop is answered when no name is left.
Answer ==
  /\ web.op \in {"start", "stop"} /\ web.names = {}
  /\ web' = NoRequest
  /\ UNCHANGED <<unchangedServer, coreVars, configs, admin, inputs>>

-----------------------------------------------------------------------------
\* /api/admin/config

\* POST: a name that has none, with a script
AddConfig(n) ==
  /\ Input /\ LoopFree
  /\ n \notin configs
  /\ configs' = configs \cup {n}
  /\ UNCHANGED <<unchangedServer, coreVars, web, admin>>

\* PUT: replaces the configuration of a name that has one, also of a process that runs;
\* what is in it is left out.
UpdateConfig(n) ==
  /\ Input /\ LoopFree
  /\ n \in configs
  /\ UNCHANGED <<unchangedServer, coreVars, configs, web, admin>>

\* DELETE: not while its process runs
RemoveConfig(n) ==
  /\ Input /\ LoopFree
  /\ n \in configs \ alive
  /\ configs' = configs \ {n}
  /\ UNCHANGED <<unchangedServer, coreVars, web, admin>>

-----------------------------------------------------------------------------
\* POST /api/admin/reset: server.reset.

ResetRequest ==
  /\ Input /\ LoopFree
  /\ web' = [op |-> "reset"]
  /\ UNCHANGED <<unchangedServer, coreVars, configs, admin>>

\* processes and registry under _operation_lock
ResetStops ==
  /\ web.op = "reset" /\ LockFree
  /\ \E survivors \in SUBSET (alive \cap Registry!AllNames(registry)) :
       alive' = (alive \ Registry!AllNames(registry)) \cup survivors
  /\ registry' = Registry!EmptyRegistry
  /\ web' = [web EXCEPT !.op = "cleared"]
  /\ admin' = admin \cap alive'
  /\ UNCHANGED <<unchangedServer, connections, configs, inputs>>

ResetDrops ==
  /\ web.op = "cleared"
  /\ connections' = {}
  /\ web' = [web EXCEPT !.op = "telling"]
  /\ UNCHANGED <<unchangedServer, registry, alive, configs, admin, inputs>>

\* _send_messages tells them of the reset, unless the server has stopped its transport
\* meanwhile.
ResetTells ==
  /\ web.op = "telling"
  /\ web' = NoRequest
  /\ UNCHANGED <<unchangedServer, coreVars, configs, admin, inputs>>

-----------------------------------------------------------------------------
\* What the GET endpoints answer, from the snapshot last rendered: a list entry for each
\* process, with its name.

StateToModel(snapshot) ==
  [connections |-> snapshot.connections,
   processes |-> {[name |-> n, state |-> snapshot.processes[n].state,
                   requesters |-> snapshot.processes[n].users] : n \in DOMAIN snapshot.processes}]

GetConnections == view.connections
GetProcesses == StateToModel(view).processes
GetState == [connections |-> GetConnections, processes |-> GetProcesses]

-----------------------------------------------------------------------------
WebSteps ==
  \/ \E names \in (SUBSET Names) \ {{}} : StartRequest(names) \/ StopRequest(names)
  \/ StartLooksUp \/ StartExecutes \/ StartRegisters \/ StopExecutes \/ StopUnregisters \/ Answer
  \/ \E n \in Names : \/ StartOne(n) \/ StopOne(n)
                      \/ AddConfig(n) \/ UpdateConfig(n) \/ RemoveConfig(n)
  \/ ResetRequest \/ ResetStops \/ ResetDrops \/ ResetTells

Server(steps) == steps /\ admin' = admin \cap alive' /\ UNCHANGED web

Next ==
  \/ Server(RunBegins) \/ Server(Signal)
  \/ Server(StartsStarted) \/ Server(Connects) \/ Server(RunRaises)
  \/ Server(StartSubscribes) \/ Server(StartRaises) \/ Server(Starts)
  \/ Server(SnapshotConnections) \/ Server(SnapshotProcesses) \/ Server(Render)
  \/ Server(ShutdownLists) \/ Server(ShutdownStops) \/ Server(ShutdownClears)
  \/ Server(ShutdownDrops)
  \/ Server(StopTells) \/ Server(StopUnsubscribes) \/ Server(StopCloses) \/ Server(RunReturns)
  \/ \E p \in Panels : \/ Server(OnRegister(p)) \/ Server(OnUnregister(p))
                       \/ \E n \in Names : Server(OnStart(p, n))
  \/ Server(StartEnds)
  \/ \E topic \in ExtraTopics : Server(RegisterLate(topic))
  \/ Server(RegistersOn)
  \/ \E n \in alive : Server(Dies(n))
  \/ WebSteps

\* The main thread runs on, and the calls of the EventBus client return.
Fairness == WF_vars(Server(MainSteps))

DashboardSpec == DashboardInit /\ [][Next]_vars
DashboardFairSpec == DashboardSpec /\ Fairness

-----------------------------------------------------------------------------
Requests ==
  [op : {"none"}]
  \cup [op : {"start", "stop"}, names : SUBSET Names]
  \cup [op : {"starting", "started", "stopped"}, name : Names, names : SUBSET Names]
  \cup [op : {"reset", "cleared", "telling"}]

\* The state is of the types the code gives it.
DashboardTyped ==
  /\ BusTyped
  /\ running \in BOOLEAN /\ main \in Places
  /\ connections \subseteq Panels /\ told \subseteq Panels /\ lost \subseteq Panels
  /\ registry \in Registry!Registries
  /\ handler \in [op : {"none"}] \cup [op : {"start"}, panel : Panels, name : Names, config : BOOLEAN]
  /\ alive \subseteq Names /\ configs \subseteq Names
  /\ view \in [connections : SUBSET Panels, processes : Snapshots]
  /\ runs \in 0..MaxRuns /\ inputs \in 0..MaxInputs
  /\ web \in Requests /\ admin \subseteq alive

\* A process that the dashboard has started and that runs has a configuration, by which
\* it can be started again: it is removed only while the process does not run, and no
\* request comes between the look at the configuration and the start.
AdminProcessIsConfigured == admin \subseteq configs

\* As long as run is in its loop and not told to stop, the view comes to show the hub
\* as it is.
ViewCatchesUp ==
  <>[](main.at \in {"loop", "connections", "snapshot"})
    => <>[](GetState = StateToModel([connections |-> connections,
                                           processes |-> Registry!GetSnapshot(registry)]))

\* A signal or whatever sets _running to FALSE in the loop ends run, through the
\* shutdown of core and transport (server.py:540 "and handles shutdown signals").
SignalEndsRun ==
  (main.at \in {"loop", "connections", "snapshot"} /\ ~running) ~> (main.at = "out")
=============================================================================
