------------------------------- MODULE HubServer -------------------------------
(***************************************************************************)
(* runtime/server.py: the life of a ProcessHubServer in run(), on the main    *)
(* thread, over an EventBusTransport whose client calls the message handlers *)
(* one at a time, but for clients that a failed start has left.  The handlers *)
(* are HubCore's in detail; here each is one step, but for the executor's call *)
(* that a start request waits for under _operation_lock.  The restart rounds *)
(* of tick are HubCore's.                                                   *)
(***************************************************************************)
EXTENDS EventBusTransport, Naturals

CONSTANTS Panels, Names,
          ServerTopics, ExtraTopics,    \* registered by __init__, and by others later
          ConnectionTopic, ProcessTopic,
          MaxRuns,          \* bound on the calls of run
          MaxInputs         \* bound on messages, requests and registrations together

ASSUME ServerAssumptions ==
  /\ Topics = ServerTopics \cup ExtraTopics
  /\ {ConnectionTopic, ProcessTopic} \subseteq ServerTopics
  /\ MaxRuns \in Nat /\ MaxInputs \in Nat

Admin == "__admin__"
Registry == INSTANCE ProcessRegistry WITH Procs <- Names, Requesters <- Panels \cup {Admin}

VARIABLES
  running,          \* _running
  main,             \* where the main thread is in run
  connections,      \* panels in _connections
  registry,         \* the core's registry
  handler,          \* the start request that waits for the executor, if any
  alive,            \* processes that run
  configs,          \* names with a configuration, in one dict with the dashboard
  view,             \* the snapshot the view shows
  told,             \* panels that this stop has sent SHUTDOWN_NOTIFY
  lost,             \* panels whose notification failed in the broker
  runs, inputs

coreVars == <<connections, registry, alive>>
loopVars == <<running, main, view>>
serverVars == <<coreVars, loopVars, handler, configs, told, lost, runs, inputs>>

Idle == [at |-> "out"]
NoHandler == [op |-> "none"]
NothingShown == [connections |-> {}, processes |-> Registry!GetSnapshot(Registry!EmptyRegistry)]

ServerInit ==
  /\ BusInit(ServerTopics)
  /\ running = FALSE
  /\ main = Idle
  /\ connections = {}
  /\ registry = Registry!EmptyRegistry
  /\ handler = NoHandler
  /\ alive = {}
  /\ configs \in (SUBSET Names) \ {{}}
  /\ view = NothingShown
  /\ told = {} /\ lost = {}
  /\ runs = 0 /\ inputs = 0

Input == inputs < MaxInputs /\ inputs' = inputs + 1

\* _operation_lock, seen by everybody but the start request that holds it.
LockFree == handler = NoHandler

-----------------------------------------------------------------------------
\* run, up to the loop.

\* run: the signal handlers are set before start is called.
RunBegins ==
  /\ main = Idle /\ runs < MaxRuns
  /\ runs' = runs + 1
  /\ main' = [at |-> "starting"]
  /\ UNCHANGED <<busVars, coreVars, running, view, handler, configs, told, lost, inputs>>

\* _signal_handler, at any time from there.
Signal ==
  /\ main # Idle
  /\ running' = FALSE
  /\ UNCHANGED <<busVars, coreVars, main, view, handler, configs, told, lost, runs, inputs>>

\* start on a transport that a failed stop has left started
StartsStarted ==
  /\ main.at = "starting" /\ transportStarted
  /\ running' = TRUE
  /\ main' = [at |-> "loop"]
  /\ UNCHANGED <<busVars, coreVars, view, handler, configs, told, lost, runs, inputs>>

Connects ==
  /\ main.at = "starting"
  /\ Connect
  /\ main' = [at |-> "subscribing"]
  /\ UNCHANGED <<coreVars, running, view, handler, configs, told, lost, runs, inputs>>

\* start raises out of run, before its try statement.
RunRaises ==
  /\ main.at = "starting"
  /\ ConnectFails
  /\ main' = Idle
  /\ UNCHANGED <<coreVars, running, view, handler, configs, told, lost, runs, inputs>>

\* Its subscriptions, one after the other ...
StartSubscribes ==
  /\ main.at = "subscribing"
  /\ SubscribeNext \/ EndSubscribing
  /\ UNCHANGED <<coreVars, loopVars, handler, configs, told, lost, runs, inputs>>

\* ... or start raises out of run as above.
StartRaises ==
  /\ main.at = "subscribing"
  /\ StartBreaks
  /\ main' = Idle
  /\ UNCHANGED <<coreVars, running, view, handler, configs, told, lost, runs, inputs>>

Starts ==
  /\ main.at = "subscribing"
  /\ BusStarts
  /\ running' = TRUE
  /\ main' = [at |-> "loop"]
  /\ UNCHANGED <<coreVars, view, handler, configs, told, lost, runs, inputs>>

-----------------------------------------------------------------------------
\* The loop: get_state_snapshot takes the locks of connections and registry one after
\* the other, and the view is given the result.

\* Mutant: the loop goes on whatever _running is.
SnapshotConnectionsAnyway ==
  /\ main.at = "loop"
  /\ main' = [at |-> "connections", connections |-> connections]
  /\ UNCHANGED <<busVars, coreVars, running, view, handler, configs, told, lost, runs, inputs>>

SnapshotConnections ==
  /\ main.at = "loop" /\ running
  /\ main' = [at |-> "connections", connections |-> connections]
  /\ UNCHANGED <<busVars, coreVars, running, view, handler, configs, told, lost, runs, inputs>>

SnapshotProcesses ==
  /\ main.at = "connections"
  /\ main' = [at |-> "snapshot", connections |-> main.connections, processes |-> Registry!GetSnapshot(registry)]
  /\ UNCHANGED <<busVars, coreVars, running, view, handler, configs, told, lost, runs, inputs>>

\* Mutant: the view is refreshed only when panels came or went.
RenderPanels ==
  /\ main.at = "snapshot"
  /\ view' = IF main.connections = view.connections THEN view
             ELSE [connections |-> main.connections, processes |-> main.processes]
  /\ main' = [at |-> "loop"]
  /\ UNCHANGED <<busVars, coreVars, running, handler, configs, told, lost, runs, inputs>>

\* render, then the sleep
Render ==
  /\ main.at = "snapshot"
  /\ view' = [connections |-> main.connections, processes |-> main.processes]
  /\ main' = [at |-> "loop"]
  /\ UNCHANGED <<busVars, coreVars, running, handler, configs, told, lost, runs, inputs>>

-----------------------------------------------------------------------------
\* stop, from the finally clause of run.

\* _stop_process, for each of the names: the executor may fail, or the process survive.
StopProcesses(names) == \E stopped \in SUBSET names : alive' = alive \ stopped

\* shutdown: the panels to tell
ShutdownLists ==
  /\ main.at = "loop" /\ ~running
  /\ main' = [at |-> "listed", panels |-> connections, names |-> Registry!AllNames(registry)]
  /\ UNCHANGED <<busVars, coreVars, running, view, handler, configs, told, lost, runs, inputs>>

\* its processes, one after the other, without _operation_lock
ShutdownStops ==
  /\ main.at = "listed" /\ main.names # {}
  /\ \E n \in main.names :
       /\ main' = [main EXCEPT !.names = @ \ {n}]
       /\ StopProcesses({n})
  /\ UNCHANGED <<busVars, connections, registry, running, view, handler, configs, told, lost,
                 runs, inputs>>

ShutdownClears ==
  /\ main.at = "listed" /\ main.names = {}
  /\ registry' = Registry!EmptyRegistry
  /\ main' = [at |-> "cleared", panels |-> main.panels]
  /\ UNCHANGED <<busVars, connections, alive, running, view, handler, configs, told, lost,
                 runs, inputs>>

ShutdownDrops ==
  /\ main.at = "cleared"
  /\ connections' = {}
  /\ main' = [at |-> "telling", panels |-> main.panels]
  /\ UNCHANGED <<busVars, registry, alive, running, view, handler, configs, told, lost,
                 runs, inputs>>

\* _send_messages of SHUTDOWN_NOTIFY: a panel is told unless the broker fails; what
\* raises in send_async is logged.
Tell(panels) ==
  IF CanSend
  THEN \E failed \in {{}, panels} : told' = told \cup (panels \ failed) /\ lost' = lost \cup failed
  ELSE UNCHANGED <<told, lost>>

\* Mutant: the transport is stopped before the notifications are sent.
StopTellsLate ==
  /\ main.at = "telling" \/ (main.at = "closing" /\ ~transportStarted)
  /\ IF main.at = "telling"
     THEN /\ main' = [at |-> "closing", panels |-> main.panels]
          /\ Unsubscribe
          /\ UNCHANGED <<told, lost>>
     ELSE /\ Tell(main.panels)
          /\ main' = Idle
          /\ UNCHANGED busVars
  /\ UNCHANGED <<coreVars, running, view, handler, configs, runs, inputs>>

StopTells ==
  /\ main.at = "telling"
  /\ Tell(main.panels)
  /\ main' = [at |-> "told", panels |-> main.panels]
  /\ UNCHANGED <<busVars, coreVars, running, view, handler, configs, runs, inputs>>

StopUnsubscribes ==
  /\ main.at = "told"
  /\ Unsubscribe
  /\ main' = [at |-> "closing", panels |-> main.panels]
  /\ UNCHANGED <<coreVars, running, view, handler, configs, told, lost, runs, inputs>>

\* The last step of run, whether the client closes or not.
StopCloses ==
  /\ main.at = "closing"
  /\ CloseClient \/ CloseFails
  /\ main' = [at |-> "ended", panels |-> main.panels]
  /\ UNCHANGED <<coreVars, running, view, handler, configs, told, lost, runs, inputs>>

RunReturns ==
  /\ main.at = "ended"
  /\ main' = Idle
  /\ told' = {} /\ lost' = {}
  /\ UNCHANGED <<busVars, coreVars, running, view, handler, configs, runs, inputs>>

MainSteps ==
  \/ StartsStarted \/ Connects \/ RunRaises \/ StartSubscribes \/ StartRaises \/ Starts
  \/ SnapshotConnections \/ SnapshotProcesses \/ Render
  \/ ShutdownLists \/ ShutdownStops \/ ShutdownClears \/ ShutdownDrops
  \/ StopTells \/ StopUnsubscribes \/ StopCloses \/ RunReturns

-----------------------------------------------------------------------------
\* Messages, on the transport's thread.

\* _on_register_request, which takes no lock that a start request would hold
OnRegister(p) ==
  /\ Input /\ Hears(ConnectionTopic)
  /\ handler = NoHandler \/ HearsTwice(ConnectionTopic)
  /\ connections' = connections \cup {p}
  /\ UNCHANGED <<busVars, registry, alive, loopVars, handler, configs, told, lost, runs>>

\* _on_unregister_request: what nobody requires any more is stopped and removed; the
\* answer of the executor is not looked at.
OnUnregister(p) ==
  /\ Input /\ handler = NoHandler /\ Hears(ConnectionTopic)
  /\ p \in connections
  /\ connections' = connections \ {p}
  /\ LET orphans == Registry!Orphans(registry, p)
     IN  /\ registry' = [n \in Names |-> IF n \in orphans THEN Registry!NoEntry
                                         ELSE Registry!RemoveRequester(registry, p)[n]]
         /\ StopProcesses(orphans)
  /\ UNCHANGED <<busVars, loopVars, handler, configs, told, lost, runs>>

\* _on_start_request, up to the executor: _start_process has read the configuration.
OnStart(p, n) ==
  /\ Input /\ handler = NoHandler /\ Hears(ProcessTopic)
  /\ p \in connections
  /\ registry' = Registry!WithState(Registry!Register(registry, n, p), n, "STARTING")
  /\ handler' = [op |-> "start", panel |-> p, name |-> n, config |-> n \in configs]
  /\ UNCHANGED <<busVars, connections, alive, loopVars, configs, told, lost, runs>>

\* ... and what the executor made of it: nothing without a configuration
StartEnds ==
  /\ handler.op = "start"
  /\ \E success \in {FALSE, handler.config} :
       /\ alive' = IF success THEN alive \cup {handler.name} ELSE alive
       /\ registry' = IF success THEN Registry!WithState(registry, handler.name, "RUNNING")
                      ELSE Registry!Unregister(Registry!WithState(registry, handler.name, "FAILED"),
                                               handler.name, handler.panel)
  /\ handler' = NoHandler
  /\ UNCHANGED <<busVars, connections, loopVars, configs, told, lost, runs, inputs>>

\* Another component registers a handler with the transport of the server, from a thread
\* of its own (fleet/hub_agent.py, start), wherever run is ...
RegisterLate(topic) ==
  /\ Input
  /\ RegisterHandler(topic)
  /\ UNCHANGED <<coreVars, loopVars, handler, configs, told, lost, runs>>

\* ... and goes on in register_handler.
RegistersOn ==
  /\ TestStarted \/ SubscribeLate
  /\ UNCHANGED <<coreVars, loopVars, handler, configs, told, lost, runs, inputs>>

Dies(n) ==
  /\ Input
  /\ alive' = alive \ {n}
  /\ UNCHANGED <<busVars, connections, registry, loopVars, handler, configs, told, lost, runs>>

-----------------------------------------------------------------------------
Snapshots == UNION {[names -> Registry!ProcessInfo] : names \in SUBSET Names}

Places ==
  [at : {"out", "starting", "subscribing", "loop"}]
  \cup [at : {"connections"}, connections : SUBSET Panels]
  \cup [at : {"snapshot"}, connections : SUBSET Panels, processes : Snapshots]
  \cup [at : {"listed"}, panels : SUBSET Panels, names : SUBSET Names]
  \cup [at : {"cleared", "telling", "told", "closing", "ended"}, panels : SUBSET Panels]

\* The panels that shutdown has listed are told, unless the broker fails, before the
\* transport is stopped (README, ADR-010: "Clients notified before server stops").
ListedAreTold == main.at = "ended" => main.panels \subseteq told \cup lost

\* On a started transport every topic that has a handler is heard, whenever the handler
\* was registered: before a start or in the middle of an earlier one that it broke, after
\* it or during a stop.  But for topics whose subscription itself has failed, those that a
\* stop has given up which then failed to close the client, and those registered between
\* the end of start's iteration and the moment that it says it has started.
TopicsHeard ==
  transportStarted =>
    \A topic \in handlers : \/ topic \in bound \cup missed \cup unheard
                            \/ registering # NoRegistration /\ registering.topic = topic

\* In the loop of run every topic is heard whose subscription has not failed ("If already
\* started, subscribe now", eventbus_transport.py:427): refuted, by a registration
\* between the end of start's iteration and _started, and by a stop that failed.
LoopHears ==
  main.at = "loop" => \A topic \in handlers : \/ topic \in bound \cup missed
                                              \/ registering # NoRegistration
================================================================================
