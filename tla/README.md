# A verification development for ProcessHub

ProcessHub (`src/ProcessHub/`) is a hub that starts, watches and restarts
processes on behalf of client panels. Panels register with the hub, ask for
processes and release them; the hub keeps a process as long as somebody requires
it, looks after its health and, when it dies, coordinates a restart with the
panels that use it. A web dashboard and a fleet orchestrator act on the same hub.

These modules model the hub as a state machine, check it with TLC on small
instances and prove its main properties with TLAPS for instances of any size.

## The system

| Part | Source | State | Operations | Made correct by |
|---|---|---|---|---|
| Restart FSM | `core/restart_state.py` | state, killed processes, pending and notified panels, start time, retries | `detect_killed`, `notifications_sent`, `panel_acknowledged`, `begin_restart`, `restart_completed`, `reset_to_idle`, `check_timeout`, `force_fail` | one round at a time, no restart before the last answer, every round ends |
| Process registry | `core/process_registry.py`, `core/models.py` | per process: state and requesters | `register`, `unregister`, `remove`, `update_state`, `remove_requester_from_all`, `mark_dead`, `clear_all` | an entry is kept for somebody, and says what the process does |
| Hub core and server | `core/hub_core.py`, `runtime/server.py` | connections, registry, FSM, `_operation_lock` | message handlers, `tick`, restart, `reset`, `shutdown`, admin registration | mutual exclusion, safe stopping, no duplicates, no orphans |
| Executors | `process/executor.py`, `process/platform/` | handle and pid per process | `start`, `stop`, `is_running`, `update_process` | one instance per name, a stop that stops |
| Process manager | `process/manager.py` | registry, configurations, one lock | `register`, `start`, `stop`, `force_stop_all`, `health_check`, `update_process` | no second instance, what is `DEAD` does not run |
| Logging | `logging/integration.py` | logging server, next port | start, stop, a port per start | no two processes on one port |
| Client | `runtime/client.py`, `client_controller.py` | registered, one wait event, watchers | requests with timeouts, handlers, callbacks | client and hub agree on the registration; silence is reported, an answer is not |
| Fleet registry, orchestrator, agent | `fleet/` | hubs and their heartbeats, pending commands | announce, heartbeat, report, command, check health | a hub's status follows its heartbeats |
| Fleet client, web API | `fleet/fleet_client.py`, `web_api.py` | last events | commands, batches | - |
| ZeroMQ transport | `transport/zmq_transport.py` | broker, client, its loop, sockets and topics | start, stop, send, register, handlers on the loop | order, no topic missed, no handler after a stop |
| EventBus transport | `transport/eventbus_transport.py` | client, handlers, subscriptions | start, stop, send, register | every topic with a handler is heard |
| Web dashboard | `ui/web_view.py`, `examples/10_admin_dashboard.py` | last snapshot, configurations | start, stop, reset, configuration | the view catches up; what it started has a configuration |
| Configuration | `config/` | - | load, expand, `compute_restart_sequence` | - |

How they interact: a transport thread calls the server's handlers one after the
other; the handler calls one method of the core and sends the messages that it
returns. The main loop calls `tick` and sends what that returns. The dashboard
and the fleet agent call the server and the core from threads of their own. The
core calls the executor, partly while it holds `_operation_lock`. The registry,
the connections and the FSM have a lock each, held for a single method.

What is hard about it: four threads meet in the core, and only some of them take
`_operation_lock`; decisions are made on values read under another lock; a
restart round passes from the main thread (detection, notification) to the
transport thread (answers, restart) and can be taken away by a timeout or a
reset; processes die and ignore signals at any moment. `PROJECT.json` lists these
hazards with the line of code each belongs to.

## The modules

**`RestartCycle`** is the abstract restart round: it opens for a set of panels,
gathers an answer of each, restarts, ends.

**`RestartStateMachine`** is `restart_state.py`. One action per method, since each
method holds the machine's lock throughout; a method that returns `False` is an
action that is not enabled. `clock` stands for `started_at` (unset, inside the
timeout, past it), `retryCount` saturates at `max_retries`. It implements
`RestartCycle` under the mapping `Phase`/`Awaited` (`RefinesCycle`).

**`ProcessRegistry`** is `process_registry.py` as operators on a registry value.
It has no state of its own: the core owns the registry, and each call is one
operator applied in the step that makes it.

**`HubCore`** is `hub_core.py` behind `server.py`. Its state is that of the core
(`connected`, `registry`, the FSM's variables, `opLock`), that of the world
(`running`; `survived`, those of them whose kill has failed; `leaked`, instances whose handle
is lost), that of the panels (`blocked`, `answered`, `acks`), and for
each thread where it is (`pc`) and its local variables (`frame`). It has the
threads `transport`, `main`, `fleet` and `admin`; a configuration names those
that a deployment has. `ProcessRegistry` and `RestartStateMachine` are
instantiated in it, so a step of the hub applies their definitions.

A step is one lock hold or one executor call. Where a method makes several
registry calls in a row they are one step, and so are an executor call and the
registry call next to it: the first reads and writes only the executor's state,
the second only the registry's, and no thread decides on both at once, so any
interleaving in between has the same outcome as one before or after. Where a
value is read under one lock and used under another (`killed_processes` in
`_perform_restart`, the active processes in `tick`, the panels in `reset` and
`shutdown`) the steps are separate. A list of process names is a set that is
worked off in any order; the code's order is one of them.

| Code | Actions |
|---|---|
| `handle_register`, `handle_unregister` | `HandleRegister`, `HandleUnregister`, `Unregister...` |
| `handle_start_request` | `RequestStart`, `Start...` |
| `handle_stop_request` | `RequestStop`, `Stop...` |
| `handle_restart_ready`, `_perform_restart` | `HandleRestartReady`, `Restart...`, `SendDone` |
| `tick`, `_handle_restart_timeout` | `TickTimeout`, `Timeout...`, `TickActive` ... `TickNotify`, `SendNotify` |
| `reset` | `ResetBegin` ... `ResetFsm`, `SendDone` |
| `register_admin_process`, `unregister_admin_process` | `AdminStart`, `RegisterAdminProcess`, `AdminStop`, `UnregisterAdminProcess` |
| `stop`, `shutdown` | `ShutdownBegin` ... `ShutdownConnections`, `TransportStop` |
| executor, managed process | `ExecStart`, `ExecStop`, `Crash` |

**`ConnectionTable`** is the core's `_connections` with the session each panel belongs to and
the list of the session's panels, computed when somebody registers.

**`Client`** is `client.py` with the callbacks of a `ClientController` over the table of
connections. A client's threads are the application's, the transport's, which runs response
handlers and callbacks (`handling`), and a watcher per request (`watchers`); they meet at
`waitEvent`, as in the code the only one. The server of this module answers one
request at a time (`serving`) in the steps in which `server.py` does: look whether the panel is
registered, call the core, send. A second thread of it may reset the hub (`resetting`), a third
notifies of a restart. `settled` and `disturbed` are history: whether anything has been heard
since the last request, and the panels a loss, a stop or a reset under way came across.

**`ZmqTransport`** is `zmq_transport.py`: per node a transport (`handlers`, `client`), per client
that it ever created a loop (`stage`, `scheduled`, `handling`), its sockets (`subscribed`,
`inbound`; `others` for what nodes outside the model send) and what `run_coroutine_threadsafe` has
handed to it. A stop whose join times out
leaves a client running beside the next, so clients are numbered. Where the code shares a set
between threads without a lock the steps are those of the iteration: `start` copies the handlers
(`StartClient`, or `CopyFails` when one is registered meanwhile), `_async_main` makes the socket
visible (`OpenSubSocket`) and then subscribes the live set one topic at a time (`BeginSubscribing`,
`SubscribeNext`, `EndSubscribing`); a new topic in between ends the loop (`BreakLoop`). A
registration is three steps: the handler is kept, the topic put into the set, the subscription
scheduled if there is a socket (`RegisterHandler`, `RegisterTopic`, `SubscribeLate`). After a
handler the subscriber either waits for a message, which frees the loop (`HandlerReturns`), or
finds one and goes on without letting anything else run (`HandlerFollows`).

**`Executor`** is the four executors of `process/` on one state: the instances that run, and the one
the executor refers to. What a start or a stop can come to is a set of outcomes per kind
(`SimpleStartOutcomes` ... `WindowsStopOutcomes`), from which the caller's step takes one.
**`ProcessManager`** is `manager.py` over it. `holder` is the operation that has the manager's
lock and how far it is; the operations without a lock (`UpdateProcess`,
`RemoveRequesterFromAll`, the logging server's `StartLogging` and `StopLogging`) come between
its steps. A start is given a port by `LoggingAwareExecutor`.

**`EventBusTransport`** is `eventbus_transport.py` over an external client each call of which may
fail. Its start connects, subscribes topic by topic and only then says that it has started
(`Connect`, `SubscribeNext`, `EndSubscribing`, `BusStarts`); a registration, from any thread, keeps
the handler, tests `_started` and subscribes (`RegisterHandler`, `TestStarted`, `SubscribeLate`), and
a handler that is new during the iteration breaks the start (`StartBreaks`). The client of a start
that failed is not closed: what it consumes goes on being heard (`abandoned`). `missed` and `unheard`
are history: topics whose subscription failed, and those that a stop gave up or a registration
brought in the last moment of a start. **`HubServer`** extends it with the main thread of `server.py` (`main`): start, the loop
with its snapshot in two steps, the signal, and `stop` in the order of the code, each with the
handlers of messages in between. **`AdminDashboard`** extends this with the web server's loop
(`web`), which handles one request at a time. The handlers of `HubServer` are those of `HubCore`
made coarser: a handler is one step but for the executor's call, since what is asked here is how
the life of server and transport cuts through them.

**`HubRegistry`** is `fleet/hub_registry.py`: one action per method, each under the
registry's lock. `last_seen` is kept as `age`, 0 up to half the timeout, 1 up to the
timeout, 2 beyond.

**`Fleet`** extends it with the agents (`hub_agent.py`), the orchestrator
(`orchestrator.py`) and the commands of clients (`fleet_client.py`, `web_api.py`). Each topic has a
queue per hub (`announces`, `deregisters`, `reports`, `commands`); topics may overtake each other, and messages to the orchestrator may be
lost. An agent's threads are its heartbeat loop (`beating`: it has seen `_running` and
is about to send), its three reporters (`taken`: a snapshot not yet sent) and whoever
starts and stops it. The orchestrator handles an announce in two steps (`handling`),
and `tick` in two (`silent`: hubs found offline and not yet broadcast); it ticks while it is
started (`ticking`). A command is looked up and sent in two steps (`routed`), a batch goes over a
snapshot hub by hub (`wanted`). `told` is the last event broadcast of a hub: a client's callbacks
get nothing else.

| Code | Actions |
|---|---|
| `client.py`: `register_connection` ... `notify_restart_ready` | `RegisterConnection` ... `NotifyRestartReady`, each a `Request` and a `Send` |
| `_start_timeout_watcher`, `_cancel_timeout` | `StartTimeoutWatcher`, `WatcherWaits`, `WatcherExpires` (the wait ends), `WatcherReports` (`on_server_timeout`); `CancelTimeout` |
| `_on_register_response` ... `_on_shutdown_notify` | `Receive`, `OnRegisterResponse` ... `OnShutdownNotify`, `CallbackReturns` |
| `ZmqTransport.start`, `stop`; `_async_main`, `_run_loop` | `Start`, `StartClient`, `CopyFails`, `StartReturns`, `Stop`, `StopReturns`; `OpenSubSocket` ... `EndClosing`, `BreakLoop` |
| `send_message`, `_async_send`; `register_handler`, `register_topic`, `_subscribe` | `Send`, `SendMessage`, `SendReturns`, `SendTimesOut`, `RunSend`; `RegisterHandler`, `RegisterTopic`, `SubscribeLate`, `RunSubscribe` |
| `_subscriber_loop` and a handler that sends | `Receive`, `HandlerSends`, `HandlerSendReturns`, `HandlerReturns`, `HandlerFollows` |
| `EventBusTransport.start`, `stop`, `register_handler` | `Connect`, `ConnectFails`, `SubscribeNext`, `EndSubscribing`, `StartBreaks`, `BusStarts`; `Unsubscribe`, `CloseClient`, `CloseFails`; `RegisterHandler`, `TestStarted`, `SubscribeLate` |
| `ProcessManager.start`, `stop` | `StartProcess`, `ExecutorStart`, `StartEnds`; `StopProcess`, `ExecutorStop`, `StopEnds` |
| `force_stop_all`, `health_check`, `update_process` | `ForceStopAll` ... `ForceStopEnds`; `CheckHealth`, `MarkDead`; `UpdateProcess`, `UpdateEnds` |
| `ProcessHubServer.run`, `start` | `RunBegins`, `StartsStarted`, `Connects`, `RunRaises`, `StartSubscribes`, `StartRaises`, `Starts`, `SnapshotConnections`, `SnapshotProcesses`, `Render` |
| `ProcessHubServer.stop`, `shutdown` | `ShutdownLists` ... `ShutdownDrops`, `StopTells`, `StopUnsubscribes`, `StopCloses`, `RunReturns` |
| endpoints and callbacks of the dashboard | `StartRequest` ... `Answer`, `AddConfig`, `UpdateConfig`, `RemoveConfig`, `ResetRequest` ... `ResetTells` |
| `HubAgent.start`, `stop` | `StartAgent`, `StopAgent` |
| `_heartbeat_loop`, `_status_loop` | `HeartbeatWake`, `HeartbeatSend`; `StatusLoop`, `SendReport` |
| `_on_local_state_change` | `LocalChange`, `OnLocalStateChange`, `DebounceEnds` |
| `_on_fleet_command` | `OnFleetCommand`, `SendReport` |
| `_on_hub_announce` | `OnHubAnnounce`, `AnnounceNew`, `RefreshKnown` |
| `_on_hub_deregister`, `_on_hub_status_report` | `OnHubDeregister`, `OnHubStatusReport` |
| `tick`; `start`, `stop` of the orchestrator | `Tick`, `BroadcastOffline`; `StartOrchestrator`, `StopOrchestrator` |
| `send_command`, `start_processes` ... | `CheckCommand`, `SendCommand` |
| `start_on_all_hubs`, `stop_all_processes`, `reset_all_hubs` | `StartOnAllHubs`, `StopAllProcesses`, `ResetAllHubs`, `BatchGoesOn` |

Definitions named after a possible bug (`StopUnlocked`, `HandleRestartReadyStale`
and the like, each marked as a mutant) are not part of the model: with one of
them in the place of the action it varies, a property of the run must fail.

### What is assumed of the environment

* A transport hands a panel's messages over in the order they were sent, and runs
  one handler at a time.
* A panel answers each `RESTART_NOTIFY` at most once, at any later time or never,
  even after it has asked to be unregistered. `handle_restart_ready` accepts an
  answer of anybody, and so does the model.
* A graceful stop may be ignored, and with `StopsMayFail` a stop of either kind may fail: the process
  is still there after `kill` and a wait of 2 s, or the executor raises. `SimpleExecutor` and
  `UnixExecutor` differ in three ways, selected by the constant `SimpleExecutor`: only the first looks
  whether the process runs before it starts it; only the second's `stop` returns a plain bool,
  the first's a pair that the core takes for true; and when a stop fails the first keeps the handle
  (`survived`), the second drops it and the instance is lost (`leaked`).
* A start takes effect at once: the two seconds in which the executor waits for an
  early exit are a `Crash` or a failed start.
* The dashboard's callbacks are those of `src/examples/10_admin_dashboard.py`.

* A stopped agent's handlers stay with the transports and do not look at `_running`, as in the code:
  its processes may change, and be reported, for as long as they like (`LocalChange` costs no input there).
* In the fleet, half the health timeout (15 s by default) is longer than the
  orchestrator takes to broadcast that a hub is new; its broadcasts succeed; an agent
  is started again only when the loops of its last run have ended (`stop` joins them).
* ZeroMQ delivers the messages of one socket in order or loses them, and its sockets close
  without delay. A client of the EventBus that has connected consumes the topics it is bound to.
* A client's callback sends at most one request before it returns. A message that is lost
  is lost to one client.
* An executor's call returns, with an outcome that its code can have; a managed process
  ends by itself at any moment.
* The web server runs coroutine endpoints on its loop, one at a time, as FastAPI does.

### Fairness

`FairSpec` asks that a handler that has begun goes on (threads are scheduled and
every executor call returns, all of them have timeouts), that the main loop ticks
(`run` loops on `refresh_interval`) and that time passes. Nothing is asked of panels,
requests, crashes, resets or the shutdown. A thread's next step is asked for weakly, so nothing is
asked of a lock that others take again and again: Python's locks do not queue. `ThreadsReturn`
says so: a handler returns unless it waits for `_operation_lock` for ever while others take it
and give it back over and over. What it rules out is a lock that is never given back, and a
handler that does not come to its end. It is checked with three threads that take the lock; where only one
does it would say nothing.

`FleetFairness` asks that an agent's two loops and the orchestrator's handlers of announces and
reports go on, that ticks recur and that time passes. Nothing is asked of event and command reports or
of deregistrations. Agents start, stop and crash, and messages get lost, as they like,
up to the bound on inputs; what a stopped agent's hub changes is not bounded by it.

`ClientFairness` asks that watchers go on: `wait` has a timeout. Nothing is asked of the network,
the server or the application.

`ZmqFairSpec` asks that a loop's main coroutine and handlers go on (a handler returns, its sends
have timeouts) and that a coroutine that is runnable again and again is run: asyncio's ready queue
is first in, first out, so once the loop is free it comes to it. The loop is free only when the
subscriber gives it back, which it does when it finds no message: `poll` is not awaited and its
future counts as true, and `recv_multipart` does not suspend while a message is there. Under
traffic that never pauses nothing else runs; `ScheduledIsRun` names that case (`NeverYields`) as its
exception, and `MCZmqStarved.cfg` shows it. What other nodes send is not bounded by `MaxInputs`.

`Fairness` of `AdminDashboard` asks that the main thread runs on and
that the calls of the EventBus client return; panels, web requests and signals come as they like.

## The runs

| Run | Instance | What it shows |
|---|---|---|
| `fsm` | 2 panels, 2 processes, 2 retries | consistent context, refinement of the abstract round, every round ends (the types are part of `hub_restart`'s) |
| `hub_restart` | transport and main; 2 panels, 2 processes, failing starts and stops, crashes; symmetric | restart rounds and failed starts: each notified panel answers before the restart, nobody is forgotten, each phase of a round belongs to one thread |
| `hub_requests` | transport, fleet, admin; 1 panel, 1 process, failing starts and stops | what `_operation_lock` protects against direct starts, stops and resets; every handler returns, unless others take the lock before it for ever |
| `hub_liveness` | transport and main; 1 panel, 1 process, timeouts, failing starts and stops, platform executor, shutdown | a round that waits for no panel has a thread that moves it on, and rounds end; an entry in `STARTING` or `STOPPING` has a thread at work on it, or is what a failed stop has left and nobody requires |
| `fleet` | 1 hub, 1 process, queues of 1, 2 inputs (starts of the agent, processes started under it, commands, losses, stops of the orchestrator) | outages are told; a gone hub drops out once its processes have come to rest; a running hub is online again and again; its processes get known |
| `client` | 2 clients, 2 sessions, 3 inputs (requests, notifications, resets, starts, stops, losses); an application that listens to deaths, shutdowns and timeouts and sends from its callbacks | client and hub agree on the registration when all is quiet; sessions are complete; no wait ends by its timeout once something was heard, and silence is always reported |
| `zmq` | 1 node with the broker, 1 topic, 2 starts, 5 inputs, and any traffic of other nodes | messages in order over all threads; a topic registered at any step of a start is subscribed, unless it breaks the loop; a stopped client calls no handler; a handler that waits for its own loop blocks nothing for good |
| `processes` | 2 names, 2 instances each, 1 requester, 6 operations, all four executors | no second instance with the simple executor; what is `DEAD` does not run; ports are distinct |
| `dashboard` | 1 panel, 1 process, 2 topics and a late one, 2 runs, 3 inputs | shutdown tells whom it has listed; topics are heard whenever they are registered; the view catches up; a signal ends the run; what the dashboard started keeps its configuration |

The bounds are the smallest in which the cases meet: two panels for one that
answers and one that does not, or one that needs a process and one that releases
it; two processes for a rollback or a restart that half succeeds; each pair of
threads that share no lock. All four threads with all features together are
beyond a few minutes (more than 12 million states); the proofs below cover them.
`hub_restart` has no timeouts: with them the phase of a round is not owned by one
thread any more, which is what `MCHubLateReset` shows. Hubs of a fleet share nothing but
the list `tick` works off, so one hub is enough for the liveness; two inputs make a
start and a change, whose undoing costs none, or a start and a loss, a command or a restart. Two clients share a session, or
a thread that resets the hub; three inputs are two requests, or a request in a callback, and
a reset or loss between them. One ZeroMQ node that hears itself has every interleaving
of loop, handler and senders, five inputs a start, a registration or a send of a second thread, a send of a handler, a stop
and a start. Three inputs of the dashboard's run are a registration during a start, a panel and a
process of it, or two requests of the web server with a panel between them; the one case this leaves out is
the loop of a client that a failed start abandoned calling `_on_register_request` while the other's
is in a start request (`HearsTwice`), which only the theorems cover. Six operations of the manager are a registration, a start, a stop that fails, a
second start and an unlocked one in between. `hub_liveness`, `client`, `zmq`,
`processes` and `dashboard` do not check for deadlock, because the hub may be shut down and the inputs
come to their bound.

### Where the code and its documents differ

Each of these runs checks one sentence of the documentation, and TLC finds an
execution of the code that contradicts it.

| Run | Sentence | What happens |
|---|---|---|
| `hub_orphans` | "Disconnecting panels auto-release their processes" (ADR-015) | a panel leaves while the round that restarts its process is under way; the process is started again for nobody |
| `hub_dead_process` | "Restart proceeds anyway to avoid deadlock" (Description) | after a timeout the processes stay `DEAD` |
| `client_timeout` | "If no response arrives within timeout, calls on_server_timeout" (`client.py`) | a notification, or the answer to another request, ends the wait: the request is never answered and nobody is told |

The directory has configurations for further disagreements of this kind and for what the
properties of the passing runs except. They are not among
the runs that are kept checked; each is run as `tlc -config <file> <module>` and ends in a
counterexample.

| Configuration | Sentence | What happens |
|---|---|---|
| `MCHubDuplicates`, of `HubCore` | "Only one instance of each process runs" (ADR-015) | the entry is set to `STARTING` before the code looks whether it is `RUNNING`; the platform executor starts a second instance |
| `MCHubRollback`, of `HubCore` | "Process stops only when no one needs it" (ADR-015) | the rollback of one panel's request stops what another panel uses |
| `MCHubLateReset`, of `HubCore` | "Transition: DONE \| FAILED -> IDLE" (`reset_to_idle`) | a restart that outlives the timeout resets the next round |
| `MCHubStopIgnored`, of `HubCore` | "returns success" (`process_stopper`) | a pair `(False, message)` is taken for a success; the process leaves the registry alive |
| `MCManagerStop`, of `ProcessManager` | "True if stopped successfully" (`manager.py`) | the same in the manager: an entry is removed while its process runs |
| `MCFleetReturn`, of `Fleet` | "Called with hub data when a hub comes online" (`on_hub_online`) | a hub that was offline and returns is set online without `HUB_ONLINE`; the last event its clients have is `HUB_OFFLINE` |
| `MCFleetStopped`, of `Fleet` | "Sends deregistration message and stops background loops" (`HubAgent.stop`) | the deregistration is overtaken by an announce and the stopped agent's handlers go on reporting changes: the hub stays online |
| `MCZmqBroken`, of `ZmqTransport` | "If already running, subscribe now" (`register_topic`) | a topic registered while the loop subscribes the others ends the loop; nothing is subscribed, and the transport says it has started |
| `MCZmqStarved`, of `ZmqTransport` | none; it shows the case that `ScheduledIsRun` excepts | the subscriber goes from message to message and what is scheduled never runs |
| `MCDashboardDeaf`, of `AdminDashboard` | "If already started, subscribe now" (`register_handler`) | a topic registered between the last subscription of a start and `_started` is never heard, nor is any topic in a run after a stop that failed |
| `MCZmqStart`, of `ZmqTransport` | "True if sent successfully" (`send_message`) | a send that runs before the PUB socket exists does nothing and is told as sent |

## The proofs

TLAPS proves the following for constants of any size: of the hub, for any finite or infinite
sets of panels and processes, any subset of the four threads, any retry limit, either executor,
with and without failing starts, timeouts and shutdown. The assumptions are the named
`ASSUME`s of the modules: bounds are natural numbers, and a value that stands for "none" is not
one of the others.

**`RestartStateMachine_proofs`**: `FsmTyped`, `ContextHolds` and `Refinement`. The
context's consistency is inductive together with its type; the refinement needs
one conjunct of it, that nobody is pending while the processes are restarted.

**`HubCoreTypes_proofs`**: `HubTyped` (type correctness), `Locked` (mutual exclusion
of the sections under `_operation_lock`) and `DrivesFsm` (each step of the hub is a step
of the FSM or leaves it alone). The type invariant alone is not inductive: a
thread that is about to record the outcome of a start must have a process in hand,
a thread that handles a request must have a requester (`FramesOK`), and a thread
that releases the lock must hold it. `HubInv` is the conjunction of these. The
step is proved per variable, and under it per action: threads, registry, FSM,
world, connections, lock.

**`HubCore_proofs`**: `SafeStopping` (a stop request stops only what nobody requires),
`TransitionsEnd` (an entry in `STARTING` or `STOPPING` is being started or stopped at this moment,
or a stop of the platform executor has failed and nobody requires it; or somebody does, and an instance
was lost with its handle in the failed rollback or stop), `NoRoundAlone` and
`RollbackIsComplete` (a failed start leaves of what it started only that running which has survived a
kill: `hub_core.py:615` does not look at the answer, but it does kill every one). The last holds for
deployments without the dashboard's thread, which starts processes without the lock; with
it, what a rollback has stopped could be started before the rollback ends. The others rest
on `HubInv`: between the decision to stop and the stop the thread is inside its
section, whoever else adds a requester must hold the lock, and the steps that do
not take it (unregister, mark dead, clear) only ever remove requesters. An entry that a failed
stop leaves in `STOPPING` keeps its empty set of requesters because every operation that adds one
takes the entry to another state in the same step (`NoneStopsStep`); that the set is empty in
the first place is `SafeStopping` again.

`NoRoundAlone` is the safety half of `RoundsEnd`, without fairness and for all deployments: with
all four threads, timeouts, resets and a shutdown, a round in a phase that no panel ends has a
thread at work in it (`RoundsAttended`). The threads of rounds that were cut off are still under
way then and may end a round that is not theirs; the invariant shows that they never leave one
behind. It is inductive with one addition, `Opened`: somebody is waited for until the panels have
been told, or the last answer would have been given before anybody listened to it.

The same module proves `AnsweredFirst`, `NobodyForgotten`, `PhasesAreOwned` and `RequestersAreConnected` for
deployments in which nothing cuts a round or a request off (`Undisturbed`: message handlers and main
loop, no timeout, no reset, no shutdown; a timeout lets two threads work on one round, see
`MCHubLateReset`), for any panels and processes. The first three are parts of one inductive invariant, `RoundInv`: each thread stays at its own
places (`PlacesOK`), what its place says of the round (`ThreadAgrees`), and who is told, has answered
and is waited for (`AnswersAgree`): an answer on its way is always one that the round waits for, so
an answer of the last round is never counted for this one. `HubRounds` and `HubContext` say, without that
restriction, that the hub implements `RestartCycle` and that nothing of a round outlives it: both are
what is proved of the FSM alone, carried over by the lemma that the hub drives its FSM by the
FSM's own methods.

**`Fleet_proofs`**: `FleetIsTyped` and `OutagesAreTold`, for any set of hubs and any bounds,
from no assumption on the constants. `OutageIsTold` is not inductive alone: a handler that is about to
broadcast `HUB_ONLINE` could do so over an outage that has been told. `NewIsFresh` excludes
it: such a hub is fresh, and time passes for it only after the broadcast.

**`ProcessManager_proofs`**: `ManagerIsTyped`, `NoSecondInstanceHolds`, `DeadIsNotRunningHolds` and
`PortsDistinctHolds`, for any names, requesters, executor and bounds. The type invariant has a
part that only the lock keeps true, that what is being started or stopped is registered. `DeadInv` adds what a
health check has found and not yet marked, `PortsInv` that ports in use are below the next one.

**`Client_proofs`**: `ClientIsTyped`, `SessionsAreComplete`, `NoFalseAlarmHolds` and
`RegistrationAgreesHolds`, for any clients and sessions and any number of requests. Completeness is inductive together with the types.
No false alarm is not: `SilentWaits` adds that the shared event is set as long as something has been
heard since the last request, so that no watcher can find it unset and expire. What is proved is about
the end of the wait: `on_server_timeout` is called afterwards and looks at nothing, so an answer that comes between the
two is followed by the report all the same (`WatcherReports`).

`RegistrationAgrees` speaks of a panel for which all is quiet, and says nothing of how it got there.
The invariant (`AgreementFollows`, checked by TLC before it was proved) follows the last word
about a panel on its way from the hub to the client, for every panel that nothing has come across:
it is an answer that the server has decided and not sent (`Unanswered`), or a reset that has
cleared the table and not said so (`Untold`); else the last message in the panel's queue that
says whether it is registered (`EndsWith`); else the message its handler is at work on; else what the client
holds, and that is what the hub holds. A reset is the hard case: a request that is being served
while one is under way disturbs its panel, and of every other panel the invariant says that the hub
knows it from the list of the reset to the clearing exactly if it is on the list.

**`ZmqTransport_proofs`**: `ZmqIsTyped`, `RegisteredIsSubscribedHolds`, `NoHandlerAfterStopHolds` and
`InOrderHolds`, for any nodes and topics. The subscriptions are about a loop that has come through
its iteration (`RegisteredIsSubscribed`): a topic that is in the set by then was found by the iteration,
or its registration has seen the socket and has scheduled the subscription or is about to. A topic
that is new while the loop iterates makes the stage `overtaken`, from which it only breaks. `CallsAgree` relates callers and clients: who is being stopped
has been told so, and no more is sent than was asked for. `LoopsEnd` says that a loop which calls
handlers belongs to the current client, or is in a handler after which it sees the stop. Order
needs `Ordered`: the numbers of one sender increase from the last one delivered, through the
socket, to those that are scheduled.

**`AdminDashboard_proofs`**: `DashboardIsTyped`, `AdminProcessIsConfiguredHolds`, `TopicsHeardHolds` and
`ListedAreToldHolds`, of the composition of transport, server and dashboard. `RunAgrees` says
what each place of `run` implies for the transport, and who of those listed has been told or
lost; `StartIsConfigured`, that what a request is about to start is configured, is what
the web server's one loop keeps true between the look at the configuration and the start.
`TopicsHeard` needs to know of a start under way that the topics it began with are subscribed,
tried or still to come, and at its end that only those registered since are not (`Iterated`): a
handler that came before the iteration is in it, one that comes after `_started` finds
it set, one in between breaks the start or is in `unheard`.

## What is only checked, and what is left out

Only model-checked: liveness (`EveryRoundEnds`, `RoundsEnd`, `ThreadsReturn`, `SilenceIsReported`,
`ScheduledIsRun`, `ViewCatchesUp`, `SignalEndsRun` and those of `fleet`), which is beyond the prover.
Every invariant of a passing run is proved, `RollbackComplete` and those of `Undisturbed` under the
conditions their theorems name. `RegistrationAgrees` is about panels that no loss, stop or reset under
way has come across, in its definition and in its proof.

What the properties except is excepted by name, in their definitions and comments, and where a document
promises it the configurations above show the counterexample: stopped hubs whose processes go on
changing, a registration that breaks the ZeroMQ loop or comes in the last moment of an EventBus start, traffic
that never pauses, an answer between the end of a wait and its report.

Not modelled:

* Rendering, HTTP, serialisation, logging and output capture: no state that
  a property could be about. The in-memory transport of the tests calls handlers
  synchronously and has no behaviour of its own.
* A server without executor or transport; broadcasts of the orchestrator that fail.
* `config/`: pure functions that no component of the package calls (an example does). What they compute
  differs from their documents in details: `expand` stops after ten rounds where the docstring says
  until nothing changes; `compute_restart_sequence` puts each dependency at the front, in reverse
  order and not transitively; `ClientConfig.from_dict` changes the dictionary it is given.

## Plan

1. `HubServer` shown to implement the handlers of `HubCore` it makes coarser, which needs a
   history of the requests it has taken in one step.
2. A round with timeouts: which panel may be told twice, and by whom.
3. Broadcasts that fail in the fleet, and a fleet of two hubs on one batch.
