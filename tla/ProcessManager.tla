---------------------------- MODULE ProcessManager ----------------------------
(***************************************************************************)
(* process/manager.py over an executor, with logging/integration.py, which   *)
(* gives a process that is started a port of the logging server.            *)
(*                                                                          *)
(* The manager's lock serialises registrations, starts, stops and health     *)
(* checks; an operation that blocks in the executor holds it meanwhile.      *)
(* update_process, remove_requester_from_all and the logging server's start  *)
(* and stop take no lock and come in between.                                *)
(***************************************************************************)
EXTENDS Executor

CONSTANTS Requesters,
          MaxInputs       \* bound on all operations called

ASSUME ManagerBound == MaxInputs \in Nat

Registry == INSTANCE ProcessRegistry WITH Procs <- Names

VARIABLES
  registry,         \* _registry
  configs,          \* names with a configuration in _configs
  holder,           \* the operation that holds _lock, and how far it is
  suspects,         \* in health_check: the processes found not to run
  updating,         \* an update_process between executor and registry
  server,           \* LoggingIntegration: _started, and the next port to allocate
  ports,            \* the port that each instance logs to, 0 for none
  adopted,          \* names whose reference was replaced by update_process
  inputs

managerVars == <<registry, configs, holder, suspects, updating>>
loggingVars == <<server, ports>>
vars == <<executorVars, managerVars, loggingVars, adopted, inputs>>

Free == [op |-> "none"]
NoUpdate == <<>>

ManagerInit ==
  /\ ExecutorInit
  /\ registry = Registry!EmptyRegistry
  /\ configs = {}
  /\ holder = Free
  /\ suspects = {}
  /\ updating = NoUpdate
  /\ server = [started |-> FALSE, next |-> 1]
  /\ ports = [i \in Instances |-> 0]
  /\ adopted = {}
  /\ inputs = 0

Input == inputs < MaxInputs /\ inputs' = inputs + 1

-----------------------------------------------------------------------------
\* Registrations.

\* register, with a configuration or without
RegisterProcess(n, r) ==
  /\ Input /\ holder = Free
  /\ registry' = Registry!Register(registry, n, r)
  /\ \E withConfig \in BOOLEAN : configs' = IF withConfig THEN configs \cup {n} ELSE configs
  /\ UNCHANGED <<executorVars, holder, suspects, updating, loggingVars, adopted>>

\* Mutant: without the lock, and an entry without requesters is removed.
UnregisterProcessUnlocked(n, r) ==
  /\ Input
  /\ registry' = IF Registry!CanStop(registry, n, r) THEN Registry!Remove(registry, n)
                 ELSE Registry!Unregister(registry, n, r)
  /\ UNCHANGED <<executorVars, configs, holder, suspects, updating, loggingVars, adopted>>

\* unregister
UnregisterProcess(n, r) ==
  /\ Input /\ holder = Free
  /\ registry' = Registry!Unregister(registry, n, r)
  /\ UNCHANGED <<executorVars, configs, holder, suspects, updating, loggingVars, adopted>>

\* remove_requester_from_all, without the manager's lock
RemoveRequesterFromAll(r) ==
  /\ Input
  /\ registry' = Registry!RemoveRequester(registry, r)
  /\ UNCHANGED <<executorVars, configs, holder, suspects, updating, loggingVars, adopted>>

-----------------------------------------------------------------------------
\* The logging server.

\* _create_server: Fluentbit's, Telegraf's, the caller's or the mock; each allocates its
\* ports one after the other.
CreateServer == [started |-> TRUE, next |-> 1]

\* Mutant: a server that is started is created anew.
StartLoggingAgain ==
  /\ Input
  /\ server' = CreateServer
  /\ UNCHANGED <<executorVars, managerVars, ports, adopted>>

\* LoggingIntegration.start: a new server, unless it is started.
StartLogging ==
  /\ Input
  /\ ~server.started
  /\ server' = CreateServer
  /\ UNCHANGED <<executorVars, managerVars, ports, adopted>>

\* LoggingIntegration.stop: what runs keeps logging to a port that is free for the next
\* server; from here these ports no longer count.
StopLogging ==
  /\ Input
  /\ server.started
  /\ server' = [started |-> FALSE, next |-> 1]
  /\ ports' = [i \in Instances |-> 0]
  /\ UNCHANGED <<executorVars, managerVars, adopted>>

-----------------------------------------------------------------------------
\* Starting.

\* start, up to the call of the executor: nothing for a name that is not registered or
\* that is RUNNING.
StartProcess(n) ==
  /\ Input /\ holder = Free
  /\ Registry!Exists(registry, n) /\ Registry!GetState(registry, n) # "RUNNING"
  /\ registry' = Registry!WithState(registry, n, "STARTING")
  /\ holder' = [op |-> "start", name |-> n]
  /\ UNCHANGED <<executorVars, configs, suspects, updating, loggingVars, adopted>>

\* LoggingAwareExecutor.start: with central_log in its configuration a process is given the
\* next port of a server that is started, whatever the start comes to.
Allocated(central) == IF central /\ server.started THEN server.next ELSE 0

ExecutorStart ==
  /\ holder.op = "start"
  /\ launched[holder.name] < MaxInstances
  /\ \E central \in BOOLEAN, o \in StartOutcomes(holder.name, holder.name \in configs) :
       /\ server' = IF Allocated(central) # 0 THEN [server EXCEPT !.next = @ + 1] ELSE server
       /\ Launch(holder.name, o)
       /\ ports' = IF o.up # 0 THEN [ports EXCEPT ![<<holder.name, o.up>>] = Allocated(central)]
                   ELSE ports
       /\ holder' = [op |-> "started", name |-> holder.name, success |-> o.success]
  /\ UNCHANGED <<registry, configs, suspects, updating, adopted, inputs>>

StartEnds ==
  /\ holder.op = "started"
  /\ registry' = Registry!WithState(registry, holder.name, IF holder.success THEN "RUNNING" ELSE "FAILED")
  /\ holder' = Free
  /\ UNCHANGED <<executorVars, configs, suspects, updating, loggingVars, adopted, inputs>>

-----------------------------------------------------------------------------
\* Stopping.

\* stop, up to the call of the executor: nothing for a name that is not registered, or
\* without force that has requesters.
StopProcess(n, force) ==
  /\ Input /\ holder = Free
  /\ Registry!Exists(registry, n) /\ (force \/ Registry!Get(registry, n).users = {})
  /\ registry' = Registry!WithState(registry, n, "STOPPING")
  /\ holder' = [op |-> "stop", name |-> n, force |-> force]
  /\ UNCHANGED <<executorVars, configs, suspects, updating, loggingVars, adopted>>

ExecutorStop ==
  /\ holder.op = "stop"
  /\ \E o \in StopOutcomes(holder.name, holder.force) :
       /\ Terminate(holder.name, o)
       /\ holder' = [op |-> "stopped", name |-> holder.name, success |-> o.success]
  /\ UNCHANGED <<registry, configs, suspects, updating, loggingVars, adopted, inputs>>

\* A stop that succeeded removes the entry and its configuration.
StopEnds ==
  /\ holder.op = "stopped"
  /\ registry' = IF holder.success THEN Registry!Remove(registry, holder.name) ELSE registry
  /\ configs' = IF holder.success THEN configs \ {holder.name} ELSE configs
  /\ holder' = Free
  /\ UNCHANGED <<executorVars, suspects, updating, loggingVars, adopted, inputs>>

\* force_stop_all, name by name; its results are not looked at.
ForceStopAll ==
  /\ Input /\ holder = Free
  /\ holder' = [op |-> "clear", left |-> Registry!AllNames(registry)]
  /\ UNCHANGED <<executorVars, registry, configs, suspects, updating, loggingVars, adopted>>

ForceStopOne ==
  /\ holder.op = "clear"
  /\ \E n \in holder.left : \E o \in StopOutcomes(n, TRUE) :
       /\ Terminate(n, o)
       /\ holder' = [holder EXCEPT !.left = @ \ {n}]
  /\ UNCHANGED <<registry, configs, suspects, updating, loggingVars, adopted, inputs>>

ForceStopEnds ==
  /\ holder.op = "clear" /\ holder.left = {}
  /\ registry' = Registry!EmptyRegistry
  /\ configs' = {}
  /\ holder' = Free
  /\ UNCHANGED <<executorVars, suspects, updating, loggingVars, adopted, inputs>>

-----------------------------------------------------------------------------
\* Checks and updates.

\* Mutant: health_check without the lock.
CheckHealthUnlocked ==
  /\ Input
  /\ suspects' = {n \in Registry!ActiveProcesses(registry) : ~IsRunning(n)}
  /\ UNCHANGED <<executorVars, registry, configs, holder, updating, loggingVars, adopted>>

\* health_check, first half: the RUNNING entries that are found not to run.
CheckHealth ==
  /\ Input /\ holder = Free
  /\ holder' = [op |-> "check"]
  /\ suspects' = {n \in Registry!ActiveProcesses(registry) : ~IsRunning(n)}
  /\ UNCHANGED <<executorVars, registry, configs, updating, loggingVars, adopted>>

\* ... and mark_dead
MarkDead ==
  /\ holder.op = "check" \/ suspects # {}
  /\ registry' = Registry!MarkDead(registry, suspects)
  /\ suspects' = {}
  /\ holder' = IF holder.op = "check" THEN Free ELSE holder
  /\ UNCHANGED <<executorVars, configs, updating, loggingVars, adopted, inputs>>

\* update_process, without the lock: a process of the name found running is taken for it,
\* in the executor and then in the registry.
UpdateProcess(n) ==
  /\ Input
  /\ updating = NoUpdate
  /\ launched[n] < MaxInstances
  /\ UpdateReference(n, launched[n] + 1)
  /\ updating' = <<n>>
  /\ adopted' = adopted \cup {n}
  /\ UNCHANGED <<registry, configs, holder, suspects, loggingVars>>

UpdateEnds ==
  /\ updating # NoUpdate
  /\ registry' = Registry!WithState(registry, updating[1], "RUNNING")
  /\ updating' = NoUpdate
  /\ UNCHANGED <<executorVars, configs, holder, suspects, loggingVars, adopted, inputs>>

Dies(i) == ProcessDies(i) /\ UNCHANGED <<managerVars, loggingVars, adopted, inputs>>

-----------------------------------------------------------------------------
Next ==
  \/ \E n \in Names : \/ \E r \in Requesters : RegisterProcess(n, r) \/ UnregisterProcess(n, r)
                      \/ StartProcess(n) \/ UpdateProcess(n)
                      \/ \E force \in BOOLEAN : StopProcess(n, force)
  \/ \E r \in Requesters : RemoveRequesterFromAll(r)
  \/ StartLogging \/ StopLogging
  \/ ExecutorStart \/ StartEnds \/ ExecutorStop \/ StopEnds
  \/ ForceStopAll \/ ForceStopOne \/ ForceStopEnds
  \/ CheckHealth \/ MarkDead \/ UpdateEnds
  \/ \E i \in alive : Dies(i)

ManagerSpec == ManagerInit /\ [][Next]_vars

-----------------------------------------------------------------------------
Holders ==
  [op : {"none", "check"}] \cup [op : {"start"}, name : Names]
  \cup [op : {"stop"}, name : Names, force : BOOLEAN]
  \cup [op : {"started", "stopped"}, name : Names, success : BOOLEAN]
  \cup [op : {"clear"}, left : SUBSET Names]

\* The state is of the types the code gives it, and what a start or a stop is at work on
\* stays registered until it ends.
ManagerTyped ==
  /\ ExecutorTyped
  /\ registry \in Registry!Registries
  /\ configs \subseteq Names
  /\ holder.op \in {"start", "started", "stop", "stopped"} => Registry!Exists(registry, holder.name)
  /\ holder \in Holders /\ suspects \subseteq Names
  /\ updating \in {NoUpdate} \cup {<<n>> : n \in Names}
  /\ server \in [started : BOOLEAN, next : Nat]
  /\ ports \in [Instances -> Nat]
  /\ adopted \subseteq Names
  /\ inputs \in 0..MaxInputs

\* With SimpleExecutor (or the mock) a process that runs is the one the executor refers
\* to, so it can be stopped and no second one of its name is started, over failed stops,
\* registrations removed meanwhile and processes that die; update_process may replace the
\* reference to a process that runs.
NoSecondInstance ==
  kind \in {"simple", "mock"} =>
    \A i \in alive : i[1] \notin adopted => reference[i[1]] = i[2]

\* Only a process that was found dead is marked DEAD: the one referred to does not run.
\* With update_process, which takes no lock, it may have come back in between.
DeadIsNotRunning ==
  \A n \in Names \ adopted : registry[n].state = "DEAD" => ~IsRunning(n)

\* No two processes log to the same port of one logging server, also after starts that
\* failed and starts of processes that were running already.
PortsDistinct ==
  \A i, j \in alive : (i # j /\ ports[i] # 0) => ports[i] # ports[j]

\* stop, "True if stopped successfully" (process/manager.py:314): a name that a stop
\* succeeded for does not run.
StopIsTold ==
  (holder.op = "stopped" /\ holder.success /\ holder.name \notin adopted)
    => ~IsRunning(holder.name)
=============================================================================
