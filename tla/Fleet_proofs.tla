----------------------------- MODULE Fleet_proofs -----------------------------
(***************************************************************************)
(* Proofs about Fleet for any set of hubs and of processes and any bounds:  *)
(* its typing, and that every outage is told.  A step of the fleet changes  *)
(* a few variables, so the lemmas go action by action.                      *)
(***************************************************************************)
EXTENDS Fleet, TLAPS

Snapshots == [Hubs -> [Reporters -> Seq(SUBSET HubProcs)]]

\* Most steps leave the registry alone.
LEMMA RegistryUntouched ==
  ASSUME RegistryTyped, UNCHANGED registryVars
  PROVE  RegistryTyped'
BY DEF RegistryTyped, registryVars

\* An agent knows nothing of the orchestrator's variables.
LEMMA AgentApart ==
  ASSUME NEW h \in Hubs, AgentStep(h)
  PROVE  UNCHANGED <<orchVars, registryVars>>
BY DEF AgentStep, StartAgent, StopAgent, HubCrashes, HeartbeatWake, HeartbeatSend,
       StatusLoop, SendReport, LocalChange, OnLocalStateChange, DebounceEnds,
       OnFleetCommand

\* A reporter takes a snapshot of what the hub runs (_send_status_report).
LEMMA CollectTyped ==
  ASSUME FleetTyped, NEW h \in Hubs, NEW r \in Reporters, Collect(h, r)
  PROVE  taken' \in Snapshots
<1>1. procs[h] \in SUBSET HubProcs /\ taken \in Snapshots
  BY DEF FleetTyped, Snapshots
<1>2. <<procs[h]>> \in Seq(SUBSET HubProcs)
  BY <1>1
<1>3. [taken[h] EXCEPT ![r] = <<procs[h]>>] \in [Reporters -> Seq(SUBSET HubProcs)]
  BY <1>1, <1>2 DEF Snapshots
<1> QED
  BY <1>1, <1>3 DEF Collect, Snapshots

\* A reporter has sent its snapshot.
LEMMA SentTyped ==
  ASSUME FleetTyped, NEW h \in Hubs, NEW r \in Reporters
  PROVE  [taken EXCEPT ![h][r] = <<>>] \in Snapshots
<1>1. taken \in Snapshots
  BY DEF FleetTyped, Snapshots
<1>2. <<>> \in Seq(SUBSET HubProcs)
  OBVIOUS
<1>3. [taken[h] EXCEPT ![r] = <<>>] \in [Reporters -> Seq(SUBSET HubProcs)]
  BY <1>1, <1>2 DEF Snapshots
<1> QED
  BY <1>1, <1>3 DEF Snapshots

\* A step of a hub agent keeps the fleet typed (hub_agent.py).
LEMMA AgentTyped ==
  ASSUME FleetTyped, NEW h \in Hubs, AgentStep(h)
  PROVE  FleetTyped'
<1> USE DEF agentVars, netVars, orchVars, clientVars
<1>0. RegistryTyped'
  BY AgentApart, RegistryUntouched DEF FleetTyped
<1>1. CASE StartAgent(h)
  BY <1>0, <1>1 DEF FleetTyped, StartAgent, Input, SendAnnounce
<1>2. CASE StopAgent(h)
  BY <1>0, <1>2 DEF FleetTyped, StopAgent
<1>3. CASE HubCrashes(h)
  BY <1>0, <1>3 DEF FleetTyped, HubCrashes
<1>4. CASE HeartbeatWake(h)
  BY <1>0, <1>4 DEF FleetTyped, HeartbeatWake
<1>5. CASE HeartbeatSend(h)
  BY <1>0, <1>5 DEF FleetTyped, HeartbeatSend, SendAnnounce
<1>6. CASE StatusLoop(h)
  <2>1. taken' \in Snapshots
    BY <1>6, CollectTyped DEF StatusLoop, Reporters
  <2> QED
    BY <1>0, <1>6, <2>1 DEF FleetTyped, StatusLoop, Snapshots
<1>7. CASE \E r \in Reporters : SendReport(h, r)
  <2> PICK r \in Reporters : SendReport(h, r)
    BY <1>7
  <2>1. taken' \in Snapshots
    BY SentTyped DEF SendReport
  <2>2. taken[h][r][1] \in SUBSET HubProcs
    BY DEF FleetTyped, SendReport
  <2>3. reports' \in [Hubs -> Seq(SUBSET HubProcs)]
    BY <2>2 DEF FleetTyped, SendReport
  <2> QED
    BY <1>0, <2>1, <2>3 DEF FleetTyped, SendReport, Snapshots
<1>8. CASE \E S \in SUBSET HubProcs : LocalChange(h, S)
  BY <1>0, <1>8 DEF FleetTyped, LocalChange, Input
<1>9. CASE OnLocalStateChange(h)
  <2>1. taken' \in Snapshots /\ recent' \in [Hubs -> BOOLEAN]
    BY <1>9, CollectTyped DEF FleetTyped, OnLocalStateChange, Reporters, Snapshots
  <2>2. changes' \in [Hubs -> Nat]
    BY <1>9 DEF FleetTyped, OnLocalStateChange
  <2> QED
    BY <1>0, <1>9, <2>1, <2>2 DEF FleetTyped, OnLocalStateChange, Snapshots
<1>10. CASE DebounceEnds(h)
  BY <1>0, <1>10 DEF FleetTyped, DebounceEnds
<1>11. CASE OnFleetCommand(h)
  <2> PICK S \in Outcomes(Head(commands[h]), procs[h]) :
        /\ procs' = [procs EXCEPT ![h] = S]
        /\ taken' = [taken EXCEPT ![h]["command"] = <<S>>]
    BY <1>11 DEF OnFleetCommand
  <2>1. S \in SUBSET HubProcs
    BY DEF Outcomes, FleetTyped
  <2>2. taken \in Snapshots /\ <<S>> \in Seq(SUBSET HubProcs)
    BY <2>1 DEF FleetTyped, Snapshots
  <2>3. [taken[h] EXCEPT !["command"] = <<S>>] \in [Reporters -> Seq(SUBSET HubProcs)]
    BY <2>2 DEF Snapshots
  <2>4. taken' \in Snapshots
    BY <2>2, <2>3 DEF Snapshots
  <2>5. commands' \in [Hubs -> Seq(Commands)]
    BY <1>11 DEF FleetTyped, OnFleetCommand
  <2> QED
    BY <1>0, <1>11, <2>1, <2>4, <2>5 DEF FleetTyped, OnFleetCommand, Snapshots
<1> QED
  BY <1>1, <1>2, <1>3, <1>4, <1>5, <1>6, <1>7, <1>8, <1>9, <1>10, <1>11 DEF AgentStep

\* The registry's own steps keep it typed (hub_registry.py).
LEMMA RegistryStepTyped ==
  ASSUME RegistryTyped, NEW h \in Hubs,
         \/ RegisterHub(h) \/ Deregister(h) \/ UpdateHeartbeat(h)
         \/ Elapse(h) \/ \E S \in SUBSET HubProcs : UpdateStatus(h, S)
  PROVE  RegistryTyped'
<1> USE DEF RegistryTyped, HubStatus, IsRegistered, registryVars
<1>1. CASE RegisterHub(h)
  BY <1>1 DEF RegisterHub
<1>2. CASE Deregister(h)
  BY <1>2 DEF Deregister
<1>3. CASE UpdateHeartbeat(h)
  <2>1. CASE IsRegistered(h)
    BY <1>3, <2>1 DEF UpdateHeartbeat
  <2>2. CASE ~IsRegistered(h)
    BY <1>3, <2>2 DEF UpdateHeartbeat
  <2> QED
    BY <2>1, <2>2
<1>4. CASE Elapse(h)
  <2>1. age[h] + 1 \in 0..2
    BY <1>4 DEF Elapse
  <2> QED
    BY <1>4, <2>1 DEF Elapse
<1>5. CASE \E S \in SUBSET HubProcs : UpdateStatus(h, S)
  <2> PICK S \in SUBSET HubProcs : UpdateStatus(h, S)
    BY <1>5
  <2>1. CASE IsRegistered(h)
    BY <2>1 DEF UpdateStatus
  <2>2. CASE ~IsRegistered(h)
    BY <2>2 DEF UpdateStatus
  <2> QED
    BY <2>1, <2>2
<1> QED
  BY <1>1, <1>2, <1>3, <1>4, <1>5

\* A step of the orchestrator keeps the fleet typed (orchestrator.py).
LEMMA OrchestratorTyped ==
  ASSUME FleetTyped, NEW h \in Hubs, OrchestratorStep(h)
  PROVE  FleetTyped'
<1> USE DEF agentVars, netVars, orchVars, clientVars
<1>1. CASE OnHubAnnounce(h)
  <2>1. RegisterHub(h)
    BY <1>1 DEF OnHubAnnounce
  <2>2. announces' \in [Hubs -> Nat]
    BY <1>1 DEF FleetTyped, OnHubAnnounce
  <2>3. handling' \in [Hubs -> {"idle", "new", "known"}]
    BY <1>1 DEF FleetTyped, OnHubAnnounce
  <2> QED
    BY <1>1, <2>1, <2>2, <2>3, RegistryStepTyped DEF FleetTyped, OnHubAnnounce
<1>2. CASE AnnounceNew(h)
  BY <1>2, RegistryUntouched DEF FleetTyped, AnnounceNew, Events
<1>3. CASE RefreshKnown(h)
  <2>1. UpdateHeartbeat(h)
    BY <1>3 DEF RefreshKnown
  <2>2. handling' \in [Hubs -> {"idle", "new", "known"}]
    BY <1>3 DEF FleetTyped, RefreshKnown
  <2> QED
    BY <1>3, <2>1, <2>2, RegistryStepTyped DEF FleetTyped, RefreshKnown
<1>4. CASE OnHubDeregister(h)
  <2>1. Deregister(h)
    BY <1>4 DEF OnHubDeregister
  <2>2. deregisters' \in [Hubs -> Nat]
    BY <1>4 DEF FleetTyped, OnHubDeregister
  <2> QED
    BY <1>4, <2>1, <2>2, RegistryStepTyped DEF FleetTyped, OnHubDeregister
<1>5. CASE OnHubStatusReport(h)
  <2>1. Head(reports[h]) \in SUBSET HubProcs
    BY <1>5 DEF FleetTyped, OnHubStatusReport
  <2>2. reports' \in [Hubs -> Seq(SUBSET HubProcs)]
    BY <1>5 DEF FleetTyped, OnHubStatusReport
  <2>3. \E S \in SUBSET HubProcs : UpdateStatus(h, S)
    BY <1>5, <2>1 DEF OnHubStatusReport
  <2> QED
    BY <1>5, <2>2, <2>3, RegistryStepTyped DEF FleetTyped, OnHubStatusReport
<1>6. CASE BroadcastOffline(h)
  BY <1>6, RegistryUntouched DEF FleetTyped, BroadcastOffline, Events
<1> QED
  BY <1>1, <1>2, <1>3, <1>4, <1>5, <1>6 DEF OrchestratorStep

\* The clients' commands are commands: to a hub that the caller names ...
LEMMA NamedCommands ==
  ASSUME NEW P \in ProcLists
  PROVE  /\ [action |-> "start", procs |-> P] \in Commands
         /\ [action |-> "stop", procs |-> P] \in Commands
         /\ [action |-> "reset"] \in Commands
BY DEF Commands

\* ... or to those of a snapshot (fleet_client.py, the batch operations).
LEMMA BatchTyped ==
  ASSUME FleetTyped, BatchStep
  PROVE  FleetTyped'
<1> USE DEF agentVars, netVars, orchVars, clientVars
<1>1. CASE \E P \in ProcLists : StartOnAllHubs(P)
  <2> PICK P \in ProcLists : StartOnAllHubs(P)
    BY <1>1
  <2>1. wanted' \in [Hubs -> SUBSET Commands]
    BY NamedCommands DEF StartOnAllHubs, Batch
  <2> QED
    BY <2>1, RegistryUntouched DEF FleetTyped, StartOnAllHubs, Batch, Input
<1>2. CASE StopAllProcesses
  <2>1. view \in [Hubs -> SUBSET HubProcs]
    BY DEF FleetTyped, RegistryTyped
  <2>2. ASSUME NEW h \in Hubs, view[h] # {}
        PROVE  [action |-> "stop", procs |-> view[h]] \in Commands
    BY <2>1, <2>2, NamedCommands DEF ProcLists
  <2>3. \A h \in OnlineHubs : h \in Hubs /\ GetFleetStatus[h].processes = view[h]
    BY DEF OnlineHubs, GetFleetStatus, GetSnapshot, Snapshot
  <2>4. wanted' = [h \in Hubs |-> IF h \in OnlineHubs /\ view[h] # {}
                                  THEN {[action |-> "stop", procs |-> view[h]]} ELSE {}]
    BY <1>2, <2>3 DEF StopAllProcesses, Batch
  <2>5. wanted' \in [Hubs -> SUBSET Commands]
    BY <2>2, <2>4
  <2>6. /\ inputs < MaxInputs /\ inputs' = inputs + 1
        /\ UNCHANGED <<agentVars, netVars, handling, silent, ticking, routed, told, registryVars>>
    BY <1>2 DEF StopAllProcesses, Batch, Input
  <2> QED
    BY <2>5, <2>6, RegistryUntouched DEF FleetTyped
<1>3. CASE ResetAllHubs
  <2>1. wanted' \in [Hubs -> SUBSET Commands]
    BY <1>3 DEF ResetAllHubs, Batch, Commands
  <2> QED
    BY <1>3, <2>1, RegistryUntouched DEF FleetTyped, ResetAllHubs, Batch, Input
<1> QED
  BY <1>1, <1>2, <1>3 DEF BatchStep

\* A step of the orchestrator's clients keeps the fleet typed.
LEMMA ClientTyped ==
  ASSUME FleetTyped, NEW h \in Hubs, ClientStep(h)
  PROVE  FleetTyped'
<1> USE DEF agentVars, netVars, orchVars, clientVars
<1>1. ASSUME NEW c \in Commands, CheckCommand(h, c)
      PROVE  FleetTyped'
  BY <1>1, RegistryUntouched DEF FleetTyped, CheckCommand, Input
<1>2. ASSUME NEW c \in Commands, SendCommand(h, c)
      PROVE  FleetTyped'
  <2>1. commands' \in [Hubs -> Seq(Commands)]
    <3>1. CASE agent[h] = "none"
      BY <1>2, <3>1 DEF FleetTyped, SendCommand
    <3>2. CASE agent[h] # "none"
      <4>1. Append(commands[h], c) \in Seq(Commands)
        BY <1>2 DEF FleetTyped
      <4> QED
        BY <1>2, <3>2, <4>1 DEF FleetTyped, SendCommand
    <3> QED
      BY <3>1, <3>2
  <2>2. routed' \in [Hubs -> SUBSET Commands]
    BY <1>2 DEF FleetTyped, SendCommand
  <2> QED
    BY <1>2, <2>1, <2>2, RegistryUntouched DEF FleetTyped, SendCommand
<1>3. ASSUME NEW c \in Commands, BatchGoesOn(h, c)
      PROVE  FleetTyped'
  <2>1. wanted' \in [Hubs -> SUBSET Commands]
    BY <1>3 DEF FleetTyped, BatchGoesOn
  <2>2. routed' \in [Hubs -> SUBSET Commands]
    <3>1. CASE CanCommand(h)
      <4>1. routed' = [routed EXCEPT ![h] = @ \cup {c}]
        BY <1>3, <3>1 DEF BatchGoesOn
      <4> QED
        BY <4>1 DEF FleetTyped
    <3>2. CASE ~CanCommand(h)
      BY <1>3, <3>2 DEF FleetTyped, BatchGoesOn
    <3> QED
      BY <3>1, <3>2
  <2> QED
    BY <1>3, <2>1, <2>2, RegistryUntouched DEF FleetTyped, BatchGoesOn
<1>4. CASE \E P \in ProcLists : StartProcesses(h, P) \/ StopProcesses(h, P)
  BY <1>4, <1>1, NamedCommands DEF StartProcesses, StopProcesses
<1>5. CASE ResetHub(h)
  <2>1. [action |-> "reset"] \in Commands
    BY DEF Commands
  <2> QED
    BY <1>5, <1>1, <2>1 DEF ResetHub
<1>6. CASE ApiCommand(h)
  BY <1>6, <1>1 DEF ApiCommand
<1>7. CASE \E c \in Commands : BatchGoesOn(h, c) \/ SendCommand(h, c)
  BY <1>7, <1>2, <1>3
<1> QED
  BY <1>4, <1>5, <1>6, <1>7 DEF ClientStep

\* A loss or the passing of time keeps the fleet typed.
LEMMA NetworkTyped ==
  ASSUME FleetTyped, NEW h \in Hubs, NetworkStep(h)
  PROVE  FleetTyped'
<1> USE DEF agentVars, netVars, orchVars, clientVars
<1>1. CASE LoseAnnounce(h)
  BY <1>1, RegistryUntouched DEF FleetTyped, LoseAnnounce, Input
<1>2. CASE LoseDeregister(h)
  BY <1>2, RegistryUntouched DEF FleetTyped, LoseDeregister, Input
<1>3. CASE LoseReport(h)
  BY <1>3, RegistryUntouched DEF FleetTyped, LoseReport, Input
<1>4. CASE TimePasses(h)
  BY <1>4, RegistryStepTyped DEF FleetTyped, TimePasses
<1> QED
  BY <1>1, <1>2, <1>3, <1>4 DEF NetworkStep

\* The orchestrator's tick keeps the fleet typed.
LEMMA TickTyped ==
  ASSUME FleetTyped, Tick
  PROVE  FleetTyped'
<1>1. RegistryTyped'
  BY DEF FleetTyped, RegistryTyped, Tick, CheckHealth, StatusAfterCheck,
         IsRegistered, HubStatus
<1> QED
  BY <1>1 DEF FleetTyped, Tick, NewlyOffline, agentVars, netVars, clientVars

\* So does a stop or a start of the orchestrator.
LEMMA SwitchTyped ==
  ASSUME FleetTyped, StopOrchestrator \/ StartOrchestrator
  PROVE  FleetTyped'
<1> USE DEF agentVars, netVars, clientVars
<1>1. CASE StopOrchestrator
  <2>1. RegistryTyped'
    BY <1>1, RegistryUntouched DEF FleetTyped, StopOrchestrator
  <2>2. inputs' \in Nat
    BY <1>1 DEF FleetTyped, StopOrchestrator, Input
  <2> QED
    BY <1>1, <2>1, <2>2 DEF FleetTyped, StopOrchestrator
<1>2. CASE StartOrchestrator
  <2>1. RegistryTyped'
    BY <1>2, RegistryUntouched DEF FleetTyped, StartOrchestrator
  <2> QED
    BY <1>2, <2>1 DEF FleetTyped, StartOrchestrator
<1> QED
  BY <1>1, <1>2

\* Every variable of the fleet keeps the values its code can give it, and the
\* registry never holds anything of a hub it does not know.
THEOREM FleetIsTyped == FleetSpec => []FleetTyped
<1>1. FleetInit => FleetTyped
  BY DEF FleetInit, RegistryInit, FleetTyped, RegistryTyped, HubStatus, Reporters,
         Events
<1>2. FleetTyped /\ [FleetNext]_fleetVars => FleetTyped'
  <2> SUFFICES ASSUME FleetTyped, [FleetNext]_fleetVars
               PROVE  FleetTyped'
    OBVIOUS
  <2>1. CASE UNCHANGED fleetVars
    BY <2>1, RegistryUntouched DEF FleetTyped, fleetVars, agentVars, netVars, orchVars,
                                   clientVars
  <2>2. CASE FleetNext
    BY <2>2, AgentTyped, OrchestratorTyped, ClientTyped, BatchTyped, NetworkTyped,
       TickTyped, SwitchTyped DEF FleetNext
  <2> QED
    BY <2>1, <2>2
<1> QED
  BY <1>1, <1>2, PTL DEF FleetSpec

-----------------------------------------------------------------------------
\* The invariant: OutageIsTold needs that the handler of an announce that was
\* new does not broadcast HUB_ONLINE over an outage that was told since.
OutageInvariant == FleetTyped /\ NewIsFresh /\ OutageIsTold

\* A step of the orchestrator keeps the invariant: what makes a hub known
\* makes it fresh, and what a broadcast replaces is older than the status.
LEMMA OrchestratorTells ==
  ASSUME OutageInvariant, NEW h \in Hubs, OrchestratorStep(h)
  PROVE  NewIsFresh' /\ OutageIsTold'
<1> USE DEF OutageInvariant, FleetTyped, RegistryTyped, NewIsFresh, OutageIsTold,
            IsRegistered, HubStatus
<1>1. CASE OnHubAnnounce(h)
  BY <1>1 DEF OnHubAnnounce, RegisterHub
<1>2. CASE AnnounceNew(h)
  BY <1>2 DEF AnnounceNew, registryVars
<1>3. CASE RefreshKnown(h)
  BY <1>3 DEF RefreshKnown, UpdateHeartbeat, registryVars
<1>4. CASE OnHubDeregister(h)
  BY <1>4 DEF OnHubDeregister, Deregister, orchVars
<1>5. CASE OnHubStatusReport(h)
  BY <1>5 DEF OnHubStatusReport, UpdateStatus, registryVars, orchVars
<1>6. CASE BroadcastOffline(h)
  BY <1>6 DEF BroadcastOffline, registryVars
<1> QED
  BY <1>1, <1>2, <1>3, <1>4, <1>5, <1>6 DEF OrchestratorStep

\* What the clients do changes neither what is known nor what is told.
LEMMA ClientsApart ==
  ASSUME \/ BatchStep \/ StopOrchestrator \/ StartOrchestrator
         \/ \E h \in Hubs : ClientStep(h)
  PROVE  UNCHANGED <<handling, silent, told, registryVars>>
BY DEF BatchStep, StopOrchestrator, StartOrchestrator, ClientStep, StartOnAllHubs,
       StopAllProcesses, ResetAllHubs, Batch, StartProcesses, StopProcesses, ResetHub,
       ApiCommand, CheckCommand, BatchGoesOn, SendCommand

\* Losses touch nothing that is known, and time passes only once HUB_ONLINE
\* is out.
LEMMA NetworkTells ==
  ASSUME OutageInvariant, NEW h \in Hubs, NetworkStep(h)
  PROVE  NewIsFresh' /\ OutageIsTold'
<1> USE DEF OutageInvariant, FleetTyped, RegistryTyped, NewIsFresh, OutageIsTold,
            orchVars, registryVars
<1>1. CASE LoseAnnounce(h) \/ LoseDeregister(h) \/ LoseReport(h)
  BY <1>1 DEF LoseAnnounce, LoseDeregister, LoseReport
<1>2. CASE TimePasses(h)
  BY <1>2 DEF TimePasses, Elapse
<1> QED
  BY <1>1, <1>2 DEF NetworkStep

\* check_health returns every hub it turns offline, and none that is fresh.
LEMMA TickTells ==
  ASSUME OutageInvariant, Tick
  PROVE  NewIsFresh' /\ OutageIsTold'
<1> USE DEF OutageInvariant, FleetTyped, RegistryTyped, Tick, CheckHealth,
            StatusAfterCheck, IsRegistered
<1>1. NewIsFresh'
  BY DEF NewIsFresh
<1>2. OutageIsTold'
  BY DEF OutageIsTold, NewlyOffline
<1> QED
  BY <1>1, <1>2

\* Whenever the registry says that a hub is offline, HUB_OFFLINE is the last
\* event broadcast of it or tick holds it in hand (FleetOrchestrator.tick).
THEOREM OutagesAreTold == FleetSpec => []OutageIsTold
<1>1. FleetInit => NewIsFresh /\ OutageIsTold
  BY DEF FleetInit, RegistryInit, NewIsFresh, OutageIsTold
<1>2. OutageInvariant /\ [FleetNext]_fleetVars => (NewIsFresh /\ OutageIsTold)'
  <2> SUFFICES ASSUME OutageInvariant, [FleetNext]_fleetVars
               PROVE  (NewIsFresh /\ OutageIsTold)'
    OBVIOUS
  <2>1. CASE UNCHANGED fleetVars
    BY <2>1 DEF OutageInvariant, NewIsFresh, OutageIsTold, fleetVars, orchVars,
                registryVars
  <2>2. CASE \E h \in Hubs : AgentStep(h)
    BY <2>2, AgentApart DEF OutageInvariant, NewIsFresh, OutageIsTold, orchVars,
                            registryVars
  <2>3. CASE \E h \in Hubs : OrchestratorStep(h) \/ NetworkStep(h)
    BY <2>3, OrchestratorTells, NetworkTells
  <2>4. CASE Tick
    BY <2>4, TickTells
  <2>5. CASE \/ BatchStep \/ StopOrchestrator \/ StartOrchestrator
             \/ \E h \in Hubs : ClientStep(h)
    BY <2>5, ClientsApart DEF OutageInvariant, NewIsFresh, OutageIsTold, registryVars
  <2> QED
    BY <2>1, <2>2, <2>3, <2>4, <2>5 DEF FleetNext
<1> QED
  BY <1>1, <1>2, FleetIsTyped, PTL DEF FleetSpec, OutageInvariant
=============================================================================
