-------------------------------- MODULE Fleet --------------------------------
(***************************************************************************)
(* ProcessHub/fleet: hub agents (hub_agent.py) that announce their hub and   *)
(* report its processes, and the orchestrator (orchestrator.py) that keeps  *)
(* the registry of hubs, broadcasts when one appears or falls silent and    *)
(* routes commands, to its clients in the process: fleet_client.py and the   *)
(* routes of web_api.py.                                                    *)
(*                                                                          *)
(* Each topic has a queue per hub.  A topic keeps the order of its own      *)
(* messages and nothing is said of the order between topics; messages on    *)
(* their way to the orchestrator may be lost.  The threads of an agent are  *)
(* its heartbeat loop, the three that report (status loop, dispatcher of    *)
(* the local transport, command handler) and the one that calls start and   *)
(* stop.  The orchestrator handles announces in one thread per hub,         *)
(* ticks in another and is called by clients in yet others.                 *)
(***************************************************************************)
EXTENDS HubRegistry, Sequences, FiniteSets

CONSTANTS MaxQueue,        \* bound on the length of a queue, on the commands for a
                           \* hub that are in send_command, on unhandled changes and,
                           \* under a stopped agent, on those not reported yet
          MaxInputs        \* bound on agent starts, processes started under a running
                           \* agent, client commands, orchestrator stops and lost
                           \* messages, taken together

ASSUME FleetBounds ==
  /\ MaxQueue \in Nat \ {0}
  /\ MaxInputs \in Nat

VARIABLES
  agent,       \* "none", "running" (_running) or "stopped"
  procs,       \* what the hub's core would put into a snapshot
  beating,     \* the heartbeat loop has seen _running and is about to send
  taken,       \* per reporter: the snapshot it is about to send, if any
  recent,      \* the last event report is younger than _event_debounce
  changes,     \* state changes published on the local transport, unhandled
  announces, deregisters, reports, commands,    \* the topics' queues
  handling,    \* _on_hub_announce between its registry calls and its end
  silent,      \* tick: hubs whose HUB_OFFLINE is still to be broadcast
  ticking,     \* the orchestrator's _running
  wanted,      \* a batch: commands it has still to give to send_command
  routed,      \* send_command: commands that passed the check, not yet sent
  told,        \* the last of HUB_ONLINE and HUB_OFFLINE broadcast for a hub
  inputs       \* how many inputs there were

agentVars == <<agent, procs, beating, taken, recent, changes>>
netVars == <<announces, deregisters, reports, commands>>
clientVars == <<wanted, routed>>
orchVars == <<handling, silent, ticking, clientVars, told>>
fleetVars == <<agentVars, netVars, orchVars, inputs, registryVars>>

Reporters == {"poll", "event", "command"}
Events == {"nothing", "online", "offline"}
ProcLists == (SUBSET HubProcs) \ {{}}
Commands == [action : {"start", "stop"}, procs : ProcLists]
              \cup [action : {"reset"}]

Input == inputs < MaxInputs /\ inputs' = inputs + 1

FleetInit ==
  /\ RegistryInit
  /\ agent = [h \in Hubs |-> "none"]
  /\ procs = [h \in Hubs |-> {}]
  /\ beating = [h \in Hubs |-> FALSE]
  /\ taken = [h \in Hubs |-> [r \in Reporters |-> <<>>]]
  /\ recent = [h \in Hubs |-> FALSE]
  /\ changes = [h \in Hubs |-> 0]
  /\ announces = [h \in Hubs |-> 0]
  /\ deregisters = [h \in Hubs |-> 0]
  /\ reports = [h \in Hubs |-> <<>>]
  /\ commands = [h \in Hubs |-> <<>>]
  /\ handling = [h \in Hubs |-> "idle"]
  /\ silent = {}
  /\ ticking = TRUE
  /\ wanted = [h \in Hubs |-> {}]
  /\ routed = [h \in Hubs |-> {}]
  /\ told = [h \in Hubs |-> "nothing"]
  /\ inputs = 0

-----------------------------------------------------------------------------
(* The agent *)

SendAnnounce(h) ==
  /\ announces[h] < MaxQueue
  /\ announces' = [announces EXCEPT ![h] = @ + 1]

Collect(h, r) ==
  /\ taken[h][r] = <<>>
  /\ taken' = [taken EXCEPT ![h][r] = <<procs[h]>>]

\* start: announces, then lets the loops run.  stop has waited for them.
StartAgent(h) ==
  /\ agent[h] # "running"
  /\ ~beating[h] /\ taken[h]["poll"] = <<>>
  /\ Input
  /\ SendAnnounce(h)
  /\ agent' = [agent EXCEPT ![h] = "running"]
  /\ UNCHANGED <<procs, beating, taken, recent, changes, deregisters,
                 reports, commands, orchVars, registryVars>>

\* stop: _running goes down, then the deregistration is sent; a loop that has
\* already seen _running sends after it.
StopAgent(h) ==
  /\ agent[h] = "running"
  /\ deregisters[h] < MaxQueue
  /\ agent' = [agent EXCEPT ![h] = "stopped"]
  /\ deregisters' = [deregisters EXCEPT ![h] = @ + 1]
  /\ UNCHANGED <<procs, beating, taken, recent, changes, announces,
                 reports, commands, orchVars, inputs, registryVars>>

\* The hub's process ends; what was sent to it is gone with its subscription.
HubCrashes(h) ==
  /\ agent[h] # "none"
  /\ agent' = [agent EXCEPT ![h] = "none"]
  /\ procs' = [procs EXCEPT ![h] = {}]
  /\ beating' = [beating EXCEPT ![h] = FALSE]
  /\ taken' = [taken EXCEPT ![h] = [r \in Reporters |-> <<>>]]
  /\ recent' = [recent EXCEPT ![h] = FALSE]
  /\ changes' = [changes EXCEPT ![h] = 0]
  /\ commands' = [commands EXCEPT ![h] = <<>>]
  /\ UNCHANGED <<announces, deregisters, reports, orchVars, inputs, registryVars>>

HeartbeatWake(h) ==
  /\ agent[h] = "running" /\ ~beating[h]
  /\ beating' = [beating EXCEPT ![h] = TRUE]
  /\ UNCHANGED <<agent, procs, taken, recent, changes, netVars, orchVars,
                 inputs, registryVars>>

HeartbeatSend(h) ==
  /\ beating[h]
  /\ SendAnnounce(h)
  /\ beating' = [beating EXCEPT ![h] = FALSE]
  /\ UNCHANGED <<agent, procs, taken, recent, changes, deregisters, reports,
                 commands, orchVars, inputs, registryVars>>

StatusLoop(h) ==
  /\ agent[h] = "running"
  /\ Collect(h, "poll")
  /\ UNCHANGED <<agent, procs, beating, recent, changes, netVars, orchVars,
                 inputs, registryVars>>

SendReport(h, r) ==
  /\ taken[h][r] # <<>>
  /\ Len(reports[h]) < MaxQueue
  /\ reports' = [reports EXCEPT ![h] = Append(@, taken[h][r][1])]
  /\ taken' = [taken EXCEPT ![h][r] = <<>>]
  /\ UNCHANGED <<agent, procs, beating, recent, changes, announces,
                 deregisters, commands, orchVars, inputs, registryVars>>

\* Panels and crashes change what the hub runs; the server publishes it, be the agent
\* stopped or not.  Where it is stopped the changes may go on for ever, each when the
\* last one has been reported.
LocalChange(h, S) ==
  /\ S # procs[h]
  /\ agent[h] # "none" /\ changes[h] < MaxQueue
  /\ agent[h] = "stopped" => taken[h]["event"] = <<>> /\ Len(reports[h]) < MaxQueue
  /\ IF agent[h] = "running" /\ ~(S \subseteq procs[h]) THEN Input ELSE UNCHANGED inputs
  /\ procs' = [procs EXCEPT ![h] = S]
  /\ changes' = [changes EXCEPT ![h] = @ + 1]
  /\ UNCHANGED <<agent, beating, taken, recent, netVars, orchVars, registryVars>>

\* A change inside the debounce window is not reported.  The handler does not look at
\* _running, and stop leaves it with the local transport.
OnLocalStateChange(h) ==
  /\ changes[h] > 0
  /\ taken[h]["event"] = <<>>
  /\ changes' = [changes EXCEPT ![h] = @ - 1]
  /\ \/ recent[h] /\ UNCHANGED <<recent, taken>>
     \/ /\ ~recent[h]
        /\ recent' = [recent EXCEPT ![h] = TRUE]
        /\ Collect(h, "event")
  /\ UNCHANGED <<agent, procs, beating, netVars, orchVars, inputs, registryVars>>

DebounceEnds(h) ==
  /\ recent[h]
  /\ recent' = [recent EXCEPT ![h] = FALSE]
  /\ UNCHANGED <<agent, procs, beating, taken, changes, netVars, orchVars,
                 inputs, registryVars>>

\* What the hub may run after a command: the core does it, for some of the
\* processes or for all, or refuses.
Outcomes(c, S) ==
  {S} \cup {T \in SUBSET HubProcs :
             \/ c.action = "start" /\ S \subseteq T /\ T \subseteq S \cup c.procs
             \/ c.action = "stop" /\ S \ c.procs \subseteq T /\ T \subseteq S
             \/ c.action = "reset" /\ T = {}}

\* The core runs the command; the result is sent, then a report.  The handler
\* outlives stop, and nobody in the package subscribes to the result.
OnFleetCommand(h) ==
  /\ commands[h] # <<>>
  /\ taken[h]["command"] = <<>>
  /\ commands' = [commands EXCEPT ![h] = Tail(@)]
  /\ \E S \in Outcomes(Head(commands[h]), procs[h]) :
       /\ procs' = [procs EXCEPT ![h] = S]
       /\ taken' = [taken EXCEPT ![h]["command"] = <<S>>]
  /\ UNCHANGED <<agent, beating, recent, changes, announces, deregisters,
                 reports, orchVars, inputs, registryVars>>

-----------------------------------------------------------------------------
(* The orchestrator *)

\* Mutant: known hubs announce themselves in vain.
OnHubAnnounceOnce(h) ==
  /\ announces[h] > 0 /\ handling[h] = "idle"
  /\ announces' = [announces EXCEPT ![h] = @ - 1]
  /\ IF IsRegistered(h)
     THEN UNCHANGED <<handling, registryVars>>
     ELSE RegisterHub(h) /\ handling' = [handling EXCEPT ![h] = "new"]
  /\ UNCHANGED <<agentVars, deregisters, reports, commands, silent, ticking,
                 clientVars, told, inputs>>

OnHubAnnounce(h) ==
  /\ announces[h] > 0 /\ handling[h] = "idle"
  /\ announces' = [announces EXCEPT ![h] = @ - 1]
  /\ RegisterHub(h)
  /\ handling' = [handling EXCEPT ![h] = IF IsRegistered(h) THEN "known" ELSE "new"]
  /\ UNCHANGED <<agentVars, deregisters, reports, commands, silent, ticking,
                 clientVars, told, inputs>>

\* HUB_REGISTERED, which no agent subscribes to, and HUB_ONLINE.
AnnounceNew(h) ==
  /\ handling[h] = "new"
  /\ handling' = [handling EXCEPT ![h] = "idle"]
  /\ told' = [told EXCEPT ![h] = "online"]
  /\ UNCHANGED <<agentVars, netVars, silent, ticking, clientVars, inputs, registryVars>>

RefreshKnown(h) ==
  /\ handling[h] = "known"
  /\ handling' = [handling EXCEPT ![h] = "idle"]
  /\ UpdateHeartbeat(h)
  /\ UNCHANGED <<agentVars, netVars, silent, ticking, clientVars, told, inputs>>

OnHubDeregister(h) ==
  /\ deregisters[h] > 0
  /\ deregisters' = [deregisters EXCEPT ![h] = @ - 1]
  /\ Deregister(h)
  /\ UNCHANGED <<agentVars, announces, reports, commands, orchVars, inputs>>

OnHubStatusReport(h) ==
  /\ reports[h] # <<>>
  /\ reports' = [reports EXCEPT ![h] = Tail(@)]
  /\ UpdateStatus(h, Head(reports[h]))
  /\ UNCHANGED <<agentVars, announces, deregisters, commands, orchVars, inputs>>

\* tick first lets check_health work, then broadcasts outside the lock.
Tick ==
  /\ ticking /\ silent = {}
  /\ CheckHealth
  /\ silent' = NewlyOffline
  /\ UNCHANGED <<agentVars, netVars, handling, ticking, clientVars, told, inputs>>

BroadcastOffline(h) ==
  /\ h \in silent
  /\ silent' = silent \ {h}
  /\ told' = [told EXCEPT ![h] = "offline"]
  /\ UNCHANGED <<agentVars, netVars, handling, ticking, clientVars, inputs, registryVars>>

\* stop ends the ticks, the handlers stay with the transport; start, which gives
\* them to it again, lets tick go on.
StopOrchestrator ==
  /\ ticking /\ Input
  /\ ticking' = FALSE
  /\ UNCHANGED <<agentVars, netVars, handling, silent, clientVars, told, registryVars>>

StartOrchestrator ==
  /\ ~ticking
  /\ ticking' = TRUE
  /\ UNCHANGED <<agentVars, netVars, handling, silent, clientVars, told, inputs, registryVars>>

-----------------------------------------------------------------------------
(* The orchestrator's clients *)

\* send_command: the hub must be known and not offline when it is looked up.
CanCommand(h) == IsRegistered(h) /\ GetHub(h).status # "offline"

CheckCommand(h, c) ==
  /\ CanCommand(h) /\ Cardinality(routed[h]) < MaxQueue
  /\ Input
  /\ routed' = [routed EXCEPT ![h] = @ \cup {c}]
  /\ UNCHANGED <<agentVars, netVars, handling, silent, ticking, wanted, told, registryVars>>

\* FleetClient, one command to one hub.
StartProcesses(h, P) == CheckCommand(h, [action |-> "start", procs |-> P])
StopProcesses(h, P) == CheckCommand(h, [action |-> "stop", procs |-> P])
ResetHub(h) == CheckCommand(h, [action |-> "reset"])

\* FleetWebAPI: the endpoint of any command and those of a hub (get_status changes
\* nothing); what send_command refuses is answered with 400.
ApiCommand(h) == \E c \in Commands : CheckCommand(h, c)

\* A batch works from one snapshot of the registry, and sends hub after hub.
Batch(commandTo) ==
  /\ Input /\ \A h \in Hubs : wanted[h] = {}
  /\ wanted' = [h \in Hubs |-> IF h \in DOMAIN commandTo THEN {commandTo[h]} ELSE {}]
  /\ UNCHANGED <<agentVars, netVars, handling, silent, ticking, routed, told, registryVars>>

\* get_fleet_status
GetFleetStatus == GetSnapshot

OnlineHubs == {h \in DOMAIN GetFleetStatus : GetFleetStatus[h].status = "online"}

StartOnAllHubs(P) == Batch([h \in OnlineHubs |-> [action |-> "start", procs |-> P]])

\* The processes that the hub is told to stop are those of the snapshot.
StopAllProcesses ==
  Batch([h \in {o \in OnlineHubs : GetFleetStatus[o].processes # {}} |->
           [action |-> "stop", procs |-> GetFleetStatus[h].processes]])

ResetAllHubs == Batch([h \in OnlineHubs |-> [action |-> "reset"]])

\* The hub's turn: a command that send_command refuses by now is passed over.
BatchGoesOn(h, c) ==
  /\ c \in wanted[h]
  /\ wanted' = [wanted EXCEPT ![h] = @ \ {c}]
  /\ IF CanCommand(h)
     THEN /\ Cardinality(routed[h]) < MaxQueue
          /\ routed' = [routed EXCEPT ![h] = @ \cup {c}]
     ELSE UNCHANGED routed
  /\ UNCHANGED <<agentVars, netVars, handling, silent, ticking, told, inputs, registryVars>>

\* The command reaches whoever subscribes under that name by now.
SendCommand(h, c) ==
  /\ c \in routed[h]
  /\ routed' = [routed EXCEPT ![h] = @ \ {c}]
  /\ IF agent[h] = "none"
     THEN UNCHANGED commands
     ELSE /\ Len(commands[h]) < MaxQueue
          /\ commands' = [commands EXCEPT ![h] = Append(@, c)]
  /\ UNCHANGED <<agentVars, announces, deregisters, reports, handling, silent,
                 ticking, wanted, told, inputs, registryVars>>

-----------------------------------------------------------------------------
(* The network and the clock *)

LoseAnnounce(h) ==
  /\ announces[h] > 0 /\ Input
  /\ announces' = [announces EXCEPT ![h] = @ - 1]
  /\ UNCHANGED <<agentVars, deregisters, reports, commands, orchVars, registryVars>>

LoseDeregister(h) ==
  /\ deregisters[h] > 0 /\ Input
  /\ deregisters' = [deregisters EXCEPT ![h] = @ - 1]
  /\ UNCHANGED <<agentVars, announces, reports, commands, orchVars, registryVars>>

LoseReport(h) ==
  /\ reports[h] # <<>> /\ Input
  /\ reports' = [reports EXCEPT ![h] = Tail(@)]
  /\ UNCHANGED <<agentVars, announces, deregisters, commands, orchVars, registryVars>>

\* Half the timeout is longer than it takes to broadcast that a hub is new.
TimePasses(h) ==
  /\ handling[h] # "new"
  /\ Elapse(h)
  /\ UNCHANGED <<agentVars, netVars, orchVars, inputs>>

AgentStep(h) ==
  \/ StartAgent(h) \/ StopAgent(h) \/ HubCrashes(h)
  \/ HeartbeatWake(h) \/ HeartbeatSend(h) \/ StatusLoop(h)
  \/ \E r \in Reporters : SendReport(h, r)
  \/ \E S \in SUBSET HubProcs : LocalChange(h, S)
  \/ OnLocalStateChange(h) \/ DebounceEnds(h) \/ OnFleetCommand(h)

OrchestratorStep(h) ==
  \/ OnHubAnnounce(h) \/ AnnounceNew(h) \/ RefreshKnown(h)
  \/ OnHubDeregister(h) \/ OnHubStatusReport(h) \/ BroadcastOffline(h)

ClientStep(h) ==
  \/ \E P \in ProcLists : StartProcesses(h, P) \/ StopProcesses(h, P)
  \/ ResetHub(h) \/ ApiCommand(h)
  \/ \E c \in Commands : BatchGoesOn(h, c) \/ SendCommand(h, c)

BatchStep ==
  (\E P \in ProcLists : StartOnAllHubs(P)) \/ StopAllProcesses \/ ResetAllHubs

NetworkStep(h) ==
  LoseAnnounce(h) \/ LoseDeregister(h) \/ LoseReport(h) \/ TimePasses(h)

FleetNext ==
  \/ \E h \in Hubs : AgentStep(h) \/ OrchestratorStep(h) \/ ClientStep(h) \/ NetworkStep(h)
  \/ Tick \/ StopOrchestrator \/ StartOrchestrator
  \/ BatchStep

\* The heartbeat and the status loop of an agent run on, the orchestrator's handlers of
\* announces and reports, and tick while the orchestrator runs; time passes.  Nothing is
\* assumed of starts, stops, crashes, local changes and their reports, deregistrations,
\* commands and losses.
FleetFairness ==
  /\ WF_fleetVars(Tick \/ \E h \in Hubs : BroadcastOffline(h))
  /\ \A h \in Hubs :
       /\ WF_fleetVars(HeartbeatWake(h) \/ HeartbeatSend(h))
       /\ WF_fleetVars(StatusLoop(h) \/ SendReport(h, "poll"))
       /\ WF_fleetVars(OnHubAnnounce(h) \/ AnnounceNew(h) \/ RefreshKnown(h))
       /\ WF_fleetVars(OnHubStatusReport(h))
       /\ WF_fleetVars(TimePasses(h))

FleetSpec == FleetInit /\ [][FleetNext]_fleetVars /\ FleetFairness

-----------------------------------------------------------------------------
(* Properties *)

\* Every variable of the fleet has the values its code can give it, and the
\* registry holds nothing of a hub it does not know (update_status drops the
\* reports that arrive before the announce or after the deregistration).
FleetTyped ==
  /\ RegistryTyped
  /\ agent \in [Hubs -> {"none", "running", "stopped"}]
  /\ procs \in [Hubs -> SUBSET HubProcs]
  /\ beating \in [Hubs -> BOOLEAN]
  /\ taken \in [Hubs -> [Reporters -> Seq(SUBSET HubProcs)]]
  /\ recent \in [Hubs -> BOOLEAN]
  /\ changes \in [Hubs -> Nat]
  /\ announces \in [Hubs -> Nat]
  /\ deregisters \in [Hubs -> Nat]
  /\ reports \in [Hubs -> Seq(SUBSET HubProcs)]
  /\ commands \in [Hubs -> Seq(Commands)]
  /\ handling \in [Hubs -> {"idle", "new", "known"}]
  /\ silent \subseteq Hubs
  /\ ticking \in BOOLEAN
  /\ wanted \in [Hubs -> SUBSET Commands]
  /\ routed \in [Hubs -> SUBSET Commands]
  /\ told \in [Hubs -> Events]
  /\ inputs \in Nat

\* The clients know of an outage: when the registry says offline, HUB_OFFLINE
\* is the last thing broadcast of that hub or tick is about to broadcast it,
\* whatever heartbeats, deregistrations and new registrations came between
\* check_health and the broadcast (orchestrator.py, tick).
OutageIsTold ==
  \A h \in Hubs : status[h] = "offline" => told[h] = "offline" \/ h \in silent

\* What OutageIsTold rests on: a hub that has just been found new is not
\* taken for silent before HUB_ONLINE is out.
NewIsFresh ==
  \A h \in Hubs : handling[h] = "new" => age[h] = 0 /\ status[h] # "offline"


\* A hub that keeps running is online again and again, after any outage.
RunningHubsReturn ==
  \A h \in Hubs : <>[](agent[h] = "running") => []<>(status[h] = "online")

\* When a running hub's processes stop changing, the orchestrator shows them:
\* snapshots that were taken early and sent late, changes inside the debounce
\* window and lost reports are all made good by the status loop.
ViewCatchesUp ==
  \A h \in Hubs : \A S \in SUBSET HubProcs :
    <>[](agent[h] = "running" /\ procs[h] = S) => <>[](view[h] = S)

\* What HubAgent.stop promises ("Sends deregistration message and stops background
\* loops"), taken at its word: a hub whose agent has stopped leaves the fleet.
StoppedHubsLeave ==
  \A h \in Hubs :
    <>[](ticking /\ agent[h] = "stopped") => <>[](status[h] \in {"unknown", "offline"})

\* What FleetClient.on_hub_online promises: a hub that is back online for good
\* is told to be online.
ReturnIsTold ==
  \A h \in Hubs : <>[](status[h] = "online") => <>[](told[h] = "online")
=============================================================================
