------------------------ MODULE AdminDashboard_proofs ------------------------
(***************************************************************************)
(* For any panels, names, topics and bounds: the types of the server, its     *)
(* transport and the dashboard; what the dashboard started has a               *)
(* configuration; a stop tells the panels it has listed; and a started         *)
(* transport hears the topics that have a handler.                           *)
(***************************************************************************)
EXTENDS AdminDashboard, TLAPS

Users == Panels \cup {Admin}

-----------------------------------------------------------------------------
(* The registry.                                                            *)

\* Names and requesters stay of their types in everything that the server and the
\* dashboard do with the registry.
LEMMA RegistryTyped ==
  ASSUME NEW reg \in Registry!Registries, NEW n \in Names, NEW r \in Users,
         NEW s \in Registry!ProcessState
  PROVE  /\ Registry!Register(reg, n, r) \in Registry!Registries
         /\ Registry!Unregister(reg, n, r) \in Registry!Registries
         /\ Registry!WithState(reg, n, s) \in Registry!Registries
         /\ Registry!WithState(Registry!Register(reg, n, r), n, s) \in Registry!Registries
         /\ Registry!WithState(Registry!Unregister(reg, n, r), n, s) \in Registry!Registries
         /\ Registry!Unregister(Registry!WithState(reg, n, s), n, r) \in Registry!Registries
         /\ Registry!RemoveRequester(reg, r) \in Registry!Registries
<1>1. ASSUME NEW g \in Registry!Registries
      PROVE  /\ Registry!Register(g, n, r) \in Registry!Registries
             /\ Registry!Unregister(g, n, r) \in Registry!Registries
             /\ Registry!WithState(g, n, s) \in Registry!Registries
  <2>1. \A m \in Names : /\ g[m].users \in SUBSET Users
                         /\ g[m].state \in Registry!ProcessState \cup {Registry!Absent}
                         /\ g[m] \in Registry!ProcessInfo
    BY DEF Registry!Registries, Registry!ProcessInfo, Users
  <2>2. "REGISTERED" \in Registry!ProcessState
    BY DEF Registry!ProcessState
  <2>3. [state |-> IF Registry!Exists(g, n) THEN g[n].state ELSE "REGISTERED",
         users |-> g[n].users \cup {r}] \in Registry!ProcessInfo
    BY <2>1, <2>2 DEF Registry!ProcessInfo, Users
  <2>4. [g[n] EXCEPT !.users = @ \ {r}] \in Registry!ProcessInfo
    BY <2>1 DEF Registry!ProcessInfo, Users
  <2>5. [g[n] EXCEPT !.state = s] \in Registry!ProcessInfo
    BY <2>1 DEF Registry!ProcessInfo
  <2>6. g \in [Names -> Registry!ProcessInfo]
    BY DEF Registry!Registries
  <2>7. Registry!Register(g, n, r) \in Registry!Registries
    BY <2>3, <2>6 DEF Registry!Register, Registry!Registries
  <2>8. Registry!Unregister(g, n, r) \in Registry!Registries
    BY <2>4, <2>6 DEF Registry!Unregister, Registry!Registries
  <2>9. Registry!WithState(g, n, s) \in Registry!Registries
    BY <2>5, <2>6 DEF Registry!WithState, Registry!Registries
  <2> QED
    BY <2>7, <2>8, <2>9
<1>2. Registry!RemoveRequester(reg, r) \in Registry!Registries
  BY DEF Registry!RemoveRequester, Registry!Registries, Registry!ProcessInfo
<1> QED
  BY <1>1, <1>2

LEMMA RegistryEmpty ==
  Registry!EmptyRegistry \in Registry!Registries /\ Registry!NoEntry \in Registry!ProcessInfo
BY DEF Registry!EmptyRegistry, Registry!NoEntry, Registry!Registries, Registry!ProcessInfo

LEMMA SnapshotTyped ==
  ASSUME NEW reg \in Registry!Registries
  PROVE  Registry!GetSnapshot(reg) \in Snapshots /\ Registry!AllNames(reg) \subseteq Names
<1>1. Registry!AllNames(reg) \in SUBSET Names
  BY DEF Registry!AllNames
<1>2. Registry!GetSnapshot(reg) \in [Registry!AllNames(reg) -> Registry!ProcessInfo]
  BY <1>1 DEF Registry!GetSnapshot, Registry!Get, Registry!Registries
<1> QED
  BY <1>1, <1>2 DEF Snapshots

-----------------------------------------------------------------------------
(* Types, and what a place of run says of the transport.                    *)

\* What start has iterated over is subscribed, or was tried; at the end of the iteration
\* that is every topic but those registered since.
Iterated ==
  /\ starting.at = "subscribing" => starting.topics \subseteq starting.left \cup bound \cup missed
  /\ starting.at = "subscribed" => handlers \subseteq bound \cup missed \cup unheard

BusHolds == BusTyped /\ Iterated /\ TopicsHeard

\* Where run is tells how far its transport is, and whom a stop has told.
RunAgrees ==
  /\ main.at = "subscribing" <=> starting # NotStarting
  /\ main.at \in {"loop", "connections", "snapshot", "listed", "cleared", "telling", "told", "closing"}
       => transportStarted
  /\ main.at \in {"told", "closing", "ended"} => main.panels \subseteq told \cup lost

\* The start of a process comes after the look at its configuration.
StartIsConfigured == web.op = "starting" => web.name \in configs

DashboardInv ==
  /\ DashboardTyped /\ Iterated /\ RunAgrees
  /\ AdminProcessIsConfigured /\ StartIsConfigured
  /\ TopicsHeard

\* How far a start or a registration is, by its type.
LEMMA BusParts ==
  ASSUME BusTyped
  PROVE  /\ starting.at \in {"no", "subscribing", "subscribed"}
         /\ starting.at = "no" <=> starting = NotStarting
         /\ starting.at = "subscribing" =>
              /\ starting.topics \in SUBSET handlers /\ starting.left \in SUBSET handlers
              /\ \A topic : LET next == [starting EXCEPT !.left = @ \ {topic}] IN
                   /\ next \in [at : {"subscribing"}, topics : SUBSET handlers, left : SUBSET handlers]
                   /\ next.at = "subscribing" /\ next.topics = starting.topics
                   /\ next.left = starting.left \ {topic}
         /\ registering.op \in {"none", "kept", "subscribe"}
         /\ registering.op = "none" <=> registering = NoRegistration
         /\ registering.op # "none" =>
              /\ registering.topic \in handlers
              /\ LET next == [registering EXCEPT !.op = "subscribe"] IN
                   /\ next \in [op : {"kept", "subscribe"}, topic : handlers]
                   /\ next.topic = registering.topic /\ next.op = "subscribe"
<1> DEFINE S == [at : {"subscribing"}, topics : SUBSET handlers, left : SUBSET handlers]
           R == [op : {"kept", "subscribe"}, topic : handlers]
<1>1. starting \in [at : {"no", "subscribed"}] \/ starting \in S
  BY DEF BusTyped
<1>2. registering \in [op : {"none"}] \/ registering \in R
  BY DEF BusTyped
<1>3. /\ starting.at \in {"no", "subscribing", "subscribed"}
      /\ starting.at = "no" <=> starting = NotStarting
      /\ starting.at = "subscribing" => starting \in S
  BY <1>1 DEF NotStarting
<1>4. ASSUME starting \in S
      PROVE  /\ starting.topics \in SUBSET handlers /\ starting.left \in SUBSET handlers
             /\ \A topic : LET next == [starting EXCEPT !.left = @ \ {topic}] IN
                  /\ next \in S
                  /\ next.at = "subscribing" /\ next.topics = starting.topics
                  /\ next.left = starting.left \ {topic}
  BY <1>4
<1>5. /\ registering.op \in {"none", "kept", "subscribe"}
      /\ registering.op = "none" <=> registering = NoRegistration
      /\ registering.op # "none" => registering \in R
  BY <1>2 DEF NoRegistration
<1>6. ASSUME registering \in R
      PROVE  /\ registering.topic \in handlers
             /\ LET next == [registering EXCEPT !.op = "subscribe"] IN
                  /\ next \in R /\ next.topic = registering.topic /\ next.op = "subscribe"
  BY <1>6
<1> QED
  BY <1>3, <1>4, <1>5, <1>6

\* A registration keeps the transport as it should be, at whatever moment it comes.
LEMMA RegistrationFacts ==
  ASSUME BusHolds
  PROVE  /\ \A topic \in Topics : RegisterHandler(topic) => BusHolds'
         /\ TestStarted => BusHolds'
         /\ SubscribeLate => BusHolds'
<1>1. ASSUME NEW topic \in Topics, RegisterHandler(topic) PROVE BusHolds'
  <2>1. registering' \in [op : {"kept"}, topic : handlers'] /\ registering'.topic = topic
        /\ registering' # NoRegistration
    BY <1>1 DEF RegisterHandler, NoRegistration
  <2>2. starting' = starting /\ handlers \subseteq handlers'
    BY <1>1 DEF RegisterHandler
  <2>3. starting' \in [at : {"no", "subscribed"}]
                      \cup [at : {"subscribing"}, topics : SUBSET handlers', left : SUBSET handlers']
    BY <2>2 DEF BusHolds, BusTyped
  <2>4. BusTyped'
    BY <1>1, <2>1, <2>3 DEF BusHolds, BusTyped, RegisterHandler
  <2>5. Iterated'
    BY <1>1 DEF BusHolds, Iterated, RegisterHandler
  <2>6. TopicsHeard'
    BY <1>1, <2>1 DEF BusHolds, TopicsHeard, RegisterHandler
  <2> QED
    BY <2>4, <2>5, <2>6 DEF BusHolds
<1>2. ASSUME TestStarted PROVE BusHolds'
  <2>0. BusTyped
    BY DEF BusHolds
  <2>1. \/ /\ client # "none" /\ transportStarted /\ registering' = [registering EXCEPT !.op = "subscribe"]
        \/ ~transportStarted /\ registering' = NoRegistration
    BY <1>2, <2>0 DEF TestStarted, BusTyped
  <2>2. UNCHANGED <<client, transportStarted, handlers, subscriptions, bound, abandoned, starting,
                    missed, unheard>> /\ registering.op = "kept"
    BY <1>2 DEF TestStarted
  <2>3. CASE transportStarted /\ registering' = [registering EXCEPT !.op = "subscribe"]
    <3>1. /\ registering' \in [op : {"kept", "subscribe"}, topic : handlers]
          /\ registering'.topic = registering.topic /\ registering'.op = "subscribe"
      BY <2>0, <2>2, <2>3, BusParts
    <3>2. registering' # NoRegistration
      BY <3>1 DEF NoRegistration
    <3> QED
      BY <2>2, <3>1, <3>2 DEF BusHolds, BusTyped, Iterated, TopicsHeard
  <2>4. CASE ~transportStarted /\ registering' = NoRegistration
    BY <2>2, <2>4 DEF BusHolds, BusTyped, Iterated, TopicsHeard, NoRegistration
  <2> QED
    BY <2>1, <2>3, <2>4
<1>3. ASSUME SubscribeLate PROVE BusHolds'
  <2>1. registering.topic \in handlers
    BY <1>3, BusParts DEF SubscribeLate, BusHolds
  <2>2. /\ UNCHANGED <<client, transportStarted, handlers, abandoned, starting, unheard>>
        /\ registering' = NoRegistration /\ Subscribe(registering.topic)
    BY <1>3 DEF SubscribeLate
  <2>3. bound \cup missed \cup {registering.topic} \subseteq bound' \cup missed'
    BY <2>2 DEF Subscribe
  <2>4. BusTyped'
    BY <2>1, <2>2 DEF BusHolds, BusTyped, Subscribe, NoRegistration
  <2> QED
    BY <2>2, <2>3, <2>4 DEF BusHolds, Iterated, TopicsHeard
<1> QED
  BY <1>1, <1>2, <1>3

\* So do start ...
LEMMA StartFacts ==
  ASSUME BusHolds
  PROVE  /\ Connect => BusHolds' /\ starting' # NotStarting
         /\ ConnectFails /\ starting = NotStarting => BusHolds'
         /\ SubscribeNext => BusHolds' /\ starting' # NotStarting
         /\ EndSubscribing => BusHolds' /\ starting' # NotStarting
         /\ StartBreaks => BusHolds' /\ starting' = NotStarting
         /\ BusStarts => BusHolds' /\ starting' = NotStarting /\ transportStarted'
<1>0. BusTyped
  BY DEF BusHolds
<1>1. ASSUME Connect PROVE BusHolds' /\ starting' # NotStarting
  <2>1. /\ starting' = [at |-> "subscribing", topics |-> handlers, left |-> handlers]
        /\ starting' # NotStarting /\ starting'.at = "subscribing"
        /\ starting'.topics = handlers /\ starting'.left = handlers
    BY <1>1 DEF Connect, NotStarting
  <2>2. BusTyped'
    BY <1>0, <1>1, <2>1 DEF Connect, NewClient, BusTyped
  <2> QED
    BY <1>1, <2>1, <2>2 DEF Connect, BusHolds, Iterated, TopicsHeard
<1>2. ASSUME ConnectFails, starting = NotStarting PROVE BusHolds'
  <2>1. starting.at = "no"
    BY <1>2 DEF NotStarting
  <2> QED
    BY <1>2, <2>1 DEF ConnectFails, NewClient, BusHolds, BusTyped, Iterated, TopicsHeard
<1>3. ASSUME SubscribeNext PROVE BusHolds' /\ starting' # NotStarting
  <2>1. PICK topic \in starting.left :
          Subscribe(topic) /\ starting' = [starting EXCEPT !.left = @ \ {topic}]
    BY <1>3 DEF SubscribeNext
  <2>2. /\ starting.at = "subscribing"
        /\ UNCHANGED <<client, transportStarted, handlers, abandoned, registering, unheard>>
    BY <1>3 DEF SubscribeNext
  <2>3. topic \in handlers /\ bound \cup missed \cup {topic} \subseteq bound' \cup missed'
    BY <1>0, <2>1, <2>2, BusParts DEF Subscribe
  <2>4. /\ starting' \in [at : {"subscribing"}, topics : SUBSET handlers, left : SUBSET handlers]
        /\ starting'.at = "subscribing" /\ starting'.topics = starting.topics
        /\ starting'.left = starting.left \ {topic}
    BY <1>0, <2>1, <2>2, BusParts
  <2>5. starting # NotStarting /\ starting' # NotStarting
    BY <2>2, <2>4 DEF NotStarting
  <2>6. BusTyped'
    BY <1>0, <2>1, <2>2, <2>3, <2>4, <2>5 DEF BusTyped, Subscribe
  <2>7. Iterated'
    BY <2>2, <2>3, <2>4 DEF BusHolds, Iterated
  <2> QED
    BY <2>2, <2>3, <2>5, <2>6, <2>7 DEF BusHolds, TopicsHeard
<1>4. ASSUME EndSubscribing PROVE BusHolds' /\ starting' # NotStarting
  <2>1. /\ starting' = [at |-> "subscribed"] /\ starting.at = "subscribing"
        /\ handlers = starting.topics /\ starting.left = {}
    BY <1>4 DEF EndSubscribing
  <2>2. starting'.at = "subscribed" /\ starting' # NotStarting /\ starting # NotStarting
    BY <2>1 DEF NotStarting
  <2> QED
    BY <1>4, <2>1, <2>2 DEF EndSubscribing, BusHolds, BusTyped, Iterated, TopicsHeard
<1>5. ASSUME StartBreaks PROVE BusHolds' /\ starting' = NotStarting
  <2>1. starting' = NotStarting /\ starting'.at = "no"
    BY <1>5 DEF StartBreaks, NotStarting
  <2> QED
    BY <1>5, <2>1 DEF StartBreaks, NotStarting, BusHolds, BusTyped, Iterated, TopicsHeard
<1>6. ASSUME BusStarts PROVE BusHolds' /\ starting' = NotStarting /\ transportStarted'
  <2>1. starting' = NotStarting /\ starting'.at = "no" /\ starting # NotStarting
    BY <1>6 DEF BusStarts, NotStarting
  <2> QED
    BY <1>6, <2>1 DEF BusStarts, NotStarting, BusHolds, BusTyped, Iterated, TopicsHeard
<1> QED
  BY <1>1, <1>2, <1>3, <1>4, <1>5, <1>6

\* ... and stop.
LEMMA StopFacts ==
  ASSUME BusHolds
  PROVE  /\ Unsubscribe /\ starting = NotStarting => BusHolds' /\ UNCHANGED starting
         /\ CloseClient /\ starting = NotStarting => BusHolds' /\ UNCHANGED starting
         /\ CloseFails /\ starting = NotStarting => BusHolds' /\ UNCHANGED starting
         /\ UNCHANGED busVars => BusHolds'
<1>1. ASSUME Unsubscribe, starting = NotStarting PROVE BusHolds' /\ UNCHANGED starting
  <2>1. BusTyped'
    BY <1>1 DEF Unsubscribe, BusHolds, BusTyped
  <2>2. Iterated'
    BY <1>1 DEF Unsubscribe, BusHolds, BusTyped, Iterated, NotStarting
  <2>3. TopicsHeard'
    BY <1>1 DEF Unsubscribe, BusHolds, TopicsHeard
  <2> QED
    BY <1>1, <2>1, <2>2, <2>3 DEF Unsubscribe, BusHolds
<1>2. ASSUME CloseClient, starting = NotStarting PROVE BusHolds' /\ UNCHANGED starting
  <2>1. BusTyped'
    BY <1>2 DEF CloseClient, BusHolds, BusTyped
  <2>2. Iterated'
    BY <1>2 DEF CloseClient, BusHolds, BusTyped, Iterated, NotStarting
  <2>3. TopicsHeard'
    BY <1>2 DEF CloseClient, BusHolds, TopicsHeard
  <2> QED
    BY <1>2, <2>1, <2>2, <2>3 DEF CloseClient, BusHolds
<1>3. ASSUME CloseFails, starting = NotStarting PROVE BusHolds' /\ UNCHANGED starting
  <2>1. BusTyped'
    BY <1>3 DEF CloseFails, KeepClient, BusHolds, BusTyped
  <2>2. Iterated'
    BY <1>3 DEF CloseFails, KeepClient, BusHolds, BusTyped, Iterated, NotStarting
  <2>3. TopicsHeard'
    BY <1>3 DEF CloseFails, KeepClient, BusHolds, TopicsHeard
  <2> QED
    BY <1>3, <2>1, <2>2, <2>3 DEF CloseFails, KeepClient, BusHolds
<1>4. UNCHANGED busVars => BusHolds'
  BY DEF busVars, BusHolds, BusTyped, Iterated, TopicsHeard
<1> QED
  BY <1>1, <1>2, <1>3, <1>4

\* The types of all variables but the transport's and the web server's.
ServerTyped ==
  /\ running \in BOOLEAN /\ main \in Places
  /\ connections \subseteq Panels /\ told \subseteq Panels /\ lost \subseteq Panels
  /\ registry \in Registry!Registries
  /\ handler \in [op : {"none"}] \cup [op : {"start"}, panel : Panels, name : Names, config : BOOLEAN]
  /\ alive \subseteq Names
  /\ view \in [connections : SUBSET Panels, processes : Snapshots]
  /\ runs \in 0..MaxRuns /\ inputs \in 0..MaxInputs

LEMMA PlaceFacts ==
  /\ \A p \in {"out", "starting", "subscribing", "loop"} : [at |-> p] \in Places
  /\ \A c \in SUBSET Panels : [at |-> "connections", connections |-> c] \in Places
  /\ \A c \in SUBSET Panels, s \in Snapshots :
       [at |-> "snapshot", connections |-> c, processes |-> s] \in Places
  /\ \A c \in SUBSET Panels, n \in SUBSET Names : [at |-> "listed", panels |-> c, names |-> n] \in Places
  /\ \A c \in SUBSET Panels, p \in {"cleared", "telling", "told", "closing", "ended"} :
       [at |-> p, panels |-> c] \in Places
  /\ \A m \in Places :
       /\ m.at = "connections" => m.connections \in SUBSET Panels
       /\ m.at = "snapshot" => m.connections \in SUBSET Panels /\ m.processes \in Snapshots
       /\ m.at = "listed" => m \in [at : {"listed"}, panels : SUBSET Panels, names : SUBSET Names]
       /\ m.at \in {"cleared", "telling", "told", "closing", "ended"} => m.panels \in SUBSET Panels
BY DEF Places

\* The steps of the main thread.
LEMMA MainTyped ==
  ASSUME ServerTyped, MainSteps \/ RunBegins \/ Signal
  PROVE  ServerTyped'
<1>0. MaxRuns \in Nat /\ MaxInputs \in Nat
  BY ServerAssumptions
<1>1. CASE RunBegins
  <2>1. [at |-> "starting"] \in Places
    BY PlaceFacts
  <2>2. runs' \in 0..MaxRuns
    BY <1>0, <1>1 DEF RunBegins, ServerTyped
  <2> QED
    BY <1>1, <2>1, <2>2 DEF RunBegins, ServerTyped, coreVars
<1>2. CASE \/ Signal \/ StartsStarted \/ Connects \/ RunRaises
           \/ StartSubscribes \/ StartRaises \/ Starts
  <2>1. [at |-> "loop"] \in Places /\ [at |-> "subscribing"] \in Places /\ Idle \in Places
    BY PlaceFacts DEF Idle
  <2> QED
    BY <1>2, <2>1 DEF Signal, StartsStarted, Connects, RunRaises, StartSubscribes, StartRaises, Starts,
                      ServerTyped, coreVars, loopVars
<1>3. CASE SnapshotConnections
  <2>1. main' \in Places
    BY <1>3, PlaceFacts DEF SnapshotConnections, ServerTyped
  <2> QED
    BY <1>3, <2>1 DEF SnapshotConnections, ServerTyped, coreVars
<1>4. CASE SnapshotProcesses
  <2>1. main.connections \in SUBSET Panels /\ Registry!GetSnapshot(registry) \in Snapshots
    BY <1>4, PlaceFacts, SnapshotTyped DEF SnapshotProcesses, ServerTyped
  <2>2. main' \in Places
    BY <1>4, <2>1, PlaceFacts DEF SnapshotProcesses
  <2> QED
    BY <1>4, <2>2 DEF SnapshotProcesses, ServerTyped, coreVars
<1>5. CASE Render
  <2>1. main.connections \in SUBSET Panels /\ main.processes \in Snapshots /\ [at |-> "loop"] \in Places
    BY <1>5, PlaceFacts DEF Render, ServerTyped
  <2>2. view' \in [connections : SUBSET Panels, processes : Snapshots] /\ main' \in Places
    BY <1>5, <2>1 DEF Render
  <2> QED
    BY <1>5, <2>2 DEF Render, ServerTyped, coreVars
<1>6. CASE ShutdownLists
  <2>1. Registry!AllNames(registry) \in SUBSET Names
    BY SnapshotTyped DEF ServerTyped
  <2>2. main' \in Places
    BY <1>6, <2>1, PlaceFacts DEF ShutdownLists, ServerTyped
  <2> QED
    BY <1>6, <2>2 DEF ShutdownLists, ServerTyped, coreVars
<1>7. CASE ShutdownStops
  <2>1. main \in [at : {"listed"}, panels : SUBSET Panels, names : SUBSET Names]
    BY <1>7, PlaceFacts DEF ShutdownStops, ServerTyped
  <2>2. main' \in [at : {"listed"}, panels : SUBSET Panels, names : SUBSET Names] /\ alive' \subseteq alive
    BY <1>7, <2>1 DEF ShutdownStops, StopProcesses
  <2>3. main' \in Places
    BY <2>2 DEF Places
  <2> QED
    BY <1>7, <2>2, <2>3 DEF ShutdownStops, ServerTyped
<1>8. CASE ShutdownClears
  <2>1. main.panels \in SUBSET Panels
    BY <1>8, PlaceFacts DEF ShutdownClears, ServerTyped
  <2>2. main' \in Places
    BY <1>8, <2>1, PlaceFacts DEF ShutdownClears
  <2> QED
    BY <1>8, <2>2, RegistryEmpty DEF ShutdownClears, ServerTyped
<1>9. CASE ShutdownDrops
  <2>1. main.panels \in SUBSET Panels
    BY <1>9, PlaceFacts DEF ShutdownDrops, ServerTyped
  <2>2. main' \in Places
    BY <1>9, <2>1, PlaceFacts DEF ShutdownDrops
  <2> QED
    BY <1>9, <2>2 DEF ShutdownDrops, ServerTyped
<1>10. CASE StopTells
  <2>1. main.panels \in SUBSET Panels
    BY <1>10, PlaceFacts DEF StopTells, ServerTyped
  <2>2. main' \in Places
    BY <1>10, <2>1, PlaceFacts DEF StopTells
  <2>3. told' \subseteq Panels /\ lost' \subseteq Panels
    BY <1>10, <2>1 DEF StopTells, Tell, ServerTyped
  <2> QED
    BY <1>10, <2>2, <2>3 DEF StopTells, ServerTyped, coreVars
<1>11. CASE StopUnsubscribes \/ StopCloses
  <2>1. main.panels \in SUBSET Panels
    BY <1>11, PlaceFacts DEF StopUnsubscribes, StopCloses, ServerTyped
  <2>2. main' \in Places
    BY <1>11, <2>1, PlaceFacts DEF StopUnsubscribes, StopCloses
  <2> QED
    BY <1>11, <2>2 DEF StopUnsubscribes, StopCloses, ServerTyped, coreVars
<1>12. CASE RunReturns
  <2>1. Idle \in Places
    BY PlaceFacts DEF Idle
  <2> QED
    BY <1>12, <2>1 DEF RunReturns, ServerTyped, coreVars
<1> QED
  BY <1>1, <1>2, <1>3, <1>4, <1>5, <1>6, <1>7, <1>8, <1>9, <1>10, <1>11, <1>12 DEF MainSteps

\* The handlers of messages, and the death of a process.
LEMMA HandlerTyped ==
  ASSUME ServerTyped,
         \/ \E p \in Panels : OnRegister(p) \/ OnUnregister(p) \/ \E n \in Names : OnStart(p, n)
         \/ StartEnds
         \/ RegistersOn \/ \E topic \in ExtraTopics : RegisterLate(topic)
         \/ \E n \in alive : Dies(n)
  PROVE  ServerTyped'
<1>0. Input => inputs' \in 0..MaxInputs
  BY ServerAssumptions DEF Input, ServerTyped
<1>1. ASSUME NEW p \in Panels, OnRegister(p) PROVE ServerTyped'
  BY <1>0, <1>1 DEF OnRegister, ServerTyped, loopVars
<1>2. ASSUME NEW p \in Panels, OnUnregister(p) PROVE ServerTyped'
  <2>1. Registry!RemoveRequester(registry, p) \in Registry!Registries
    <3>1. p \in Users
      BY DEF Users
    <3> QED
      BY <3>1 DEF ServerTyped, Registry!RemoveRequester, Registry!Registries, Registry!ProcessInfo
  <2>2. registry' \in Registry!Registries
    BY <1>2, <2>1, RegistryEmpty DEF OnUnregister, Registry!Registries
  <2>3. alive' \subseteq alive
    BY <1>2 DEF OnUnregister, StopProcesses
  <2> QED
    BY <1>0, <1>2, <2>2, <2>3 DEF OnUnregister, ServerTyped, loopVars
<1>3. ASSUME NEW p \in Panels, NEW n \in Names, OnStart(p, n) PROVE ServerTyped'
  <2>1. p \in Users /\ "STARTING" \in Registry!ProcessState
    BY DEF Users, Registry!ProcessState
  <2>2. registry' \in Registry!Registries
    BY <1>3, <2>1, RegistryTyped DEF OnStart, ServerTyped
  <2>3. handler' \in [op : {"start"}, panel : Panels, name : Names, config : BOOLEAN]
    BY <1>3 DEF OnStart
  <2> QED
    BY <1>0, <1>3, <2>2, <2>3 DEF OnStart, ServerTyped, loopVars
<1>4. CASE StartEnds
  <2>1. handler.panel \in Users /\ handler.name \in Names
    BY <1>4 DEF StartEnds, ServerTyped, Users
  <2>2. "FAILED" \in Registry!ProcessState /\ "RUNNING" \in Registry!ProcessState
    BY DEF Registry!ProcessState
  <2>3. registry' \in Registry!Registries
    BY <1>4, <2>1, <2>2, RegistryTyped DEF StartEnds, ServerTyped
  <2>4. alive' \subseteq Names
    BY <1>4, <2>1 DEF StartEnds, ServerTyped
  <2>5. handler' \in [op : {"none"}]
    BY <1>4 DEF StartEnds, NoHandler
  <2> QED
    BY <1>4, <2>3, <2>4, <2>5 DEF StartEnds, ServerTyped, loopVars
<1>5. ASSUME NEW topic \in ExtraTopics, RegisterLate(topic) PROVE ServerTyped'
  BY <1>0, <1>5 DEF RegisterLate, ServerTyped, loopVars, coreVars
<1>6. ASSUME NEW n \in alive, Dies(n) PROVE ServerTyped'
  BY <1>0, <1>6 DEF Dies, ServerTyped, loopVars
<1>7. CASE RegistersOn
  BY <1>7 DEF RegistersOn, ServerTyped, loopVars, coreVars
<1> QED
  BY <1>1, <1>2, <1>3, <1>4, <1>5, <1>6, <1>7

\* What the web server's requests do to the server's state.
LEMMA WebTyped ==
  ASSUME ServerTyped, WebSteps, web \in Requests
  PROVE  ServerTyped'
<1>0. Input => inputs' \in 0..MaxInputs
  BY ServerAssumptions DEF Input, ServerTyped
<1>1. /\ Admin \in Users /\ "RUNNING" \in Registry!ProcessState /\ "STOPPED" \in Registry!ProcessState
  BY DEF Users, Registry!ProcessState
<1>2. web.op \in {"starting", "started", "stopped"} => web.name \in Names
  BY DEF Requests
<1>3. web.op \in {"start", "stop"} => web.names \subseteq Names
  BY DEF Requests
<1>4. ASSUME NEW names, StartRequest(names) \/ StopRequest(names) PROVE ServerTyped'
  BY <1>0, <1>4 DEF StartRequest, StopRequest, ServerTyped, unchangedServer, coreVars, loopVars
<1>5. CASE StartLooksUp \/ Answer \/ ResetTells
  BY <1>5 DEF StartLooksUp, Answer, ResetTells, ServerTyped, unchangedServer, coreVars, loopVars
<1>6. CASE StartExecutes
  <2>1. alive' \subseteq Names
    BY <1>2, <1>6 DEF StartExecutes, ServerTyped
  <2> QED
    BY <1>6, <2>1 DEF StartExecutes, ServerTyped, unchangedServer, loopVars
<1>7. CASE StartRegisters
  <2>1. registry' \in Registry!Registries
    BY <1>1, <1>2, <1>7, RegistryTyped DEF StartRegisters, ServerTyped
  <2> QED
    BY <1>7, <2>1 DEF StartRegisters, ServerTyped, unchangedServer, loopVars
<1>8. CASE StopExecutes
  <2>1. alive' \subseteq alive
    BY <1>8 DEF StopExecutes
  <2> QED
    BY <1>8, <2>1 DEF StopExecutes, ServerTyped, unchangedServer, loopVars
<1>9. CASE StopUnregisters
  <2>1. registry' \in Registry!Registries
    BY <1>1, <1>2, <1>9, RegistryTyped DEF StopUnregisters, ServerTyped
  <2> QED
    BY <1>9, <2>1 DEF StopUnregisters, ServerTyped, unchangedServer, loopVars
<1>10. ASSUME NEW n, AddConfig(n) \/ UpdateConfig(n) \/ RemoveConfig(n) PROVE ServerTyped'
  BY <1>0, <1>10 DEF AddConfig, UpdateConfig, RemoveConfig, ServerTyped, unchangedServer, coreVars, loopVars
<1>11. CASE ResetRequest
  BY <1>0, <1>11 DEF ResetRequest, ServerTyped, unchangedServer, coreVars, loopVars
<1>12. CASE ResetStops
  <2>1. alive' \subseteq Names
    BY <1>12 DEF ResetStops, ServerTyped
  <2> QED
    BY <1>12, <2>1, RegistryEmpty DEF ResetStops, ServerTyped, unchangedServer, loopVars
<1>13. CASE ResetDrops
  BY <1>13 DEF ResetDrops, ServerTyped, unchangedServer, loopVars
<1> QED
  BY <1>4, <1>5, <1>6, <1>7, <1>8, <1>9, <1>10, <1>11, <1>12, <1>13 DEF WebSteps, StartOne, StopOne

\* A step of the server, of main thread, message or world.
ServerSteps ==
  \/ RunBegins \/ Signal \/ MainSteps
  \/ \E p \in Panels : OnRegister(p) \/ OnUnregister(p) \/ \E n \in Names : OnStart(p, n)
  \/ StartEnds
  \/ RegistersOn \/ \E topic \in ExtraTopics : RegisterLate(topic)
  \/ \E n \in alive : Dies(n)

LEMMA NextIs ==
  ASSUME Next
  PROVE  Server(ServerSteps) \/ WebSteps
BY DEF Next, Server, ServerSteps, MainSteps

LEMMA AllTyped == DashboardTyped <=> /\ BusTyped /\ ServerTyped
                                     /\ configs \subseteq Names /\ web \in Requests /\ admin \subseteq alive
BY DEF DashboardTyped, ServerTyped

\* The transport, and where run is with it.
LEMMA RunStep ==
  ASSUME BusHolds, ServerTyped, RunAgrees, ServerSteps
  PROVE  BusHolds' /\ RunAgrees' /\ UNCHANGED configs
<1>0. BusTyped
  BY DEF BusHolds
<1>1. CASE RunBegins \/ Signal \/ StartsStarted \/ SnapshotConnections \/ SnapshotProcesses \/ Render
           \/ ShutdownLists
  <2>1. UNCHANGED <<busVars, told, lost, configs>> /\ BusHolds'
    BY <1>1, StopFacts DEF RunBegins, Signal, StartsStarted, SnapshotConnections, SnapshotProcesses,
                           Render, ShutdownLists
  <2>2. \/ UNCHANGED main
        \/ main'.at = "starting" /\ main.at = "out"
        \/ /\ main'.at \in {"loop", "connections", "snapshot", "listed"} /\ transportStarted
           /\ main.at \in {"starting", "loop", "connections", "snapshot"}
    <3>1. CASE RunBegins \/ Signal
      BY <3>1 DEF RunBegins, Signal, Idle
    <3>2. CASE StartsStarted \/ SnapshotConnections \/ SnapshotProcesses
      BY <3>2 DEF StartsStarted, SnapshotConnections, SnapshotProcesses, RunAgrees
    <3>3. CASE Render \/ ShutdownLists
      BY <3>3 DEF Render, ShutdownLists, RunAgrees
    <3> QED
      BY <1>1, <3>1, <3>2, <3>3
  <2> QED
    BY <2>1, <2>2 DEF RunAgrees, busVars
<1>2. CASE ShutdownStops
  <2>1. main \in [at : {"listed"}, panels : SUBSET Panels, names : SUBSET Names]
    BY <1>2, PlaceFacts DEF ShutdownStops, ServerTyped
  <2>2. main'.at = "listed"
    BY <1>2, <2>1 DEF ShutdownStops
  <2> QED
    BY <1>2, <2>1, <2>2, StopFacts DEF ShutdownStops, RunAgrees, busVars
<1>3. CASE ShutdownClears \/ ShutdownDrops
  BY <1>3, StopFacts DEF ShutdownClears, ShutdownDrops, RunAgrees, busVars
<1>4. CASE Connects
  <2>1. BusHolds' /\ main'.at = "subscribing" /\ starting' # NotStarting /\ UNCHANGED configs
    BY <1>4, StartFacts DEF Connects
  <2> QED
    BY <2>1 DEF RunAgrees
<1>5. CASE RunRaises
  <2>1. starting = NotStarting
    BY <1>5 DEF RunRaises, RunAgrees
  <2>2. BusHolds' /\ main'.at = "out" /\ UNCHANGED <<starting, configs>>
    BY <1>5, <2>1, StartFacts DEF RunRaises, ConnectFails, Idle
  <2> QED
    BY <2>1, <2>2 DEF RunAgrees
<1>6. CASE StartSubscribes
  <2>1. BusHolds' /\ starting' # NotStarting /\ UNCHANGED <<main, told, lost, configs>>
        /\ main.at = "subscribing"
    BY <1>6, StartFacts DEF StartSubscribes, loopVars
  <2> QED
    BY <2>1 DEF RunAgrees
<1>7. CASE StartRaises
  <2>1. BusHolds' /\ starting' = NotStarting /\ main'.at = "out" /\ UNCHANGED configs
    BY <1>7, StartFacts DEF StartRaises, Idle
  <2> QED
    BY <2>1 DEF RunAgrees
<1>8. CASE Starts
  <2>1. BusHolds' /\ starting' = NotStarting /\ transportStarted' /\ main'.at = "loop" /\ UNCHANGED configs
    BY <1>8, StartFacts DEF Starts
  <2> QED
    BY <2>1 DEF RunAgrees
<1>9. CASE StopTells
  <2>1. CanSend
    BY <1>0, <1>9 DEF StopTells, RunAgrees, BusTyped, CanSend
  <2>2. main.panels \subseteq told' \cup lost'
    BY <1>9, <2>1 DEF StopTells, Tell
  <2> QED
    BY <1>9, <2>2, StopFacts DEF StopTells, RunAgrees, busVars
<1>10. CASE StopUnsubscribes
  <2>1. /\ BusHolds' /\ UNCHANGED <<starting, transportStarted, told, lost, configs>>
        /\ main.at = "told" /\ main' = [at |-> "closing", panels |-> main.panels]
    BY <1>10, StopFacts DEF RunAgrees, StopUnsubscribes, Unsubscribe
  <2> QED
    BY <2>1 DEF RunAgrees
<1>11. CASE StopCloses
  <2>1. starting = NotStarting
    BY <1>11 DEF StopCloses, RunAgrees
  <2>2. /\ BusHolds' /\ UNCHANGED <<starting, told, lost, configs>>
        /\ main.at = "closing" /\ main' = [at |-> "ended", panels |-> main.panels]
    BY <1>11, <2>1, StopFacts DEF StopCloses
  <2> QED
    BY <2>1, <2>2 DEF RunAgrees
<1>12. CASE RunReturns
  BY <1>12, StopFacts DEF RunReturns, RunAgrees, busVars, Idle
<1>13. ASSUME NEW topic \in ExtraTopics, RegisterLate(topic)
       PROVE  BusHolds' /\ RunAgrees' /\ UNCHANGED configs
  <2>1. /\ topic \in Topics /\ RegisterHandler(topic) /\ UNCHANGED <<main, told, lost, configs>>
    BY <1>13, ServerAssumptions DEF RegisterLate, loopVars
  <2>2. BusHolds' /\ UNCHANGED <<starting, transportStarted>>
    BY <2>1, RegistrationFacts DEF RegisterHandler
  <2> QED
    BY <2>1, <2>2 DEF RunAgrees
<1>14. CASE RegistersOn
  <2>1. UNCHANGED <<main, told, lost, configs>> /\ (TestStarted \/ SubscribeLate)
    BY <1>14 DEF RegistersOn, loopVars
  <2>2. BusHolds' /\ UNCHANGED <<starting, transportStarted>>
    BY <2>1, RegistrationFacts DEF TestStarted, SubscribeLate
  <2> QED
    BY <2>1, <2>2 DEF RunAgrees
<1>15. CASE \/ \E p \in Panels : OnRegister(p) \/ OnUnregister(p) \/ \E n \in Names : OnStart(p, n)
            \/ StartEnds \/ \E n \in alive : Dies(n)
  <2>1. UNCHANGED <<busVars, main, told, lost, configs>>
    BY <1>15 DEF OnRegister, OnUnregister, OnStart, StartEnds, Dies, loopVars
  <2> QED
    BY <2>1, StopFacts DEF RunAgrees, busVars
<1> QED
  BY <1>1, <1>2, <1>3, <1>4, <1>5, <1>6, <1>7, <1>8, <1>9, <1>10, <1>11, <1>12, <1>13, <1>14, <1>15
     DEF ServerSteps, MainSteps

-----------------------------------------------------------------------------
(* The web server's requests.                                               *)

LEMMA WebFacts ==
  ASSUME web \in Requests
  PROVE  /\ web.op \in {"starting", "started", "stopped"} => web.name \in Names /\ web.names \subseteq Names
         /\ web.op \in {"start", "stop"} => web.names \subseteq Names
         /\ web.op = "start" => web \in [op : {"start"}, names : SUBSET Names]
         /\ web.op = "stop" => web \in [op : {"stop"}, names : SUBSET Names]
         /\ web.op = "starting" => web \in [op : {"starting"}, name : Names, names : SUBSET Names]
         /\ web.op \in {"reset", "cleared"} => web \in [op : {"reset", "cleared"}]
         /\ NoRequest \in Requests /\ NoRequest.op = "none"
BY DEF Requests, NoRequest

LEMMA WebStep ==
  ASSUME ServerTyped, configs \subseteq Names, web \in Requests, admin \subseteq alive,
         AdminProcessIsConfigured, StartIsConfigured, WebSteps
  PROVE  /\ configs' \subseteq Names /\ web' \in Requests /\ admin' \subseteq alive'
         /\ AdminProcessIsConfigured' /\ StartIsConfigured'
<1> DEFINE G == /\ configs' \subseteq Names /\ web' \in Requests /\ admin' \subseteq alive'
                /\ AdminProcessIsConfigured' /\ StartIsConfigured'
<1> SUFFICES G
  OBVIOUS
<1>1. ASSUME NEW names \in SUBSET Names, StartRequest(names) \/ StopRequest(names) PROVE G
  <2>1. web' \in [op : {"start", "stop"}, names : SUBSET Names]
    BY <1>1 DEF StartRequest, StopRequest
  <2>2. web' \in Requests /\ web'.op # "starting"
    BY <2>1 DEF Requests
  <2> QED
    BY <1>1, <2>2 DEF StartRequest, StopRequest, coreVars, AdminProcessIsConfigured, StartIsConfigured
<1>2. CASE StartLooksUp
  <2>1. PICK n \in web.names :
          web' = IF n \in configs THEN [op |-> "starting", name |-> n, names |-> web.names \ {n}]
                 ELSE [web EXCEPT !.names = web.names \ {n}]
    BY <1>2 DEF StartLooksUp
  <2>2. web \in [op : {"start"}, names : SUBSET Names]
    BY <1>2, WebFacts DEF StartLooksUp
  <2>3. web' \in Requests /\ (web'.op = "starting" => web'.name \in configs)
    <3>1. CASE n \in configs
      <4>1. web' \in [op : {"starting"}, name : Names, names : SUBSET Names] /\ web'.name = n
        BY <2>1, <2>2, <3>1
      <4> QED
        BY <3>1, <4>1 DEF Requests
    <3>2. CASE n \notin configs
      <4>1. web' \in [op : {"start"}, names : SUBSET Names]
        BY <2>1, <2>2, <3>2
      <4> QED
        BY <4>1 DEF Requests
    <3> QED
      BY <3>1, <3>2
  <2> QED
    BY <1>2, <2>3 DEF StartLooksUp, coreVars, AdminProcessIsConfigured, StartIsConfigured
<1>3. CASE StartExecutes
  <2>1. web \in [op : {"starting"}, name : Names, names : SUBSET Names] /\ web.name \in configs
    BY <1>3, WebFacts DEF StartExecutes, StartIsConfigured
  <2>2. web' \in [op : {"started"}, name : Names, names : SUBSET Names] \/ web' \in [op : {"start"}, names : SUBSET Names]
    BY <1>3, <2>1 DEF StartExecutes
  <2>3. web' \in Requests /\ web'.op # "starting"
    BY <2>2 DEF Requests
  <2> QED
    BY <1>3, <2>1, <2>3 DEF StartExecutes, AdminProcessIsConfigured, StartIsConfigured
<1>4. CASE StartRegisters \/ StopUnregisters
  <2>1. web' \in [op : {"start", "stop"}, names : SUBSET Names]
    BY <1>4, WebFacts DEF StartRegisters, StopUnregisters
  <2>2. web' \in Requests /\ web'.op # "starting"
    BY <2>1 DEF Requests
  <2> QED
    BY <1>4, <2>2 DEF StartRegisters, StopUnregisters, AdminProcessIsConfigured, StartIsConfigured
<1>5. CASE StopExecutes
  <2>1. web \in [op : {"stop"}, names : SUBSET Names]
    BY <1>5, WebFacts DEF StopExecutes
  <2>2. web' \in [op : {"stopped"}, name : Names, names : SUBSET Names] \/ web' \in [op : {"stop"}, names : SUBSET Names]
    BY <1>5, <2>1 DEF StopExecutes
  <2>3. web' \in Requests /\ web'.op # "starting"
    BY <2>2 DEF Requests
  <2> QED
    BY <1>5, <2>3 DEF StopExecutes, AdminProcessIsConfigured, StartIsConfigured
<1>6. CASE Answer \/ ResetTells
  BY <1>6, WebFacts DEF Answer, ResetTells, coreVars, AdminProcessIsConfigured, StartIsConfigured
<1>7. ASSUME NEW n \in Names, AddConfig(n) \/ UpdateConfig(n) \/ RemoveConfig(n) PROVE G
  <2>1. web.op # "starting" /\ n \in Names
    BY <1>7, WebFacts DEF AddConfig, UpdateConfig, RemoveConfig, LoopFree
  <2> QED
    BY <1>7, <2>1 DEF AddConfig, UpdateConfig, RemoveConfig, coreVars,
                      AdminProcessIsConfigured, StartIsConfigured
<1>8. CASE ResetRequest \/ ResetStops \/ ResetDrops
  <2>1. web' \in [op : {"reset", "cleared", "telling"}]
    BY <1>8, WebFacts DEF ResetRequest, ResetStops, ResetDrops
  <2>2. web' \in Requests /\ web'.op # "starting"
    BY <2>1 DEF Requests
  <2> QED
    BY <1>8, <2>2 DEF ResetRequest, ResetStops, ResetDrops, coreVars,
                      AdminProcessIsConfigured, StartIsConfigured
<1> HIDE DEF G
<1> QED
  BY <1>1, <1>2, <1>3, <1>4, <1>5, <1>6, <1>7, <1>8 DEF WebSteps, StartOne, StopOne

-----------------------------------------------------------------------------
LEMMA DashboardStep ==
  ASSUME DashboardInv, [Next]_vars
  PROVE  DashboardInv'
<1>0. /\ BusTyped /\ ServerTyped /\ configs \subseteq Names /\ web \in Requests /\ admin \subseteq alive
      /\ RunAgrees /\ AdminProcessIsConfigured /\ StartIsConfigured /\ BusHolds
  BY AllTyped DEF DashboardInv, BusHolds
<1>1. CASE Server(ServerSteps)
  <2>1. ServerSteps /\ admin' = admin \cap alive' /\ UNCHANGED web
    BY <1>1 DEF Server
  <2>2. ServerTyped'
    BY <1>0, <2>1, MainTyped, HandlerTyped DEF ServerSteps
  <2>3. BusHolds' /\ RunAgrees' /\ UNCHANGED configs
    BY <1>0, <2>1, RunStep
  <2>4. AdminProcessIsConfigured' /\ StartIsConfigured'
    BY <1>0, <2>1, <2>3 DEF AdminProcessIsConfigured, StartIsConfigured
  <2> QED
    BY <1>0, <2>1, <2>2, <2>3, <2>4 DEF DashboardInv, DashboardTyped, ServerTyped, BusHolds
<1>2. CASE WebSteps
  <2>1. UNCHANGED <<busVars, main, told, lost>>
    BY <1>2 DEF WebSteps, StartOne, StopOne, StartRequest, StopRequest, StartLooksUp, StartExecutes,
       StartRegisters, StopExecutes, StopUnregisters, Answer, AddConfig, UpdateConfig, RemoveConfig,
       ResetRequest, ResetStops, ResetDrops, ResetTells, unchangedServer, loopVars
  <2>2. BusHolds' /\ RunAgrees'
    BY <1>0, <2>1, StopFacts DEF RunAgrees, busVars
  <2>3. ServerTyped'
    BY <1>0, <1>2, WebTyped
  <2>4. /\ configs' \subseteq Names /\ web' \in Requests /\ admin' \subseteq alive'
        /\ AdminProcessIsConfigured' /\ StartIsConfigured'
    BY <1>0, <1>2, WebStep
  <2> QED
    BY <2>2, <2>3, <2>4 DEF DashboardInv, DashboardTyped, ServerTyped, BusHolds
<1>3. CASE UNCHANGED vars
  BY <1>3 DEF DashboardInv, DashboardTyped, BusTyped, Iterated, RunAgrees, AdminProcessIsConfigured,
     StartIsConfigured, TopicsHeard, vars, busVars, serverVars, coreVars, loopVars
<1> QED
  BY <1>1, <1>2, <1>3, NextIs

LEMMA DashboardAlways == DashboardSpec => []DashboardInv
<1>1. ASSUME DashboardInit PROVE DashboardInv
  <2>1. MaxRuns \in Nat /\ MaxInputs \in Nat /\ ServerTopics \subseteq Topics
    BY ServerAssumptions
  <2>2. BusTyped /\ ~transportStarted /\ main = Idle /\ main.at = "out"
        /\ starting = NotStarting /\ starting.at = "no"
    BY <1>1, <2>1 DEF DashboardInit, ServerInit, BusInit, BusTyped, Idle, NotStarting, NoRegistration
  <2>3. Registry!GetSnapshot(Registry!EmptyRegistry) \in Snapshots /\ Idle \in Places
    BY RegistryEmpty, SnapshotTyped, PlaceFacts DEF Idle
  <2>4. view \in [connections : SUBSET Panels, processes : Snapshots]
    BY <1>1, <2>3 DEF DashboardInit, ServerInit, NothingShown
  <2>5. ServerTyped
    <3>1. handler \in [op : {"none"}]
      BY <1>1 DEF DashboardInit, ServerInit, NoHandler
    <3>2. registry \in Registry!Registries /\ main \in Places
      BY <1>1, <2>3, RegistryEmpty DEF DashboardInit, ServerInit
    <3>3. runs \in 0..MaxRuns /\ inputs \in 0..MaxInputs
      BY <1>1, <2>1 DEF DashboardInit, ServerInit
    <3> QED
      BY <1>1, <2>4, <3>1, <3>2, <3>3 DEF DashboardInit, ServerInit, ServerTyped
  <2>6. web \in Requests /\ web.op = "none"
    BY <1>1 DEF DashboardInit, Requests, NoRequest
  <2> QED
    BY <1>1, <2>2, <2>5, <2>6, AllTyped
       DEF DashboardInit, ServerInit, DashboardInv, Iterated, RunAgrees, AdminProcessIsConfigured,
           StartIsConfigured, TopicsHeard
<1>2. DashboardInv /\ [Next]_vars => DashboardInv'
  BY DashboardStep
<1> QED
  BY <1>1, <1>2, PTL DEF DashboardSpec

\* For any panels, names, topics and bounds the server, its transport and the dashboard
\* keep their types.
THEOREM DashboardIsTyped == DashboardSpec => []DashboardTyped
<1>1. DashboardInv => DashboardTyped
  BY DEF DashboardInv
<1> QED
  BY <1>1, DashboardAlways, PTL

\* For any number of names and requests: a process that the dashboard has started and
\* that runs has a configuration, by which it can be started again.
THEOREM AdminProcessIsConfiguredHolds == DashboardSpec => []AdminProcessIsConfigured
<1>1. DashboardInv => AdminProcessIsConfigured
  BY DEF DashboardInv
<1> QED
  BY <1>1, DashboardAlways, PTL

\* For any topics and any number of runs: a started transport hears every topic that has a
\* handler, whenever that was registered, but for failed subscriptions, topics given up by
\* a failed stop, and those registered in the last moment of start.
THEOREM TopicsHeardHolds == DashboardSpec => []TopicsHeard
<1>1. DashboardInv => TopicsHeard
  BY DEF DashboardInv
<1> QED
  BY <1>1, DashboardAlways, PTL

\* For any panels and any number of runs: the panels that shutdown has listed are told
\* before the transport is stopped, unless the broker fails.
THEOREM ListedAreToldHolds == DashboardSpec => []ListedAreTold
<1>1. DashboardInv => ListedAreTold
  BY DEF DashboardInv, RunAgrees, ListedAreTold
<1> QED
  BY <1>1, DashboardAlways, PTL
=============================================================================
