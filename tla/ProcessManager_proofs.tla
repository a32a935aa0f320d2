------------------------ MODULE ProcessManager_proofs ------------------------
(***************************************************************************)
(* For any names, requesters, executor and bounds: the manager's state is of *)
(* its types, its executor runs no second instance, what is DEAD does not    *)
(* run, and no two processes log to one port.                               *)
(*                                                                          *)
(* Each invariant is made inductive by a part of its own: what a start under *)
(* way has written into the registry, and what a health check under way has *)
(* found, both of which only the manager's lock keeps true; and that ports   *)
(* are given in ascending order.                                            *)
(***************************************************************************)
EXTENDS ProcessManager, TLAPS

\* What health_check has found stays true until it has marked it, and a process that is
\* being started is not DEAD.
DeadInv ==
  /\ DeadIsNotRunning
  /\ suspects # {} => holder.op = "check"
  /\ \A n \in suspects \ adopted : ~IsRunning(n)
  /\ holder.op \in {"start", "started"} => registry[holder.name].state # "DEAD"

\* A port in use is below the next one, and of the server that is started.
PortsInv ==
  /\ server.next # 0
  /\ \A i \in Instances : ports[i] # 0 => server.started /\ ports[i] < server.next
  /\ \A i, j \in Instances : (i # j /\ ports[i] # 0) => ports[i] # ports[j]

-----------------------------------------------------------------------------
(* The registry's operators.                                                *)

LEMMA RegisterFacts ==
  ASSUME NEW reg \in Registry!Registries, NEW n \in Names, NEW r \in Requesters
  PROVE  /\ Registry!Register(reg, n, r) \in Registry!Registries
         /\ \A m \in Names : Registry!Register(reg, n, r)[m].state = "DEAD" => reg[m].state = "DEAD"
BY DEF Registry!Register, Registry!Registries, Registry!ProcessInfo, Registry!ProcessState,
       Registry!Absent, Registry!Exists

LEMMA UnregisterFacts ==
  ASSUME NEW reg \in Registry!Registries, NEW n \in Names, NEW r
  PROVE  /\ Registry!Unregister(reg, n, r) \in Registry!Registries
         /\ \A m \in Names : Registry!Unregister(reg, n, r)[m].state = reg[m].state
BY DEF Registry!Unregister, Registry!Registries, Registry!ProcessInfo

LEMMA RemoveRequesterFacts ==
  ASSUME NEW reg \in Registry!Registries, NEW r
  PROVE  /\ Registry!RemoveRequester(reg, r) \in Registry!Registries
         /\ \A m \in Names : Registry!RemoveRequester(reg, r)[m].state = reg[m].state
BY DEF Registry!RemoveRequester, Registry!Registries, Registry!ProcessInfo

LEMMA WithStateFacts ==
  ASSUME NEW reg \in Registry!Registries, NEW n \in Names, NEW s \in Registry!ProcessState
  PROVE  /\ Registry!WithState(reg, n, s) \in Registry!Registries
         /\ \A m \in Names : /\ Registry!Exists(Registry!WithState(reg, n, s), m)
                                  <=> Registry!Exists(reg, m)
                             /\ Registry!WithState(reg, n, s)[m].state \in {reg[m].state, s}
         /\ Registry!Exists(reg, n) => Registry!WithState(reg, n, s)[n].state = s
BY DEF Registry!WithState, Registry!Registries, Registry!ProcessInfo, Registry!ProcessState,
       Registry!Absent, Registry!Exists

LEMMA RemoveFacts ==
  ASSUME NEW reg \in Registry!Registries, NEW n \in Names
  PROVE  /\ Registry!Remove(reg, n) \in Registry!Registries
         /\ \A m \in Names : Registry!Remove(reg, n)[m].state = "DEAD" => reg[m].state = "DEAD"
BY DEF Registry!Remove, Registry!NoEntry, Registry!Registries, Registry!ProcessInfo,
       Registry!ProcessState, Registry!Absent

LEMMA MarkDeadFacts ==
  ASSUME NEW reg \in Registry!Registries, NEW S
  PROVE  /\ Registry!MarkDead(reg, S) \in Registry!Registries
         /\ \A m \in Names : /\ Registry!Exists(Registry!MarkDead(reg, S), m)
                                  <=> Registry!Exists(reg, m)
                             /\ Registry!MarkDead(reg, S)[m].state = "DEAD"
                                  => m \in S \/ reg[m].state = "DEAD"
BY DEF Registry!MarkDead, Registry!Registries, Registry!ProcessInfo, Registry!ProcessState,
       Registry!Absent, Registry!Exists

LEMMA EmptyFacts ==
  /\ Registry!EmptyRegistry \in Registry!Registries
  /\ \A m \in Names : Registry!EmptyRegistry[m].state # "DEAD"
BY DEF Registry!EmptyRegistry, Registry!NoEntry, Registry!Registries, Registry!ProcessInfo,
       Registry!ProcessState, Registry!Absent

LEMMA NamesFacts ==
  ASSUME NEW reg \in Registry!Registries
  PROVE  Registry!AllNames(reg) \subseteq Names /\ Registry!ActiveProcesses(reg) \subseteq Names
BY DEF Registry!AllNames, Registry!ActiveProcesses

-----------------------------------------------------------------------------
(* The executor.                                                            *)

\* What a start can come to: a new instance or none, and a reference to one there is.
LEMMA StartShape ==
  ASSUME ExecutorTyped, NEW n \in Names, NEW c \in BOOLEAN, NEW o \in StartOutcomes(n, c)
  PROVE  /\ o.success \in BOOLEAN
         /\ o.up \in {0, launched[n] + 1}
         /\ o.refers \in 0..(launched[n] + 1)
<1>k. launched[n] \in Nat /\ reference[n] \in 0..launched[n] /\ kind \in Kinds
  BY DEF ExecutorTyped
<1> DEFINE Shape(x) == /\ x.success \in BOOLEAN
                       /\ x.up \in {0, launched[n] + 1}
                       /\ x.refers \in 0..(launched[n] + 1)
<1>u. Shape(Unchanged(n, TRUE)) /\ Shape(Unchanged(n, FALSE))
  BY <1>k DEF Unchanged
<1>q. /\ Shape([success |-> TRUE, up |-> launched[n] + 1, refers |-> launched[n] + 1])
      /\ Shape([success |-> FALSE, up |-> 0, refers |-> launched[n] + 1])
      /\ Shape([success |-> FALSE, up |-> launched[n] + 1, refers |-> reference[n]])
      /\ \A j \in 0..(launched[n] + 1) :
           Shape([success |-> TRUE, up |-> launched[n] + 1, refers |-> j])
  BY <1>k
<1> HIDE DEF Shape
<1>p. \A x \in PopenOutcomes(n) : Shape(x)
  BY <1>u, <1>q DEF PopenOutcomes
<1>1. ASSUME kind = "simple" PROVE Shape(o)
  BY <1>1, <1>u, <1>p DEF StartOutcomes, SimpleStartOutcomes
<1>2. ASSUME kind = "unix" PROVE Shape(o)
  BY <1>2, <1>u, <1>p DEF StartOutcomes, UnixStartOutcomes
<1>3. ASSUME kind = "windows" PROVE Shape(o)
  <2>1. \A i \in Live(n) : i[2] \in 0..(launched[n] + 1)
    BY <1>k DEF Live, Instances, ExecutorTyped
  <2>2. o \in WindowsStartOutcomes(n, c)
    BY <1>3 DEF StartOutcomes
  <2>3. \A j \in {i[2] : i \in Live(n)} \cup {launched[n] + 1} : j \in 0..(launched[n] + 1)
    BY <1>k, <2>1
  <2> QED
    BY <1>q, <1>u, <2>2, <2>3 DEF WindowsStartOutcomes
<1>4. ASSUME kind = "mock" PROVE Shape(o)
  BY <1>4, <1>u, <1>q DEF StartOutcomes, MockStartOutcomes
<1> QED
  BY <1>k, <1>1, <1>2, <1>3, <1>4 DEF Kinds, Shape

LEMMA LaunchTyped ==
  ASSUME ExecutorTyped, NEW n \in Names, launched[n] < MaxInstances,
         NEW c \in BOOLEAN, NEW o \in StartOutcomes(n, c), Launch(n, o)
  PROVE  ExecutorTyped'
<1>1. o.up \in {0, launched[n] + 1} /\ o.refers \in 0..(launched[n] + 1)
  BY StartShape
<1>2. launched[n] \in 0..MaxInstances /\ MaxInstances \in Nat
  BY InstanceBound DEF ExecutorTyped
<1>3. alive' \subseteq Instances /\ \A i \in alive' : i[2] <= launched'[i[1]]
  BY <1>1, <1>2 DEF Launch, ExecutorTyped, Instances
<1>4. launched' \in [Names -> 0..MaxInstances] /\ reference' \in [Names -> 0..MaxInstances]
  BY <1>1, <1>2 DEF Launch, ExecutorTyped
<1>5. \A m \in Names : reference'[m] <= launched'[m]
  BY <1>1, <1>2 DEF Launch, ExecutorTyped
<1> QED
  BY <1>3, <1>4, <1>5 DEF Launch, ExecutorTyped

LEMMA StopShape ==
  ASSUME ExecutorTyped, NEW n \in Names, NEW force \in BOOLEAN, NEW o \in StopOutcomes(n, force)
  PROVE  /\ o.success \in BOOLEAN /\ o.survives \in BOOLEAN /\ o.drops \in BOOLEAN
         /\ kind \in {"simple", "mock"} => o.drops = ~o.survives
<1> DEFINE Shape(x) == x.success \in BOOLEAN /\ x.survives \in BOOLEAN /\ x.drops \in BOOLEAN
           Definite(x) == x.drops = ~x.survives
<1>s. Shape(Stopped) /\ Definite(Stopped)
  BY DEF Stopped
<1>1. \A x \in SimpleStopOutcomes(force) : Shape(x) /\ Definite(x)
  <2>1. LET x == [success |-> TRUE, survives |-> TRUE, drops |-> FALSE]
        IN  Shape(x) /\ Definite(x)
    OBVIOUS
  <2> HIDE DEF Shape, Definite
  <2> QED
    BY <1>s, <2>1 DEF SimpleStopOutcomes
<1>2. \A x \in UnixStopOutcomes(force) : Shape(x)
  <2>1. \A d \in {force, TRUE} : Shape([success |-> FALSE, survives |-> TRUE, drops |-> d])
    OBVIOUS
  <2> HIDE DEF Shape, Definite
  <2> QED
    BY <1>s, <2>1 DEF UnixStopOutcomes
<1>3. \A x \in WindowsStopOutcomes(force) : Shape(x)
  <2>1. Shape([success |-> TRUE, survives |-> TRUE, drops |-> TRUE])
    OBVIOUS
  <2> HIDE DEF Shape, Definite
  <2> QED
    BY <1>s, <2>1 DEF WindowsStopOutcomes
<1> HIDE DEF Shape, Definite
<1>4. Shape(o) /\ (kind \in {"simple", "mock"} => Definite(o))
  <2>1. kind \in Kinds
    BY DEF ExecutorTyped
  <2>2. CASE ~IsRunning(n)
    BY <1>s, <2>2 DEF StopOutcomes
  <2>3. CASE IsRunning(n) /\ kind = "simple"
    BY <1>1, <2>3 DEF StopOutcomes
  <2>4. CASE IsRunning(n) /\ kind = "unix"
    BY <1>2, <2>4 DEF StopOutcomes
  <2>5. CASE IsRunning(n) /\ kind = "windows"
    BY <1>3, <2>5 DEF StopOutcomes
  <2>6. CASE IsRunning(n) /\ kind = "mock"
    BY <1>s, <2>6 DEF StopOutcomes
  <2> QED
    BY <2>1, <2>2, <2>3, <2>4, <2>5, <2>6 DEF Kinds
<1> QED
  BY <1>4 DEF Shape, Definite

\* A stop lets nothing come up.
LEMMA TerminateFacts ==
  ASSUME ExecutorTyped, NEW n \in Names, NEW o, Terminate(n, o)
  PROVE  ExecutorTyped' /\ \A m \in Names : IsRunning(m)' => IsRunning(m)
<1>1. ExecutorTyped'
  BY InstanceBound DEF Terminate, ExecutorTyped
<1>2. ASSUME NEW m \in Names, IsRunning(m)' PROVE IsRunning(m)
  BY <1>2 DEF Terminate, ExecutorTyped, IsRunning
<1> QED
  BY <1>1, <1>2

LEMMA DiesFacts ==
  ASSUME ExecutorTyped, NEW i, ProcessDies(i)
  PROVE  ExecutorTyped' /\ \A m \in Names : IsRunning(m)' => IsRunning(m)
BY DEF ProcessDies, ExecutorTyped, IsRunning

LEMMA UpdateFacts ==
  ASSUME ExecutorTyped, NEW n \in Names, launched[n] < MaxInstances,
         UpdateReference(n, launched[n] + 1)
  PROVE  ExecutorTyped' /\ \A m \in Names \ {n} : IsRunning(m)' => IsRunning(m)
<1>1. launched[n] \in 0..MaxInstances /\ MaxInstances \in Nat
  BY InstanceBound DEF ExecutorTyped
<1>2. ExecutorTyped'
  BY <1>1 DEF UpdateReference, ExecutorTyped, Instances
<1>3. ASSUME NEW m \in Names \ {n}, IsRunning(m)' PROVE IsRunning(m)
  BY <1>3 DEF UpdateReference, ExecutorTyped, IsRunning
<1> QED
  BY <1>2, <1>3

\* A start leaves the other names alone.
LEMMA LaunchFacts ==
  ASSUME ExecutorTyped, NEW n \in Names, NEW o, Launch(n, o)
  PROVE  \A m \in Names \ {n} : IsRunning(m)' => IsRunning(m)
BY DEF Launch, ExecutorTyped, IsRunning

-----------------------------------------------------------------------------
(* Types.                                                                   *)

LEMMA HolderTypes ==
  ASSUME ManagerTyped
  PROVE  /\ holder.op \in {"start", "started", "stop", "stopped"} => holder.name \in Names
         /\ holder.op = "stop" => holder.force \in BOOLEAN
         /\ holder.op \in {"started", "stopped"} => holder.success \in BOOLEAN
         /\ holder.op = "clear" => holder.left \in SUBSET Names
BY DEF ManagerTyped, Holders

\* An operation that leaves the executor alone and gives or keeps the lock.
LEMMA RegistryStep ==
  ASSUME ManagerTyped, UNCHANGED <<executorVars, updating, loggingVars, adopted>>,
         registry' \in Registry!Registries, configs' \subseteq Names, suspects' \subseteq Names,
         holder' \in Holders, inputs' \in 0..MaxInputs,
         holder'.op \in {"start", "started", "stop", "stopped"}
           => Registry!Exists(registry', holder'.name)
  PROVE  ManagerTyped'
BY DEF ManagerTyped, ExecutorTyped, executorVars, loggingVars

LEMMA InputTyped ==
  ASSUME ManagerTyped
  PROVE  (Input => inputs' \in 0..MaxInputs) /\ inputs \in 0..MaxInputs
BY ManagerBound DEF Input, ManagerTyped

LEMMA RegistrationsTyped ==
  ASSUME ManagerTyped, NEW n \in Names, NEW r \in Requesters,
         RegisterProcess(n, r) \/ UnregisterProcess(n, r)
  PROVE  ManagerTyped'
<1>0. registry \in Registry!Registries /\ configs \subseteq Names /\ suspects \subseteq Names
      /\ holder \in Holders
      /\ (holder.op \in {"start", "started", "stop", "stopped"}
            => Registry!Exists(registry, holder.name) /\ holder.name \in Names)
  BY HolderTypes DEF ManagerTyped
<1>1. CASE RegisterProcess(n, r)
  <2>1. registry' \in Registry!Registries /\ configs' \subseteq Names
    BY <1>0, <1>1, RegisterFacts DEF RegisterProcess
  <2> QED
    BY <1>0, <1>1, <2>1, InputTyped, RegistryStep DEF RegisterProcess, Free
<1>2. CASE UnregisterProcess(n, r)
  <2>1. registry' \in Registry!Registries
    BY <1>0, <1>2, UnregisterFacts DEF UnregisterProcess
  <2> QED
    BY <1>0, <1>2, <2>1, InputTyped, RegistryStep DEF UnregisterProcess, Free
<1> QED
  BY <1>1, <1>2

LEMMA RemoveTyped ==
  ASSUME ManagerTyped, NEW r \in Requesters, RemoveRequesterFromAll(r)
  PROVE  ManagerTyped'
<1>0. registry \in Registry!Registries /\ configs \subseteq Names /\ suspects \subseteq Names
      /\ holder \in Holders
      /\ (holder.op \in {"start", "started", "stop", "stopped"}
            => Registry!Exists(registry, holder.name) /\ holder.name \in Names)
  BY HolderTypes DEF ManagerTyped
<1>1. registry' \in Registry!Registries /\ \A m \in Names : registry'[m].state = registry[m].state
  BY <1>0, RemoveRequesterFacts DEF RemoveRequesterFromAll
<1> QED
  BY <1>0, <1>1, InputTyped, RegistryStep DEF RemoveRequesterFromAll, Registry!Exists

LEMMA LoggingTyped ==
  ASSUME ManagerTyped, StartLogging \/ StopLogging
  PROVE  ManagerTyped'
<1>1. server' \in [started : BOOLEAN, next : Nat]
  <2>1. [started |-> TRUE, next |-> 1] \in [started : BOOLEAN, next : Nat]
        /\ [started |-> FALSE, next |-> 1] \in [started : BOOLEAN, next : Nat]
    OBVIOUS
  <2> QED
    BY <2>1 DEF StartLogging, StopLogging, CreateServer
<1>2. ports' \in [Instances -> Nat]
  <2>1. ports \in [Instances -> Nat] /\ [i \in Instances |-> 0] \in [Instances -> Nat]
    BY DEF ManagerTyped
  <2> QED
    BY <2>1 DEF StartLogging, StopLogging
<1> QED
  BY <1>1, <1>2, InputTyped
     DEF ManagerTyped, ExecutorTyped, executorVars, managerVars, StartLogging, StopLogging

LEMMA StartTyped ==
  ASSUME ManagerTyped, (\E n \in Names : StartProcess(n)) \/ ExecutorStart \/ StartEnds
  PROVE  ManagerTyped'
<1>0. registry \in Registry!Registries /\ configs \subseteq Names /\ suspects \subseteq Names
      /\ ExecutorTyped
  BY DEF ManagerTyped
<1>s. {"STARTING", "RUNNING", "FAILED"} \subseteq Registry!ProcessState
  BY DEF Registry!ProcessState
<1>1. ASSUME NEW n \in Names, StartProcess(n) PROVE ManagerTyped'
  <2>1. registry' \in Registry!Registries /\ Registry!Exists(registry', n)
    BY <1>0, <1>1, <1>s, WithStateFacts DEF StartProcess
  <2>2. holder' = [op |-> "start", name |-> n] /\ holder' \in Holders
    BY <1>1 DEF StartProcess, Holders
  <2> QED
    BY <1>0, <1>1, <2>1, <2>2, InputTyped, RegistryStep DEF StartProcess
<1>2. CASE ExecutorStart
  <2>1. holder.op = "start" /\ holder.name \in Names /\ Registry!Exists(registry, holder.name)
    BY <1>2, HolderTypes DEF ExecutorStart, ManagerTyped
  <2> DEFINE configured == holder.name \in configs
  <2>2. PICK central \in BOOLEAN, o \in StartOutcomes(holder.name, configured) :
          /\ server' = IF Allocated(central) # 0 THEN [server EXCEPT !.next = @ + 1] ELSE server
          /\ Launch(holder.name, o)
          /\ ports' = IF o.up # 0 THEN [ports EXCEPT ![<<holder.name, o.up>>] = Allocated(central)]
                      ELSE ports
          /\ holder' = [op |-> "started", name |-> holder.name, success |-> o.success]
    BY <1>2 DEF ExecutorStart
  <2>b. configured \in BOOLEAN
    OBVIOUS
  <2>l. launched[holder.name] < MaxInstances
    BY <1>2 DEF ExecutorStart
  <2> HIDE DEF configured
  <2>3. /\ o.success \in BOOLEAN
        /\ o.up \in {0, launched[holder.name] + 1}
    BY <1>0, <2>1, <2>b, StartShape
  <2>4. ExecutorTyped'
    BY <1>0, <2>l, <2>1, <2>2, <2>b, LaunchTyped
  <2>5. holder' \in Holders
    BY <2>1, <2>2, <2>3 DEF Holders
  <2>6. server' \in [started : BOOLEAN, next : Nat]
    BY <2>2 DEF ManagerTyped
  <2>8. Allocated(central) \in Nat /\ ports \in [Instances -> Nat]
    BY DEF ManagerTyped, Allocated
  <2>9. ports' \in [Instances -> Nat]
    BY <2>2, <2>8
  <2>7. Registry!Exists(registry', holder'.name)
    BY <1>2, <2>1, <2>2 DEF ExecutorStart
  <2> QED
    BY <1>2, <2>4, <2>5, <2>6, <2>7, <2>9 DEF ManagerTyped, ExecutorStart
<1>3. CASE StartEnds
  <2>1. holder.name \in Names
    BY <1>3, HolderTypes DEF StartEnds
  <2>2. registry' \in Registry!Registries
    BY <1>0, <1>3, <1>s, <2>1, WithStateFacts DEF StartEnds
  <2>3. holder' = Free /\ Free \in Holders /\ Free.op = "none"
    BY <1>3 DEF StartEnds, Free, Holders
  <2> QED
    BY <1>0, <1>3, <2>2, <2>3, InputTyped, RegistryStep DEF StartEnds
<1> QED
  BY <1>1, <1>2, <1>3

LEMMA StopTyped ==
  ASSUME ManagerTyped,
         \/ \E n \in Names, force \in BOOLEAN : StopProcess(n, force)
         \/ ExecutorStop \/ StopEnds
  PROVE  ManagerTyped'
<1>0. registry \in Registry!Registries /\ configs \subseteq Names /\ suspects \subseteq Names
      /\ ExecutorTyped
  BY DEF ManagerTyped
<1>1. ASSUME NEW n \in Names, NEW force \in BOOLEAN, StopProcess(n, force) PROVE ManagerTyped'
  <2>1. registry' \in Registry!Registries /\ Registry!Exists(registry', n)
    BY <1>0, <1>1, WithStateFacts DEF StopProcess, Registry!ProcessState
  <2>2. holder' = [op |-> "stop", name |-> n, force |-> force] /\ holder' \in Holders
    BY <1>1 DEF StopProcess, Holders
  <2> QED
    BY <1>0, <1>1, <2>1, <2>2, InputTyped, RegistryStep DEF StopProcess
<1>2. CASE ExecutorStop
  <2>1. /\ holder.name \in Names /\ holder.force \in BOOLEAN
        /\ Registry!Exists(registry, holder.name)
    BY <1>2, HolderTypes DEF ExecutorStop, ManagerTyped
  <2>2. PICK o \in StopOutcomes(holder.name, holder.force) :
          /\ Terminate(holder.name, o)
          /\ holder' = [op |-> "stopped", name |-> holder.name, success |-> o.success]
    BY <1>2 DEF ExecutorStop
  <2>3. o.success \in BOOLEAN /\ ExecutorTyped'
    BY <1>0, <2>1, <2>2, StopShape, TerminateFacts
  <2>4. holder' \in Holders /\ Registry!Exists(registry', holder'.name)
    BY <1>2, <2>1, <2>2, <2>3 DEF Holders, ExecutorStop
  <2> QED
    BY <1>2, <2>3, <2>4 DEF ManagerTyped, ExecutorStop, loggingVars
<1>3. CASE StopEnds
  <2>1. holder.name \in Names
    BY <1>3, HolderTypes DEF StopEnds
  <2>2. registry' \in Registry!Registries /\ configs' \subseteq Names
    BY <1>0, <1>3, <2>1, RemoveFacts DEF StopEnds
  <2>3. holder' = Free /\ Free \in Holders /\ Free.op = "none"
    BY <1>3 DEF StopEnds, Free, Holders
  <2> QED
    BY <1>0, <1>3, <2>2, <2>3, InputTyped, RegistryStep DEF StopEnds
<1> QED
  BY <1>1, <1>2, <1>3

LEMMA ForceStopTyped ==
  ASSUME ManagerTyped, ForceStopAll \/ ForceStopOne \/ ForceStopEnds
  PROVE  ManagerTyped'
<1>0. registry \in Registry!Registries /\ configs \subseteq Names /\ suspects \subseteq Names
      /\ ExecutorTyped
  BY DEF ManagerTyped
<1>1. CASE ForceStopAll
  <2>1. holder' \in Holders /\ holder'.op = "clear"
    BY <1>0, <1>1, NamesFacts DEF ForceStopAll, Holders
  <2> QED
    BY <1>0, <1>1, <2>1, InputTyped, RegistryStep DEF ForceStopAll
<1>2. CASE ForceStopOne
  <2>0. PICK n \in holder.left : \E o \in StopOutcomes(n, TRUE) :
          Terminate(n, o) /\ holder' = [holder EXCEPT !.left = @ \ {n}]
    BY <1>2 DEF ForceStopOne
  <2>1. PICK o \in StopOutcomes(n, TRUE) :
          Terminate(n, o) /\ holder' = [holder EXCEPT !.left = @ \ {n}]
    BY <2>0
  <2>2. holder \in [op : {"clear"}, left : SUBSET Names] /\ n \in Names
    BY <1>2 DEF ForceStopOne, ManagerTyped, Holders
  <2>3. holder' \in Holders /\ holder'.op = "clear"
    BY <2>1, <2>2 DEF Holders
  <2>4. ExecutorTyped'
    BY <1>0, <2>1, <2>2, TerminateFacts
  <2> QED
    BY <1>2, <2>3, <2>4 DEF ManagerTyped, ForceStopOne, loggingVars
<1>3. CASE ForceStopEnds
  <2>1. holder' = Free /\ Free \in Holders /\ Free.op = "none"
    BY <1>3 DEF ForceStopEnds, Free, Holders
  <2> QED
    BY <1>0, <1>3, <2>1, EmptyFacts, InputTyped, RegistryStep DEF ForceStopEnds
<1> QED
  BY <1>1, <1>2, <1>3

LEMMA ChecksTyped ==
  ASSUME ManagerTyped,
         CheckHealth \/ MarkDead \/ (\E n \in Names : UpdateProcess(n)) \/ UpdateEnds
         \/ \E i \in alive : Dies(i)
  PROVE  ManagerTyped'
<1>0. /\ registry \in Registry!Registries /\ configs \subseteq Names /\ suspects \subseteq Names
      /\ holder \in Holders /\ ExecutorTyped
      /\ (holder.op \in {"start", "started", "stop", "stopped"}
            => Registry!Exists(registry, holder.name) /\ holder.name \in Names)
  BY HolderTypes DEF ManagerTyped
<1>1. CASE CheckHealth
  <2>1. holder' \in Holders /\ holder'.op = "check" /\ suspects' \subseteq Names
    BY <1>0, <1>1, NamesFacts DEF CheckHealth, Holders
  <2> QED
    BY <1>0, <1>1, <2>1, InputTyped, RegistryStep DEF CheckHealth
<1>2. CASE MarkDead
  <2>1. /\ registry' \in Registry!Registries
        /\ \A m \in Names : Registry!Exists(registry', m) <=> Registry!Exists(registry, m)
    BY <1>0, <1>2, MarkDeadFacts DEF MarkDead
  <2>2. Free \in Holders /\ Free.op = "none"
    BY DEF Free, Holders
  <2> QED
    BY <1>0, <1>2, <2>1, <2>2, InputTyped, RegistryStep DEF MarkDead
<1>3. ASSUME NEW n \in Names, UpdateProcess(n) PROVE ManagerTyped'
  <2>1. ExecutorTyped'
    BY <1>0, <1>3, UpdateFacts DEF UpdateProcess
  <2>2. updating' \in {<<m>> : m \in Names} /\ adopted' \subseteq Names
    BY <1>3 DEF UpdateProcess, ManagerTyped
  <2> QED
    BY <1>3, <2>1, <2>2, InputTyped DEF UpdateProcess, ManagerTyped, loggingVars
<1>4. CASE UpdateEnds
  <2>1. updating[1] \in Names /\ "RUNNING" \in Registry!ProcessState
    BY <1>4 DEF UpdateEnds, ManagerTyped, Registry!ProcessState
  <2>2. /\ registry' \in Registry!Registries
        /\ \A m \in Names : Registry!Exists(registry', m) <=> Registry!Exists(registry, m)
    BY <1>0, <1>4, <2>1, WithStateFacts DEF UpdateEnds
  <2> QED
    BY <1>0, <1>4, <2>2 DEF UpdateEnds, ManagerTyped, ExecutorTyped, executorVars, loggingVars
<1>5. ASSUME NEW i \in alive, Dies(i) PROVE ManagerTyped'
  <2>1. ExecutorTyped'
    BY <1>0, <1>5, DiesFacts DEF Dies
  <2> QED
    BY <1>5, <2>1 DEF Dies, ManagerTyped, managerVars, loggingVars
<1> QED
  BY <1>1, <1>2, <1>3, <1>4, <1>5

\* For any names and bounds the state keeps its types, and what a start or a stop is at
\* work on stays registered: no operation outside the lock removes an entry.
THEOREM ManagerIsTyped == ManagerSpec => []ManagerTyped
<1>1. ManagerInit => ManagerTyped
  <2> SUFFICES ASSUME ManagerInit PROVE ManagerTyped
    OBVIOUS
  <2>1. ExecutorTyped
    BY InstanceBound DEF ManagerInit, ExecutorInit, ExecutorTyped
  <2>2. holder \in Holders /\ holder.op = "none" /\ inputs \in 0..MaxInputs
    BY ManagerBound DEF ManagerInit, Free, Holders
  <2>3. [i \in Instances |-> 0] \in [Instances -> Nat]
    OBVIOUS
  <2> QED
    BY <2>1, <2>2, <2>3, EmptyFacts DEF ManagerInit, ManagerTyped
<1>2. ManagerTyped /\ [Next]_vars => ManagerTyped'
  <2>1. ASSUME ManagerTyped, UNCHANGED vars PROVE ManagerTyped'
    BY <2>1 DEF vars, executorVars, managerVars, loggingVars, ManagerTyped, ExecutorTyped
  <2>2. ASSUME ManagerTyped, Next PROVE ManagerTyped'
    <3>1. ASSUME NEW n \in Names, NEW r \in Requesters,
                 RegisterProcess(n, r) \/ UnregisterProcess(n, r)
          PROVE  ManagerTyped'
      BY <2>2, <3>1, RegistrationsTyped
    <3>2. ASSUME StartLogging \/ StopLogging PROVE ManagerTyped'
      BY <2>2, <3>2, LoggingTyped
    <3>3. ASSUME (\E n \in Names : StartProcess(n)) \/ ExecutorStart \/ StartEnds
          PROVE  ManagerTyped'
      BY <2>2, <3>3, StartTyped
    <3>4. ASSUME \/ \E n \in Names, force \in BOOLEAN : StopProcess(n, force)
                 \/ ExecutorStop \/ StopEnds
          PROVE  ManagerTyped'
      BY <2>2, <3>4, StopTyped
    <3>5. ASSUME ForceStopAll \/ ForceStopOne \/ ForceStopEnds PROVE ManagerTyped'
      BY <2>2, <3>5, ForceStopTyped
    <3>6. ASSUME CheckHealth \/ MarkDead \/ (\E n \in Names : UpdateProcess(n)) \/ UpdateEnds
                 \/ \E i \in alive : Dies(i)
          PROVE  ManagerTyped'
      BY <2>2, <3>6, ChecksTyped
    <3>7. ASSUME NEW r \in Requesters, RemoveRequesterFromAll(r) PROVE ManagerTyped'
      BY <2>2, <3>7, RemoveTyped
    <3> QED
      BY <2>2, <3>1, <3>2, <3>3, <3>4, <3>5, <3>6, <3>7 DEF Next
  <2> QED
    BY <2>1, <2>2
<1> QED
  BY <1>1, <1>2, PTL DEF ManagerSpec

-----------------------------------------------------------------------------
(* No second instance.                                                      *)

\* Steps that leave the executor alone, or only end processes.
LEMMA SecondKept ==
  ASSUME NoSecondInstance, alive' \subseteq alive, adopted \subseteq adopted',
         UNCHANGED <<kind, reference>>
  PROVE  NoSecondInstance'
BY DEF NoSecondInstance

LEMMA SecondStart ==
  ASSUME ManagerTyped, NoSecondInstance, ExecutorStart
  PROVE  NoSecondInstance'
<1> SUFFICES ASSUME kind \in {"simple", "mock"}, NEW i \in alive', i[1] \notin adopted'
             PROVE  reference'[i[1]] = i[2]
  <2>1. kind' = kind
    BY DEF ExecutorStart, Launch
  <2> QED
    BY <2>1 DEF NoSecondInstance
<1> DEFINE n == holder.name
           configured == n \in configs
<1>n. n \in Names /\ ExecutorTyped /\ adopted' = adopted
  BY HolderTypes DEF ExecutorStart, ManagerTyped
<1>1. PICK o \in StartOutcomes(n, configured) : Launch(n, o)
  BY DEF ExecutorStart
<1>b. configured \in BOOLEAN
  OBVIOUS
<1> HIDE DEF n, configured
<1>2. CASE IsRunning(n)
  <2>1. o = Unchanged(n, TRUE)
    BY <1>2, <1>1 DEF StartOutcomes, SimpleStartOutcomes, MockStartOutcomes
  <2>2. alive' = alive /\ reference' = reference
    BY <1>n, <1>1, <2>1 DEF Launch, Unchanged, ExecutorTyped
  <2> QED
    BY <1>n, <2>2 DEF NoSecondInstance
<1>3. CASE ~IsRunning(n)
  <2>1. o.up # 0 => o.refers = o.up
    <3>1. launched[n] + 1 # 0
      BY <1>n DEF ExecutorTyped
    <3>2. \A x \in PopenOutcomes(n) \cup {Unchanged(n, FALSE)} : x.up # 0 => x.refers = x.up
      BY DEF PopenOutcomes, Unchanged
    <3>3. \A x \in MockStartOutcomes(n, configured) : x.up # 0 => x.refers = x.up
      BY <1>3 DEF MockStartOutcomes, Unchanged
    <3>4. CASE kind = "simple"
      <4>1. o \in PopenOutcomes(n) \cup {Unchanged(n, FALSE)}
        BY <1>1, <1>3, <3>4 DEF StartOutcomes, SimpleStartOutcomes
      <4> QED
        BY <3>2, <4>1
    <3>5. CASE kind = "mock"
      <4>1. o \in MockStartOutcomes(n, configured)
        BY <1>1, <3>5 DEF StartOutcomes
      <4> QED
        BY <3>3, <4>1
    <3> QED
      BY <3>4, <3>5
  <2>2. ASSUME i \in alive PROVE i[1] # n
    <3>1. i = <<i[1], i[2]>> /\ reference[i[1]] = i[2] /\ i[2] # 0
      BY <1>n, <2>2 DEF NoSecondInstance, ExecutorTyped, Instances
    <3> QED
      BY <1>3, <2>2, <3>1 DEF IsRunning
  <2>3. CASE i \in alive
    BY <1>n, <1>1, <2>2, <2>3 DEF Launch, NoSecondInstance, ExecutorTyped, Instances
  <2>4. CASE i \notin alive
    <3>1. o.up # 0 /\ i = <<n, o.up>>
      BY <1>1, <2>4 DEF Launch
    <3> QED
      BY <1>n, <1>1, <2>1, <3>1 DEF Launch, ExecutorTyped
  <2> QED
    BY <2>3, <2>4
<1> QED
  BY <1>2, <1>3

LEMMA SecondStop ==
  ASSUME ManagerTyped, NoSecondInstance, NEW n \in Names, NEW force \in BOOLEAN,
         NEW o \in StopOutcomes(n, force), Terminate(n, o), adopted' = adopted
  PROVE  NoSecondInstance'
<1>0. ExecutorTyped /\ kind' = kind
  BY DEF ManagerTyped, Terminate
<1> SUFFICES ASSUME kind \in {"simple", "mock"}, NEW i \in alive', i[1] \notin adopted
             PROVE  reference'[i[1]] = i[2]
  BY <1>0 DEF NoSecondInstance
<1>1. o.drops = ~o.survives /\ o.survives \in BOOLEAN
  BY <1>0, StopShape
<1>2. i \in alive /\ reference[i[1]] = i[2] /\ i = <<i[1], i[2]>> /\ i[1] \in Names
  BY <1>0 DEF Terminate, NoSecondInstance, ExecutorTyped, Instances
<1>3. CASE o.survives
  BY <1>0, <1>1, <1>2, <1>3 DEF Terminate, ExecutorTyped
<1>4. CASE ~o.survives
  <2>1. i[1] # n
    BY <1>2, <1>4 DEF Terminate
  <2> QED
    BY <1>0, <1>2, <2>1 DEF Terminate, ExecutorTyped
<1> QED
  BY <1>1, <1>3, <1>4

\* For any names and bounds the executor of one host never runs a second process of a
\* name: every step that starts or stops one keeps reference and process together.
THEOREM NoSecondInstanceHolds == ManagerSpec => []NoSecondInstance
<1>1. ManagerInit => NoSecondInstance
  BY DEF ManagerInit, ExecutorInit, NoSecondInstance
<1>2. ManagerTyped /\ NoSecondInstance /\ [Next]_vars => NoSecondInstance'
  <2> SUFFICES ASSUME ManagerTyped, NoSecondInstance, [Next]_vars PROVE NoSecondInstance'
    OBVIOUS
  <2>1. CASE UNCHANGED vars
    BY <2>1, SecondKept DEF vars, executorVars
  <2>2. CASE ExecutorStart
    BY <2>2, SecondStart
  <2>3. CASE ExecutorStop
    <3>1. holder.name \in Names /\ holder.force \in BOOLEAN
      BY <2>3, HolderTypes DEF ExecutorStop
    <3> QED
      BY <2>3, <3>1, SecondStop DEF ExecutorStop
  <2>4. CASE ForceStopOne
    <3>1. holder.left \subseteq Names
      BY <2>4, HolderTypes DEF ForceStopOne
    <3>2. PICK n \in holder.left : \E o \in StopOutcomes(n, TRUE) : Terminate(n, o)
      BY <2>4 DEF ForceStopOne
    <3> QED
      BY <2>4, <3>1, <3>2, SecondStop DEF ForceStopOne
  <2>5. ASSUME NEW n \in Names, UpdateProcess(n) PROVE NoSecondInstance'
    BY <2>5 DEF UpdateProcess, UpdateReference, NoSecondInstance, ManagerTyped, ExecutorTyped,
       Instances
  <2>6. ASSUME NEW i \in alive, Dies(i) PROVE NoSecondInstance'
    BY <2>6, SecondKept DEF Dies, ProcessDies
  <2>7. ASSUME NEW n \in Names, NEW r \in Requesters,
               RegisterProcess(n, r) \/ UnregisterProcess(n, r)
        PROVE  NoSecondInstance'
    BY <2>7, SecondKept DEF RegisterProcess, UnregisterProcess, executorVars
  <2>8. ASSUME NEW n \in Names,
               StartProcess(n) \/ \E force \in BOOLEAN : StopProcess(n, force)
        PROVE  NoSecondInstance'
    BY <2>8, SecondKept DEF StartProcess, StopProcess, executorVars
  <2>9. ASSUME NEW r \in Requesters, RemoveRequesterFromAll(r) PROVE NoSecondInstance'
    BY <2>9, SecondKept DEF RemoveRequesterFromAll, executorVars
  <2>10. CASE \/ StartLogging \/ StopLogging \/ StartEnds \/ StopEnds
              \/ ForceStopAll \/ ForceStopEnds \/ CheckHealth \/ MarkDead \/ UpdateEnds
    BY <2>10, SecondKept
       DEF StartLogging, StopLogging, StartEnds, StopEnds, ForceStopAll, ForceStopEnds,
           CheckHealth, MarkDead, UpdateEnds, executorVars
  <2> QED
    BY <2>1, <2>2, <2>3, <2>4, <2>5, <2>6, <2>7, <2>8, <2>9, <2>10 DEF Next
<1> QED
  BY <1>1, <1>2, ManagerIsTyped, PTL DEF ManagerSpec

-----------------------------------------------------------------------------
(* What is DEAD does not run.                                               *)

\* Steps that make nothing run, find nothing and mark nothing DEAD.
LEMMA DeadKept ==
  ASSUME DeadInv, adopted \subseteq adopted', suspects' \subseteq suspects, suspects \subseteq Names,
         \A m \in Names \ adopted' : IsRunning(m)' => IsRunning(m),
         \A m \in Names : registry'[m].state = "DEAD" => registry[m].state = "DEAD",
         suspects' # {} => holder'.op = "check",
         holder'.op \in {"start", "started"} => registry'[holder'.name].state # "DEAD"
  PROVE  DeadInv'
BY DEF DeadInv, DeadIsNotRunning

\* ... of those that leave executor, holder and suspects alone.
LEMMA DeadRegistered ==
  ASSUME ManagerTyped, DeadInv, UNCHANGED <<executorVars, suspects, holder, adopted>>,
         \A m \in Names : registry'[m].state = "DEAD" => registry[m].state = "DEAD"
  PROVE  DeadInv'
<1>1. holder.op \in {"start", "started"} => holder.name \in Names
  BY HolderTypes
<1>2. suspects \subseteq Names
  BY DEF ManagerTyped
<1>3. \A m \in Names : IsRunning(m)' => IsRunning(m)
  BY DEF IsRunning, executorVars
<1>4. suspects # {} => holder.op = "check"
  BY DEF DeadInv
<1>5. holder.op \in {"start", "started"} => registry'[holder.name].state # "DEAD"
  BY <1>1 DEF DeadInv
<1> QED
  BY <1>2, <1>3, <1>4, <1>5, DeadKept

LEMMA DeadLockStep ==
  ASSUME ManagerTyped, DeadInv, UNCHANGED <<suspects, adopted>>, holder.op # "check",
         \A m \in Names : IsRunning(m)' => IsRunning(m),
         \A m \in Names : registry'[m].state = "DEAD" => registry[m].state = "DEAD",
         holder'.op \in {"start", "started"} => registry'[holder'.name].state # "DEAD"
  PROVE  DeadInv'
<1>1. suspects \subseteq Names /\ suspects = {}
  BY DEF ManagerTyped, DeadInv
<1> QED
  BY <1>1, DeadKept

LEMMA DeadStartStop ==
  ASSUME ManagerTyped, DeadInv, NEW n \in Names,
         StartProcess(n) \/ \E force \in BOOLEAN : StopProcess(n, force)
  PROVE  DeadInv'
<1>0. registry \in Registry!Registries /\ {"STARTING", "STOPPING"} \subseteq Registry!ProcessState
  BY DEF ManagerTyped, Registry!ProcessState
<1>1. \A m \in Names : IsRunning(m)' => IsRunning(m)
  BY DEF StartProcess, StopProcess, IsRunning, executorVars
<1>2. holder.op # "check" /\ UNCHANGED <<suspects, adopted>>
  BY DEF StartProcess, StopProcess, Free
<1>3. /\ \A m \in Names : registry'[m].state \in {registry[m].state, "STARTING", "STOPPING"}
      /\ registry'[n].state \in {"STARTING", "STOPPING"}
  BY <1>0, WithStateFacts DEF StartProcess, StopProcess
<1>4. holder'.op \in {"start", "started"} => holder'.name = n
  BY DEF StartProcess, StopProcess
<1> QED
  BY <1>1, <1>2, <1>3, <1>4, DeadLockStep

LEMMA DeadExecutor ==
  ASSUME ManagerTyped, DeadInv, ExecutorStart \/ ExecutorStop \/ ForceStopOne
  PROVE  DeadInv'
<1>0. ExecutorTyped
  BY DEF ManagerTyped
<1>1. CASE ExecutorStart
  <2>1. holder.name \in Names /\ suspects = {}
    BY <1>1, HolderTypes DEF ExecutorStart, DeadInv
  <2>2. \A m \in Names \ {holder.name} : IsRunning(m)' => IsRunning(m)
    BY <1>0, <1>1, <2>1, LaunchFacts DEF ExecutorStart
  <2>3. registry[holder.name].state # "DEAD"
    BY <1>1 DEF ExecutorStart, DeadInv
  <2>4. UNCHANGED <<registry, suspects, adopted>> /\ holder'.name = holder.name
    BY <1>1 DEF ExecutorStart
  <2> QED
    BY <2>1, <2>2, <2>3, <2>4 DEF DeadInv, DeadIsNotRunning
<1>2. CASE ExecutorStop
  <2>1. holder.name \in Names /\ holder'.op = "stopped"
    BY <1>2, HolderTypes DEF ExecutorStop
  <2>2. \A m \in Names : IsRunning(m)' => IsRunning(m)
    BY <1>0, <1>2, <2>1, TerminateFacts DEF ExecutorStop
  <2> QED
    BY <1>2, <2>1, <2>2, DeadLockStep DEF ExecutorStop
<1>3. CASE ForceStopOne
  <2>1. holder.left \subseteq Names
    BY <1>3, HolderTypes DEF ForceStopOne
  <2>2. PICK n \in holder.left : \E o \in StopOutcomes(n, TRUE) :
          Terminate(n, o) /\ holder' = [holder EXCEPT !.left = @ \ {n}]
    BY <1>3 DEF ForceStopOne
  <2>3. \A m \in Names : IsRunning(m)' => IsRunning(m)
    BY <1>0, <2>1, <2>2, TerminateFacts
  <2>4. holder'.op = "clear"
    BY <1>3, <2>2 DEF ForceStopOne, ManagerTyped, Holders
  <2> QED
    BY <1>3, <2>3, <2>4, DeadLockStep DEF ForceStopOne
<1> QED
  BY <1>1, <1>2, <1>3

LEMMA DeadEnds ==
  ASSUME ManagerTyped, DeadInv, StartEnds \/ StopEnds \/ ForceStopAll \/ ForceStopEnds
  PROVE  DeadInv'
<1>0. registry \in Registry!Registries /\ {"RUNNING", "FAILED"} \subseteq Registry!ProcessState
  BY DEF ManagerTyped, Registry!ProcessState
<1>1. \A m \in Names : IsRunning(m)' => IsRunning(m)
  BY DEF StartEnds, StopEnds, ForceStopAll, ForceStopEnds, IsRunning, executorVars
<1>2. /\ holder.op # "check" /\ UNCHANGED <<suspects, adopted>>
      /\ holder'.op \notin {"start", "started"}
  BY DEF StartEnds, StopEnds, ForceStopAll, ForceStopEnds, Free
<1>3. \A m \in Names : registry'[m].state = "DEAD" => registry[m].state = "DEAD"
  <2>1. ASSUME StartEnds, NEW m \in Names
        PROVE  registry'[m].state \in {registry[m].state, "RUNNING", "FAILED"}
    BY <1>0, <2>1, HolderTypes, WithStateFacts DEF StartEnds
  <2>2. CASE StopEnds
    BY <1>0, <2>2, HolderTypes, RemoveFacts DEF StopEnds
  <2>3. CASE ForceStopAll
    BY <2>3 DEF ForceStopAll
  <2>4. CASE ForceStopEnds
    BY <2>4, EmptyFacts DEF ForceStopEnds
  <2> QED
    BY <2>1, <2>2, <2>3, <2>4
<1> QED
  BY <1>1, <1>2, <1>3, DeadLockStep

LEMMA DeadChecks ==
  ASSUME ManagerTyped, DeadInv, CheckHealth \/ MarkDead \/ UpdateEnds
  PROVE  DeadInv'
<1>0. registry \in Registry!Registries /\ suspects \subseteq Names
  BY DEF ManagerTyped
<1>1. CASE CheckHealth
  <2>1. /\ UNCHANGED <<executorVars, registry, adopted>> /\ holder' = [op |-> "check"]
        /\ \A n \in suspects' : ~IsRunning(n)
    BY <1>1 DEF CheckHealth
  <2> QED
    BY <2>1 DEF DeadInv, DeadIsNotRunning, IsRunning, executorVars
<1>2. CASE MarkDead
  <2>1. \A m \in Names : registry'[m].state = "DEAD" => m \in suspects \/ registry[m].state = "DEAD"
    BY <1>0, <1>2, MarkDeadFacts DEF MarkDead
  <2>2. /\ UNCHANGED <<executorVars, adopted>> /\ suspects' = {}
        /\ holder'.op \notin {"start", "started"}
    BY <1>2 DEF MarkDead, DeadInv, Free
  <2>3. DeadIsNotRunning'
    BY <2>1, <2>2 DEF DeadInv, DeadIsNotRunning, IsRunning, executorVars
  <2> QED
    BY <2>2, <2>3 DEF DeadInv
<1>3. CASE UpdateEnds
  <2>1. updating[1] \in Names /\ "RUNNING" \in Registry!ProcessState
    BY <1>3 DEF UpdateEnds, ManagerTyped, Registry!ProcessState
  <2>2. \A m \in Names : registry'[m].state \in {registry[m].state, "RUNNING"}
    BY <1>0, <1>3, <2>1, WithStateFacts DEF UpdateEnds
  <2> QED
    BY <1>3, <2>2, DeadRegistered DEF UpdateEnds
<1> QED
  BY <1>1, <1>2, <1>3

\* For any names and bounds no process that runs is marked DEAD, unless update_process has
\* brought it back: the lock keeps what a health check has found true until it is marked.
THEOREM DeadIsNotRunningHolds == ManagerSpec => []DeadIsNotRunning
<1>1. ManagerInit => DeadInv
  BY EmptyFacts DEF ManagerInit, DeadInv, DeadIsNotRunning, Free
<1>2. ManagerTyped /\ DeadInv /\ [Next]_vars => DeadInv'
  <2> SUFFICES ASSUME ManagerTyped, DeadInv, [Next]_vars PROVE DeadInv'
    OBVIOUS
  <2>0. registry \in Registry!Registries /\ ExecutorTyped /\ suspects \subseteq Names
    BY DEF ManagerTyped
  <2>1. CASE UNCHANGED vars
    BY <2>1, DeadRegistered DEF vars, managerVars
  <2>2. CASE ExecutorStart \/ ExecutorStop \/ ForceStopOne
    BY <2>2, DeadExecutor
  <2>3. CASE StartEnds \/ StopEnds \/ ForceStopAll \/ ForceStopEnds
    BY <2>3, DeadEnds
  <2>4. CASE CheckHealth \/ MarkDead \/ UpdateEnds
    BY <2>4, DeadChecks
  <2>5. ASSUME NEW n \in Names, StartProcess(n) \/ \E force \in BOOLEAN : StopProcess(n, force)
        PROVE  DeadInv'
    BY <2>5, DeadStartStop
  <2>6. ASSUME NEW n \in Names, NEW r \in Requesters,
               RegisterProcess(n, r) \/ UnregisterProcess(n, r)
        PROVE  DeadInv'
    <3>1. \A m \in Names : registry'[m].state = "DEAD" => registry[m].state = "DEAD"
      BY <2>0, <2>6, RegisterFacts, UnregisterFacts DEF RegisterProcess, UnregisterProcess
    <3> QED
      BY <2>6, <3>1, DeadRegistered DEF RegisterProcess, UnregisterProcess
  <2>7. ASSUME NEW r \in Requesters, RemoveRequesterFromAll(r) PROVE DeadInv'
    <3>1. \A m \in Names : registry'[m].state = registry[m].state
      BY <2>0, <2>7, RemoveRequesterFacts DEF RemoveRequesterFromAll
    <3> QED
      BY <2>7, <3>1, DeadRegistered DEF RemoveRequesterFromAll
  <2>8. CASE StartLogging \/ StopLogging
    BY <2>8, DeadRegistered DEF StartLogging, StopLogging, managerVars
  <2>9. ASSUME NEW n \in Names, UpdateProcess(n) PROVE DeadInv'
    <3>1. \A m \in Names \ {n} : IsRunning(m)' => IsRunning(m)
      BY <2>0, <2>9, UpdateFacts DEF UpdateProcess
    <3>2. adopted' = adopted \cup {n} /\ UNCHANGED <<registry, holder, suspects>>
      BY <2>9 DEF UpdateProcess
    <3> QED
      BY <2>0, <3>1, <3>2 DEF DeadInv, DeadIsNotRunning
  <2>10. ASSUME NEW i \in alive, Dies(i) PROVE DeadInv'
    <3>1. \A m \in Names : IsRunning(m)' => IsRunning(m)
      BY <2>0, <2>10, DiesFacts DEF Dies
    <3>2. UNCHANGED <<registry, holder, suspects, adopted>>
      BY <2>10 DEF Dies, managerVars
    <3> QED
      BY <2>0, <3>1, <3>2 DEF DeadInv, DeadIsNotRunning
  <2> QED
    BY <2>1, <2>2, <2>3, <2>4, <2>5, <2>6, <2>7, <2>8, <2>9, <2>10 DEF Next
<1>3. DeadInv => DeadIsNotRunning
  BY DEF DeadInv
<1> QED
  BY <1>1, <1>2, <1>3, ManagerIsTyped, PTL DEF ManagerSpec

-----------------------------------------------------------------------------
(* Ports.                                                                   *)

LEMMA PortsStart ==
  ASSUME ManagerTyped, PortsInv, ExecutorStart
  PROVE  PortsInv'
<1> DEFINE n == holder.name
           configured == n \in configs
           k == <<n, launched[n] + 1>>
<1>0. /\ n \in Names /\ ExecutorTyped /\ MaxInstances \in Nat /\ launched[n] \in Nat
      /\ launched[n] < MaxInstances
      /\ server \in [started : BOOLEAN, next : Nat] /\ ports \in [Instances -> Nat]
  BY HolderTypes, InstanceBound DEF ExecutorStart, ManagerTyped, ExecutorTyped
<1>k. k \in Instances
  BY <1>0 DEF Instances
<1>1. PICK central \in BOOLEAN, o \in StartOutcomes(n, configured) :
        /\ server' = IF Allocated(central) # 0 THEN [server EXCEPT !.next = @ + 1] ELSE server
        /\ ports' = IF o.up # 0 THEN [ports EXCEPT ![<<n, o.up>>] = Allocated(central)] ELSE ports
  BY DEF ExecutorStart
<1>b. configured \in BOOLEAN
  OBVIOUS
<1> HIDE DEF n, configured
<1>2. o.up \in {0, launched[n] + 1}
  BY <1>0, <1>b, StartShape
<1>3. ports' = ports \/ ports' = [ports EXCEPT ![k] = Allocated(central)]
  BY <1>1, <1>2
<1> HIDE DEF k
<1>4. CASE Allocated(central) = 0
  <2>1. server' = server /\ \A i \in Instances : ports'[i] \in {0, ports[i]} /\ (i # k => ports'[i] = ports[i])
    BY <1>0, <1>1, <1>3, <1>4
  <2> QED
    BY <1>k, <2>1 DEF PortsInv
<1>5. CASE Allocated(central) # 0
  <2>0. server.started /\ Allocated(central) = server.next
    BY <1>5 DEF Allocated
  <2>1. server'.started /\ server'.next = server.next + 1
    BY <1>0, <1>1, <1>5, <2>0
  <2>2. \A i \in Instances : ports'[i] \in {ports[i], server.next}
    BY <1>0, <1>3, <2>0
  <2>3. \A i \in Instances : ports'[i] = server.next => i = k
    BY <1>0, <1>k, <1>3, <2>0 DEF PortsInv
  <2>4. \A i \in Instances : ports'[i] # 0 => ports'[i] < server'.next
    BY <1>0, <2>1, <2>2 DEF PortsInv
  <2>5. \A i, j \in Instances : (i # j /\ ports'[i] # 0) => ports'[i] # ports'[j]
    BY <1>0, <2>2, <2>3 DEF PortsInv
  <2> QED
    BY <1>0, <2>1, <2>4, <2>5 DEF PortsInv
<1> QED
  BY <1>4, <1>5

\* For any names and bounds no two processes log to one port of a logging server: ports are
\* given in ascending order and once, whatever a start comes to.
THEOREM PortsDistinctHolds == ManagerSpec => []PortsDistinct
<1>1. ManagerInit => PortsInv
  BY DEF ManagerInit, PortsInv
<1>2. ManagerTyped /\ PortsInv /\ [Next]_vars => PortsInv'
  <2> SUFFICES ASSUME ManagerTyped, PortsInv, [Next]_vars PROVE PortsInv'
    OBVIOUS
  <2>1. CASE UNCHANGED loggingVars
    BY <2>1 DEF loggingVars, PortsInv
  <2>2. CASE ExecutorStart
    BY <2>2, PortsStart
  <2>3. CASE StartLogging
    BY <2>3 DEF StartLogging, CreateServer, PortsInv
  <2>4. CASE StopLogging
    BY <2>4 DEF StopLogging, PortsInv
  <2>5. ASSUME NEW n \in Names,
               \/ \E r \in Requesters : RegisterProcess(n, r) \/ UnregisterProcess(n, r)
               \/ StartProcess(n) \/ UpdateProcess(n)
               \/ \E force \in BOOLEAN : StopProcess(n, force)
        PROVE  UNCHANGED loggingVars
    BY <2>5 DEF RegisterProcess, UnregisterProcess, StartProcess, UpdateProcess, StopProcess
  <2>6. ASSUME NEW r \in Requesters, RemoveRequesterFromAll(r) PROVE UNCHANGED loggingVars
    BY <2>6 DEF RemoveRequesterFromAll
  <2>7. ASSUME \/ StartEnds \/ ExecutorStop \/ StopEnds \/ ForceStopAll \/ ForceStopOne
               \/ ForceStopEnds \/ CheckHealth \/ MarkDead \/ UpdateEnds
        PROVE  UNCHANGED loggingVars
    BY <2>7 DEF StartEnds, ExecutorStop, StopEnds, ForceStopAll, ForceStopOne, ForceStopEnds,
       CheckHealth, MarkDead, UpdateEnds
  <2>8. ASSUME NEW i \in alive, Dies(i) PROVE UNCHANGED loggingVars
    BY <2>8 DEF Dies
  <2>9. UNCHANGED vars => UNCHANGED loggingVars
    BY DEF vars
  <2> QED
    BY <2>1, <2>2, <2>3, <2>4, <2>5, <2>6, <2>7, <2>8, <2>9 DEF Next
<1>3. ManagerTyped /\ PortsInv => PortsDistinct
  BY DEF ManagerTyped, ExecutorTyped, PortsInv, PortsDistinct
<1> QED
  BY <1>1, <1>2, <1>3, ManagerIsTyped, PTL DEF ManagerSpec

=============================================================================
