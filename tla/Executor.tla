------------------------------- MODULE Executor -------------------------------
(***************************************************************************)
(* process/executor.py and process/platform: what an executor knows of the  *)
(* processes it starts, against the processes there are.                    *)
(*                                                                          *)
(* An executor keeps one reference (_processes and _pids, which go together) *)
(* per name.  A process is an instance <<name, k>>, the k-th of its name.    *)
(* Starting and stopping are blocking calls of several seconds; their        *)
(* outcomes are sets here, from which the caller's step takes one: whether   *)
(* the script is there, the process comes up, dies at a signal or survives   *)
(* it is up to the system.                                                   *)
(***************************************************************************)
EXTENDS Naturals

CONSTANTS Names, MaxInstances

ASSUME InstanceBound == MaxInstances \in Nat

Kinds == {"simple", "unix", "windows", "mock"}
Instances == Names \X (1..MaxInstances)

VARIABLES
  kind,             \* which executor it is
  alive,            \* the instances that run
  launched,         \* per name: how many instances there have been
  reference         \* per name: the instance the executor refers to, 0 for none

executorVars == <<kind, alive, launched, reference>>

ExecutorInit ==
  /\ kind \in Kinds
  /\ alive = {}
  /\ launched = [n \in Names |-> 0]
  /\ reference = [n \in Names |-> 0]

Live(n) == {i \in alive : i[1] = n}

\* is_running: the process referred to, and no other of the name.
IsRunning(n) == reference[n] # 0 /\ <<n, reference[n]>> \in alive

\* What a start can come to: whether it reports success, the instance launched if any,
\* and the reference afterwards.
Unchanged(n, success) == [success |-> success, up |-> 0, refers |-> reference[n]]

\* Popen, the wait and poll: no script, no process; a process that is up; one that has
\* exited again, which stays referred to.
PopenOutcomes(n) ==
  LET k == launched[n] + 1 IN
  {Unchanged(n, FALSE), [success |-> TRUE, up |-> k, refers |-> k],
   [success |-> FALSE, up |-> 0, refers |-> k]}

\* Mutant: SimpleExecutor.start without its check.
SimpleStartOutcomesUnchecked(n, configured) ==
  IF configured THEN PopenOutcomes(n) ELSE {Unchanged(n, FALSE)}

\* SimpleExecutor.start: a process that is running is not started again.
SimpleStartOutcomes(n, configured) ==
  IF IsRunning(n) THEN {Unchanged(n, TRUE)}
  ELSE IF configured THEN PopenOutcomes(n) ELSE {Unchanged(n, FALSE)}

\* UnixExecutor.start does not look for a process it has started before.
UnixStartOutcomes(n, configured) ==
  IF configured THEN PopenOutcomes(n) ELSE {Unchanged(n, FALSE)}

\* WindowsExecutor.start: a window with the name as its title, and then _find_process, which
\* finds any process with that title, or none.
WindowsStartOutcomes(n, configured) ==
  LET k == launched[n] + 1
      titled == {i[2] : i \in Live(n)} \cup {k} IN
  IF configured
  THEN {Unchanged(n, FALSE), [success |-> FALSE, up |-> k, refers |-> reference[n]]}
       \cup {[success |-> TRUE, up |-> k, refers |-> j] : j \in titled}
  ELSE {Unchanged(n, FALSE)}

\* MockExecutor.start, with fail_start in the configuration or not.
MockStartOutcomes(n, configured) ==
  LET k == launched[n] + 1 IN
  IF IsRunning(n) THEN {Unchanged(n, TRUE)}
  ELSE {[success |-> TRUE, up |-> k, refers |-> k]}
       \cup (IF configured THEN {Unchanged(n, FALSE)} ELSE {})

StartOutcomes(n, configured) ==
  CASE kind = "simple" -> SimpleStartOutcomes(n, configured)
    [] kind = "unix" -> UnixStartOutcomes(n, configured)
    [] kind = "windows" -> WindowsStartOutcomes(n, configured)
    [] kind = "mock" -> MockStartOutcomes(n, configured)

\* What a stop can come to: what its caller takes for success, whether the process has
\* survived, and whether the executor drops its reference.
Stopped == [success |-> TRUE, survives |-> FALSE, drops |-> TRUE]

\* _stop_popen and _stop_psutil of SimpleExecutor: a process that survives terminate, or
\* kill with force, stays referred to.  The result is a pair, true to who tests it.
SimpleStopOutcomes(force) ==
  {Stopped, [success |-> TRUE, survives |-> TRUE, drops |-> FALSE]}

\* UnixExecutor: False; an error, or a kill that has no effect, drops the reference as well.
UnixStopOutcomes(force) ==
  {Stopped} \cup {[success |-> FALSE, survives |-> TRUE, drops |-> d] : d \in {force, TRUE}}

\* WindowsExecutor.stop drops the reference and returns True in any case.
WindowsStopOutcomes(force) ==
  {Stopped, [success |-> TRUE, survives |-> TRUE, drops |-> TRUE]}

\* stop of a process that does not run drops the reference.
StopOutcomes(n, force) ==
  IF ~IsRunning(n) THEN {Stopped}
  ELSE CASE kind = "simple" -> SimpleStopOutcomes(force)
         [] kind = "unix" -> UnixStopOutcomes(force)
         [] kind = "windows" -> WindowsStopOutcomes(force)
         [] kind = "mock" -> {Stopped}

\* A start, or a stop, that has come to the outcome o.
Launch(n, o) ==
  /\ alive' = IF o.up # 0 THEN alive \cup {<<n, o.up>>} ELSE alive
  /\ launched' = [launched EXCEPT ![n] = IF o.up # 0 \/ o.refers > @ THEN @ + 1 ELSE @]
  /\ reference' = [reference EXCEPT ![n] = o.refers]
  /\ UNCHANGED kind

Terminate(n, o) ==
  /\ alive' = IF o.survives THEN alive ELSE alive \ {<<n, reference[n]>>}
  /\ reference' = [reference EXCEPT ![n] = IF o.drops THEN 0 ELSE @]
  /\ UNCHANGED <<kind, launched>>

\* update_process: another process of the name is referred to.
UpdateReference(n, k) ==
  /\ alive' = alive \cup {<<n, k>>}
  /\ launched' = [launched EXCEPT ![n] = k]
  /\ reference' = [reference EXCEPT ![n] = k]
  /\ UNCHANGED kind

\* A process ends by itself, or MockExecutor.kill.
ProcessDies(i) ==
  /\ i \in alive
  /\ alive' = alive \ {i}
  /\ UNCHANGED <<kind, launched, reference>>

\* The executor's part of the types; a reference is to an instance there has been.
ExecutorTyped ==
  /\ kind \in Kinds
  /\ alive \subseteq Instances
  /\ launched \in [Names -> 0..MaxInstances]
  /\ reference \in [Names -> 0..MaxInstances]
  /\ \A n \in Names : reference[n] <= launched[n]
  /\ \A i \in alive : i[2] <= launched[i[1]]
=============================================================================
