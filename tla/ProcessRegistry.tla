--------------------------- MODULE ProcessRegistry ---------------------------
(***************************************************************************)
(* ProcessHub/core/process_registry.py as operators on a registry value.    *)
(* Every method of the class runs under the registry's own lock, so a       *)
(* caller applies one operator, or several that nothing can come between,   *)
(* in one step.  A name that is not in the dictionary maps to NoEntry; pid, *)
(* error text and metadata are left out, nothing decides on them.           *)
(***************************************************************************)
CONSTANTS Procs,           \* process names
          Requesters       \* panel ids and the pseudo panels of the hub

ProcessState == {"REGISTERED", "STARTING", "RUNNING", "STOPPING",
                 "STOPPED", "DEAD", "FAILED"}

Absent == "ABSENT"

ProcessInfo == [state : ProcessState \cup {Absent}, users : SUBSET Requesters]

NoEntry == [state |-> Absent, users |-> {}]

Registries == [Procs -> ProcessInfo]

EmptyRegistry == [n \in Procs |-> NoEntry]

Exists(reg, n) == reg[n].state # Absent

AllNames(reg) == {n \in Procs : Exists(reg, n)}

\* get: a copy of the entry, if there is one
Get(reg, n) == reg[n]

\* get_state
GetState(reg, n) == Get(reg, n).state

\* get_snapshot: a copy of every entry
GetSnapshot(reg) == [n \in AllNames(reg) |-> Get(reg, n)]

\* register: a new entry, or one more requester of an existing one.
Register(reg, n, r) ==
  [reg EXCEPT ![n] = [state |-> IF Exists(reg, n) THEN @.state ELSE "REGISTERED",
                      users |-> @.users \cup {r}]]

\* unregister drops the requester ...
Unregister(reg, n, r) == [reg EXCEPT ![n].users = @ \ {r}]

\* ... and answers whether the process can be stopped, never for a missing one.
CanStop(reg, n, r) == Exists(reg, n) /\ Unregister(reg, n, r)[n].users = {}

Remove(reg, n) == [reg EXCEPT ![n] = NoEntry]

\* update_state: no entry, no update.
WithState(reg, n, s) ==
  IF Exists(reg, n) THEN [reg EXCEPT ![n].state = s] ELSE reg

\* remove_requester_from_all ...
RemoveRequester(reg, r) == [n \in Procs |-> [reg[n] EXCEPT !.users = @ \ {r}]]

\* ... returns every entry without requesters, the ones that had none before too.
Orphans(reg, r) ==
  {n \in AllNames(reg) : RemoveRequester(reg, r)[n].users = {}}

ActiveProcesses(reg) == {n \in Procs : reg[n].state = "RUNNING"}

\* mark_dead touches only processes still RUNNING.
MarkDead(reg, S) ==
  [n \in Procs |-> IF n \in S /\ reg[n].state = "RUNNING"
                   THEN [reg[n] EXCEPT !.state = "DEAD"] ELSE reg[n]]
=============================================================================
