----------------------------- MODULE HubRegistry -----------------------------
(***************************************************************************)
(* ProcessHub/fleet/hub_registry.py: what the orchestrator knows of each    *)
(* hub.  Every method holds the registry's lock from its first to its last  *)
(* access, so each is one action on the three variables.                    *)
(*                                                                          *)
(* A hub that is not in _hubs has the status "unknown".  Of last_seen only  *)
(* the comparison with the two thresholds matters: age is 0 up to half the  *)
(* timeout, 1 up to the timeout and 2 beyond it.  Of a report only the      *)
(* processes are kept; nothing is decided on the rest.                      *)
(***************************************************************************)
EXTENDS Naturals

CONSTANTS Hubs,            \* hub ids
          HubProcs         \* names of processes that hubs run

VARIABLES status,          \* _HubEntry.status, or "unknown"
          age,             \* how long ago last_seen is
          view             \* _HubEntry.processes

registryVars == <<status, age, view>>

HubStatus == {"unknown", "online", "degraded", "offline"}

RegistryInit ==
  /\ status = [h \in Hubs |-> "unknown"]
  /\ age = [h \in Hubs |-> 0]
  /\ view = [h \in Hubs |-> {}]

IsRegistered(h) == status[h] # "unknown"

\* _entry_to_snapshot
Snapshot(h) == [status |-> status[h], processes |-> view[h]]

\* get_hub, of a hub that is registered
GetHub(h) == Snapshot(h)

\* get_snapshot: a copy of every entry, made under the lock
GetSnapshot == [h \in {g \in Hubs : IsRegistered(g)} |-> Snapshot(h)]

\* An announce of a known hub refreshes last_seen and wakes it if offline;
\* a degraded hub stays degraded.
RegisterHub(h) ==
  /\ status' = [status EXCEPT ![h] = IF @ = "degraded" THEN @ ELSE "online"]
  /\ age' = [age EXCEPT ![h] = 0]
  /\ view' = [view EXCEPT ![h] = IF IsRegistered(h) THEN @ ELSE {}]

Deregister(h) ==
  /\ status' = [status EXCEPT ![h] = "unknown"]
  /\ age' = [age EXCEPT ![h] = 0]
  /\ view' = [view EXCEPT ![h] = {}]

\* Mutants: an empty list is taken for "not reported"; a report of an unknown
\* hub is recorded.
UpdateStatusKeeps(h, S) ==
  IF IsRegistered(h)
  THEN /\ view' = [view EXCEPT ![h] = IF S = {} THEN @ ELSE S]
       /\ age' = [age EXCEPT ![h] = 0]
       /\ UNCHANGED status
  ELSE UNCHANGED registryVars

UpdateStatusOfAnyone(h, S) ==
  /\ view' = [view EXCEPT ![h] = S]
  /\ age' = [age EXCEPT ![h] = 0]
  /\ UNCHANGED status

\* A report of an unknown hub is dropped.  The status is left to check_health.
UpdateStatus(h, S) ==
  IF IsRegistered(h)
  THEN /\ view' = [view EXCEPT ![h] = S]
       /\ age' = [age EXCEPT ![h] = 0]
       /\ UNCHANGED status
  ELSE UNCHANGED registryVars

UpdateHeartbeat(h) ==
  IF IsRegistered(h)
  THEN /\ age' = [age EXCEPT ![h] = 0]
       /\ status' = [status EXCEPT ![h] = "online"]
       /\ UNCHANGED view
  ELSE UNCHANGED registryVars

-----------------------------------------------------------------------------
\* Mutant: only hubs that were seen degraded before are returned.
NewlyOfflineDegraded == {h \in Hubs : age[h] = 2 /\ status[h] = "degraded"}

\* The hubs check_health returns.
NewlyOffline ==
  {h \in Hubs : IsRegistered(h) /\ age[h] = 2 /\ status[h] # "offline"}


\* The status check_health gives to a hub; an unknown one stays unknown.
StatusAfterCheck(h) ==
  IF ~IsRegistered(h) THEN "unknown"
  ELSE IF age[h] = 2 THEN "offline"
  ELSE IF age[h] = 0 THEN "online"
  ELSE IF status[h] = "online" THEN "degraded" ELSE status[h]

CheckHealth ==
  /\ status' = [h \in Hubs |-> StatusAfterCheck(h)]
  /\ UNCHANGED <<age, view>>

\* Time passes a threshold for hub h.
Elapse(h) ==
  /\ IsRegistered(h) /\ age[h] < 2
  /\ age' = [age EXCEPT ![h] = @ + 1]
  /\ UNCHANGED <<status, view>>

-----------------------------------------------------------------------------
\* The registry holds a hub's status, age and processes, and nothing of a hub
\* it does not know.
RegistryTyped ==
  /\ status \in [Hubs -> HubStatus]
  /\ age \in [Hubs -> 0..2]
  /\ view \in [Hubs -> SUBSET HubProcs]
  /\ \A h \in Hubs : status[h] = "unknown" => age[h] = 0 /\ view[h] = {}
=============================================================================
