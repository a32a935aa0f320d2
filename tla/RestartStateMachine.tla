------------------------- MODULE RestartStateMachine -------------------------
(***************************************************************************)
(* ProcessHub/core/restart_state.py: the restart coordination FSM and its   *)
(* RestartContext.  Every method of the class holds the FSM's own lock from *)
(* its first to its last statement, so each is one action; a method that    *)
(* returns False without touching the context is an action that is not      *)
(* enabled.  DETECTING is entered and left under one lock hold and is never *)
(* seen from outside.                                                       *)
(*                                                                          *)
(* started_at is abstracted to a clock that is unset, running (inside       *)
(* timeout_seconds) or expired.  retry_count saturates at MaxRetry, the     *)
(* context's max_retries, which is all can_retry tells apart.               *)
(***************************************************************************)
EXTENDS Naturals

CONSTANTS Panels,          \* everybody that can be asked for an answer
          Procs,           \* names of managed processes
          MaxRetry         \* max_retries, and the bound of retryCount

ASSUME MaxRetryAssumption == MaxRetry \in Nat

VARIABLES state, killed, pending, notified, clock, retryCount

fsmVars == <<state, killed, pending, notified, clock, retryCount>>

RestartState == {"IDLE", "DETECTING", "NOTIFYING", "AWAITING_ACK",
                 "RESTARTING", "DONE", "FAILED"}

\* The states a method can leave behind when it releases the lock.
Resting == RestartState \ {"DETECTING"}

FsmInit ==
  /\ state = "IDLE" /\ killed = {} /\ pending = {} /\ notified = {}
  /\ clock = "unset" /\ retryCount = 0

IsTimedOut == clock = "expired"

CanRetry == retryCount < MaxRetry

Retried == IF CanRetry THEN retryCount + 1 ELSE retryCount

-----------------------------------------------------------------------------
\* Mutants: started_at forgotten, and the two arguments swapped.
DetectKilledUntimed(S, P) ==
  /\ state = "IDLE" /\ state' = "NOTIFYING"
  /\ killed' = S /\ pending' = P /\ notified' = P
  /\ UNCHANGED <<clock, retryCount>>

DetectKilledSwapped(S, P) ==
  /\ state = "IDLE" /\ state' = "NOTIFYING"
  /\ killed' = S /\ pending' = S /\ notified' = P
  /\ clock' = "running" /\ UNCHANGED retryCount

\* IDLE -> DETECTING -> NOTIFYING, refused while a restart is in progress.
DetectKilled(S, P) ==
  /\ state = "IDLE"
  /\ state' = "NOTIFYING"
  /\ killed' = S /\ pending' = P /\ notified' = P
  /\ clock' = "running"
  /\ UNCHANGED retryCount

NotificationsSent ==
  /\ state = "NOTIFYING"
  /\ state' = "AWAITING_ACK"
  /\ UNCHANGED <<killed, pending, notified, clock, retryCount>>

\* Mutant: the first answer counts for everybody.
PanelAcknowledgedAll(p) ==
  /\ state = "AWAITING_ACK"
  /\ pending' = {}
  /\ UNCHANGED <<state, killed, notified, clock, retryCount>>

\* Any name is accepted: discarding one that is not pending changes nothing.
PanelAcknowledged(p) ==
  /\ state = "AWAITING_ACK"
  /\ pending' = pending \ {p}
  /\ UNCHANGED <<state, killed, notified, clock, retryCount>>

\* Mutant: the check for pending panels is dropped.
BeginRestartEager ==
  /\ state = "AWAITING_ACK"
  /\ state' = "RESTARTING"
  /\ UNCHANGED <<killed, pending, notified, clock, retryCount>>

BeginRestart ==
  /\ state = "AWAITING_ACK" /\ pending = {}
  /\ state' = "RESTARTING"
  /\ UNCHANGED <<killed, pending, notified, clock, retryCount>>

RestartCompleted(success) ==
  /\ state = "RESTARTING"
  /\ state' = IF success THEN "DONE" ELSE "FAILED"
  /\ retryCount' = IF success THEN retryCount ELSE Retried
  /\ UNCHANGED <<killed, pending, notified, clock>>

\* Mutant: RestartContext.reset leaves the notified panels behind.
ResetToIdleStale ==
  /\ state' = "IDLE" /\ killed' = {} /\ pending' = {} /\ notified' = notified
  /\ clock' = "unset" /\ UNCHANGED retryCount

\* RestartContext.reset, from whatever state the machine is in.
ResetToIdle ==
  /\ state' = "IDLE" /\ killed' = {} /\ pending' = {} /\ notified' = {}
  /\ clock' = "unset"
  /\ UNCHANGED retryCount

\* Mutant: only waiting for panels is timed, not the restart itself.
CheckTimeoutAwaiting ==
  /\ state = "AWAITING_ACK" /\ IsTimedOut
  /\ state' = "FAILED" /\ retryCount' = Retried
  /\ UNCHANGED <<killed, pending, notified, clock>>

CheckTimeout ==
  /\ state \notin {"IDLE", "DONE", "FAILED"} /\ IsTimedOut
  /\ state' = "FAILED" /\ retryCount' = Retried
  /\ UNCHANGED <<killed, pending, notified, clock>>

ForceFail ==
  /\ state \notin {"IDLE", "DONE"}
  /\ state' = "FAILED" /\ retryCount' = Retried
  /\ UNCHANGED <<killed, pending, notified, clock>>

\* timeout_seconds have gone by since started_at was set.
TimeElapses ==
  /\ clock = "running" /\ clock' = "expired"
  /\ UNCHANGED <<state, killed, pending, notified, retryCount>>

-----------------------------------------------------------------------------
(* The machine on its own: its methods called in any order by any thread.   *)
FsmNext ==
  \/ \E S \in SUBSET Procs, P \in SUBSET Panels : DetectKilled(S, P)
  \/ NotificationsSent
  \/ \E p \in Panels : PanelAcknowledged(p)
  \/ BeginRestart
  \/ \E success \in BOOLEAN : RestartCompleted(success)
  \/ ResetToIdle
  \/ CheckTimeout
  \/ ForceFail
  \/ TimeElapses

FsmSpec == FsmInit /\ [][FsmNext]_fsmVars

\* Time passes, and the main loop calls check_timeout over and over.
TimedSpec == FsmSpec /\ WF_fsmVars(TimeElapses) /\ WF_fsmVars(CheckTimeout)

-----------------------------------------------------------------------------
\* The context holds values of the kinds its fields declare, between methods.
FsmTypeOK ==
  /\ state \in Resting
  /\ killed \in SUBSET Procs
  /\ pending \in SUBSET Panels /\ notified \in SUBSET Panels
  /\ clock \in {"unset", "running", "expired"}
  /\ retryCount \in 0..MaxRetry

\* The fields agree with the state: an idle machine carries nothing over from
\* the last round, only notified panels are waited for, the processes are
\* restarted with nobody waited for, and a round under way is always timed.
ContextConsistent ==
  /\ state = "IDLE" => killed = {} /\ notified = {} /\ clock = "unset"
  /\ pending \subseteq notified
  /\ state = "RESTARTING" => pending = {}
  /\ state # "IDLE" => clock # "unset"

\* The machine implements the abstract round: one round at a time, and no
\* restart before the last panel has answered.
Phase ==
  IF state = "IDLE" THEN "quiet"
  ELSE IF state = "RESTARTING" THEN "restarting"
  ELSE IF state \in {"DONE", "FAILED"} THEN "ended"
  ELSE "gathering"

Awaited == IF Phase = "gathering" THEN pending ELSE {}

Cycle == INSTANCE RestartCycle WITH phase <- Phase, awaited <- Awaited

RefinesCycle == Cycle!CycleSpec

\* A round never hangs: whatever the panels and the restarting thread do, the
\* timeout covers every state between detection and the end of the round.
EveryRoundEnds ==
  state \in {"NOTIFYING", "AWAITING_ACK", "RESTARTING"}
    ~> state \in {"IDLE", "DONE", "FAILED"}
=============================================================================
