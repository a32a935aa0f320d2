---------------------- MODULE RestartStateMachine_proofs ----------------------
(***************************************************************************)
(* For every set of panels and processes and every max_retries: the types,  *)
(* the consistency of the context, and that the machine implements the      *)
(* abstract round of RestartCycle.                                          *)
(***************************************************************************)
EXTENDS RestartStateMachine, TLAPS

\* RestartContext: no method leaves a value of another kind in a field.
THEOREM FsmTyped == FsmSpec => []FsmTypeOK
<1>1. FsmInit => FsmTypeOK
  BY MaxRetryAssumption DEF FsmInit, FsmTypeOK, Resting, RestartState
<1>2. FsmTypeOK /\ [FsmNext]_fsmVars => FsmTypeOK'
  <2> SUFFICES ASSUME FsmTypeOK, [FsmNext]_fsmVars PROVE FsmTypeOK'
    OBVIOUS
  <2> USE MaxRetryAssumption DEF FsmTypeOK, Resting, RestartState
  <2>1. Retried \in 0..MaxRetry
    BY DEF Retried, CanRetry
  <2>2. ASSUME NEW S \in SUBSET Procs, NEW P \in SUBSET Panels, DetectKilled(S, P)
        PROVE  FsmTypeOK'
    BY <2>2 DEF DetectKilled
  <2>3. CASE NotificationsSent
    BY <2>3 DEF NotificationsSent
  <2>4. ASSUME NEW p \in Panels, PanelAcknowledged(p)
        PROVE  FsmTypeOK'
    BY <2>4 DEF PanelAcknowledged
  <2>5. CASE BeginRestart
    BY <2>5 DEF BeginRestart
  <2>6. ASSUME NEW success \in BOOLEAN, RestartCompleted(success)
        PROVE  FsmTypeOK'
    BY <2>1, <2>6 DEF RestartCompleted
  <2>7. CASE ResetToIdle
    BY <2>7 DEF ResetToIdle
  <2>8. CASE CheckTimeout
    BY <2>1, <2>8 DEF CheckTimeout
  <2>9. CASE ForceFail
    BY <2>1, <2>9 DEF ForceFail
  <2>10. CASE TimeElapses
    BY <2>10 DEF TimeElapses
  <2>11. CASE UNCHANGED fsmVars
    BY <2>11 DEF fsmVars
  <2> QED
    BY <2>2, <2>3, <2>4, <2>5, <2>6, <2>7, <2>8, <2>9, <2>10, <2>11 DEF FsmNext
<1> QED
  BY <1>1, <1>2, PTL DEF FsmSpec

-----------------------------------------------------------------------------
\* RestartContext.reset forgets the round, detect_killed starts the clock, and
\* begin_restart waits for the last panel: the fields agree with the state.
LEMMA ContextStep ==
  ASSUME FsmTypeOK, ContextConsistent, [FsmNext]_fsmVars
  PROVE  ContextConsistent'
<1> USE DEF FsmTypeOK, ContextConsistent
<1>1. ASSUME NEW S \in SUBSET Procs, NEW P \in SUBSET Panels, DetectKilled(S, P)
      PROVE  ContextConsistent'
  BY <1>1 DEF DetectKilled
<1>2. CASE NotificationsSent
  BY <1>2 DEF NotificationsSent
<1>3. ASSUME NEW p \in Panels, PanelAcknowledged(p)
      PROVE  ContextConsistent'
  BY <1>3 DEF PanelAcknowledged
<1>4. CASE BeginRestart
  BY <1>4 DEF BeginRestart
<1>5. ASSUME NEW success \in BOOLEAN, RestartCompleted(success)
      PROVE  ContextConsistent'
  BY <1>5 DEF RestartCompleted
<1>6. CASE ResetToIdle
  BY <1>6 DEF ResetToIdle
<1>7. CASE CheckTimeout
  BY <1>7 DEF CheckTimeout
<1>8. CASE ForceFail
  BY <1>8 DEF ForceFail
<1>9. CASE TimeElapses
  BY <1>9 DEF TimeElapses
<1>10. CASE UNCHANGED fsmVars
  BY <1>10 DEF fsmVars
<1> QED
  BY <1>1, <1>2, <1>3, <1>4, <1>5, <1>6, <1>7, <1>8, <1>9, <1>10 DEF FsmNext

\* The context of a machine driven by its methods is consistent at every moment.
THEOREM ContextHolds == FsmSpec => []ContextConsistent
<1>1. FsmInit => ContextConsistent
  BY DEF FsmInit, ContextConsistent
<1>2. FsmTypeOK /\ ContextConsistent /\ [FsmNext]_fsmVars => ContextConsistent'
  BY ContextStep
<1> QED
  BY <1>1, <1>2, FsmTyped, PTL DEF FsmSpec

-----------------------------------------------------------------------------
\* Every method is one step of the abstract round or none at all.
LEMMA CycleStep ==
  ASSUME FsmTypeOK, ContextConsistent, [FsmNext]_fsmVars
  PROVE  [Cycle!CycleNext]_(Cycle!cycleVars)
<1> USE DEF FsmTypeOK, Resting, RestartState, Phase, Awaited
<1>1. ASSUME NEW S \in SUBSET Procs, NEW P \in SUBSET Panels, DetectKilled(S, P)
      PROVE  Cycle!Open(P)
  BY <1>1 DEF DetectKilled, Cycle!Open
<1>2. CASE NotificationsSent
  BY <1>2 DEF NotificationsSent, Cycle!cycleVars
<1>3. ASSUME NEW p \in Panels, PanelAcknowledged(p)
      PROVE  Cycle!Answer(p)
  BY <1>3 DEF PanelAcknowledged, Cycle!Answer
<1>4. CASE BeginRestart
  BY <1>4 DEF BeginRestart, Cycle!CycleNext, Cycle!Go
<1>5. ASSUME NEW success \in BOOLEAN, RestartCompleted(success)
      PROVE  Cycle!End
  BY <1>5 DEF RestartCompleted, Cycle!End
<1>6. CASE ResetToIdle
  BY <1>6 DEF ResetToIdle, Cycle!CycleNext, Cycle!Abandon, Cycle!cycleVars
<1>7. CASE CheckTimeout
  BY <1>7 DEF CheckTimeout, Cycle!CycleNext, Cycle!End
<1>8. CASE ForceFail
  BY <1>8 DEF ForceFail, Cycle!CycleNext, Cycle!End, Cycle!cycleVars
<1>9. CASE TimeElapses
  BY <1>9 DEF TimeElapses, Cycle!cycleVars
<1>10. CASE UNCHANGED fsmVars
  BY <1>10 DEF fsmVars, Cycle!cycleVars
<1> QED
  BY <1>1, <1>2, <1>3, <1>4, <1>5, <1>6, <1>7, <1>8, <1>9, <1>10
  DEF FsmNext, Cycle!CycleNext

\* The machine implements the abstract round: one round at a time, opened from
\* idle only, and begin_restart never before the last panel_acknowledged.
THEOREM Refinement == FsmSpec => RefinesCycle
<1>1. FsmInit => Cycle!CycleInit
  BY DEF FsmInit, Cycle!CycleInit, Phase, Awaited
<1>2. FsmTypeOK /\ ContextConsistent /\ [FsmNext]_fsmVars
        => [Cycle!CycleNext]_(Cycle!cycleVars)
  BY CycleStep
<1> QED
  BY <1>1, <1>2, FsmTyped, ContextHolds, PTL
  DEF FsmSpec, RefinesCycle, Cycle!CycleSpec
=============================================================================
