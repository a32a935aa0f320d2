------------------------- MODULE HubCoreTypes_proofs -------------------------
(***************************************************************************)
(* For every deployment (any panels, processes and threads, either executor, *)
(* with and without failures, timeouts and a shutdown): the invariant every  *)
(* other proof about the hub starts from.  HubInv has three parts: the types *)
(* (TypeOK), what a handler's local variables are good for at each of its    *)
(* labels (FramesOK), without which the types do not carry themselves, and   *)
(* the discipline of _operation_lock, which bounds opLock.                   *)
(***************************************************************************)
EXTENDS HubCore, TLAPS

\* What a handler's local variables are good for at each of its labels.
FrameOK(label, f) ==
  /\ label \in {"start_lock", "start", "start_record", "start_rollback"}
       => f.who \in Requesters
  /\ label \in {"unregister_remove", "start_record", "start_rollback", "stop_exec",
                "restart_start", "restart_record", "admin_register",
                "admin_unregister"}
       => f.cur \in Procs

FramesOK == \A t \in Threads : FrameOK(pc[t], frame[t])

TypeInv == TypeOK /\ FramesOK

-----------------------------------------------------------------------------
(* The registry's operators on well-formed registries.                      *)

USE DEF Registries, ProcessInfo, ProcessState, Absent

LEMMA RegisterType ==
  ASSUME NEW reg \in Registries, NEW n \in Procs, NEW r \in Requesters
  PROVE  Register(reg, n, r) \in Registries
BY DEF Register, Exists

LEMMA UnregisterType ==
  ASSUME NEW reg \in Registries, NEW n \in Procs, NEW r
  PROVE  Unregister(reg, n, r) \in Registries
BY DEF Unregister

LEMMA RemoveType ==
  ASSUME NEW reg \in Registries, NEW n \in Procs
  PROVE  Remove(reg, n) \in Registries
BY DEF Remove, NoEntry

LEMMA WithStateType ==
  ASSUME NEW reg \in Registries, NEW n \in Procs, NEW s \in ProcessState
  PROVE  WithState(reg, n, s) \in Registries
BY DEF WithState, Exists

LEMMA RemoveRequesterType ==
  ASSUME NEW reg \in Registries, NEW r
  PROVE  RemoveRequester(reg, r) \in Registries
BY DEF RemoveRequester

LEMMA MarkDeadType ==
  ASSUME NEW reg \in Registries, NEW S
  PROVE  MarkDead(reg, S) \in Registries
BY DEF MarkDead

LEMMA EmptyType == EmptyRegistry \in Registries
BY DEF EmptyRegistry, NoEntry

LEMMA NamesType ==
  ASSUME NEW reg \in Registries, NEW r
  PROVE  /\ Orphans(reg, r) \in SUBSET Procs /\ AllNames(reg) \in SUBSET Procs
         /\ ActiveProcesses(reg) \in SUBSET Procs
         /\ \A n \in Procs : reg[n].users \in SUBSET Requesters
BY DEF Orphans, AllNames, ActiveProcesses

HIDE DEF Registries, ProcessInfo, ProcessState, Absent

-----------------------------------------------------------------------------
(* Threads: where they are and what they know there.                        *)

LEMMA StateTypes ==
  ASSUME TypeInv
  PROVE  /\ connected \in SUBSET Panels /\ registry \in Registries
         /\ Fsm!FsmTypeOK
         /\ notified \in SUBSET Requesters /\ killed \in SUBSET Procs
         /\ running \in SUBSET Procs /\ leaked \in SUBSET Procs
         /\ survived \in SUBSET Procs
         /\ opLock \in Threads \cup {None}
         /\ blocked \in SUBSET Panels /\ answered \in SUBSET Panels
         /\ acks \in SUBSET Panels
BY DEF TypeInv, TypeOK, Fsm!FsmTypeOK

LEMMA FrameTypes ==
  ASSUME TypeInv, NEW t \in Threads
  PROVE  /\ frame[t] \in Frame /\ FrameOK(pc[t], frame[t])
         /\ frame[t].todo \in SUBSET Procs /\ frame[t].done \in SUBSET Procs
         /\ frame[t].targets \in SUBSET Requesters
         /\ frame[t].ok \in BOOLEAN /\ frame[t].force \in BOOLEAN
BY DEF TypeInv, TypeOK, FramesOK, Frame

ThreadsOK == pc \in [Threads -> Labels] /\ frame \in [Threads -> Frame] /\ FramesOK

\* A thread goes to a label with the local variables that label needs.
LEMMA GotoType ==
  ASSUME TypeInv, NEW t \in Threads, NEW label \in Labels, NEW f \in Frame,
         FrameOK(label, f), Goto(t, label, f)
  PROVE  ThreadsOK'
<1>1. pc \in [Threads -> Labels] /\ frame \in [Threads -> Frame]
  BY DEF TypeInv, TypeOK
<1>2. pc' \in [Threads -> Labels] /\ frame' \in [Threads -> Frame]
  BY <1>1 DEF Goto
<1>3. ASSUME NEW u \in Threads PROVE FrameOK(pc'[u], frame'[u])
  <2>1. CASE u = t
    BY <1>1, <2>1 DEF Goto
  <2>2. CASE u # t
    BY <1>1, <2>2 DEF Goto, TypeInv, FramesOK
  <2> QED BY <2>1, <2>2
<1> QED
  BY <1>2, <1>3 DEF FramesOK, ThreadsOK

LEMMA IdleFrameType == IdleFrame \in Frame
BY DEF IdleFrame, Frame

\* A name is worked off, or taken up: the rest of the frame stays as it is.
LEMMA WorkType ==
  ASSUME NEW f \in Frame, NEW n \in f.todo
  PROVE  /\ n \in Procs
         /\ Without(f, n) \in Frame /\ Without(f, n).who = f.who
         /\ Without(f, n).cur = f.cur
         /\ Working(f, n) \in Frame /\ Working(f, n).who = f.who
         /\ Working(f, n).cur = n
BY DEF Without, Working, Frame

LEMMA StartThreads ==
  ASSUME TypeInv, NEW t \in Threads,
         \/ StartLock(t) \/ StartProcess(t) \/ StartRecord(t)
         \/ StartRollback(t) \/ StartEnd(t)
  PROVE  ThreadsOK'
<1> DEFINE f == frame[t]
<1>f. f \in Frame /\ FrameOK(pc[t], f)
  BY FrameTypes
<1>1. CASE StartLock(t)
  BY <1>f, <1>1, GotoType DEF StartLock, FrameOK, Labels, LockedSections
<1>2. CASE StartProcess(t)
  <2>1. PICK n \in f.todo, ok \in BOOLEAN :
          \/ Goto(t, "start", Without(f, n))
          \/ Goto(t, "start_record", [Working(f, n) EXCEPT !.ok = ok])
    BY <1>2 DEF StartProcess
  <2>2. f.who \in Requesters
    BY <1>f, <1>2 DEF StartProcess, FrameOK
  <2>3. CASE Goto(t, "start", Without(f, n))
    BY <1>f, <2>2, <2>3, WorkType, GotoType DEF FrameOK, Labels, LockedSections
  <2>4. CASE Goto(t, "start_record", [Working(f, n) EXCEPT !.ok = ok])
    <3> DEFINE g == [Working(f, n) EXCEPT !.ok = ok]
    <3>1. g \in Frame /\ g.who \in Requesters /\ g.cur \in Procs
      BY <1>f, <2>2, WorkType DEF Frame
    <3>2. FrameOK("start_record", g)
      BY <3>1 DEF FrameOK
    <3> HIDE DEF g
    <3> QED BY <2>4, <3>1, <3>2, GotoType DEF g, Labels, LockedSections
  <2> QED BY <2>1, <2>3, <2>4
<1>3. CASE StartRecord(t)
  <2> DEFINE g == [f EXCEPT !.done = @ \cup {f.cur}, !.cur = None]
             h == [f EXCEPT !.todo = f.done]
  <2>1. f.who \in Requesters /\ f.cur \in Procs
    BY <1>f, <1>3 DEF StartRecord, FrameOK
  <2>2. g \in Frame /\ g.who = f.who
    BY <1>f, <2>1 DEF Frame
  <2>3. h \in Frame /\ h.who = f.who /\ h.cur = f.cur
    BY <1>f DEF Frame
  <2>4. Goto(t, "start", g) \/ Goto(t, "start_rollback", h)
    BY <1>3 DEF StartRecord
  <2> HIDE DEF g, h
  <2> QED
    BY <2>1, <2>2, <2>3, <2>4, GotoType DEF FrameOK, Labels, LockedSections
<1>4. CASE StartRollback(t)
  <2>1. PICK n \in f.todo : Goto(t, "start_rollback", Without(f, n))
    BY <1>4 DEF StartRollback
  <2>2. f.who \in Requesters /\ f.cur \in Procs
    BY <1>f, <1>4 DEF StartRollback, FrameOK
  <2> QED
    BY <1>f, <2>1, <2>2, WorkType, GotoType DEF FrameOK, Labels, LockedSections
<1>5. CASE StartEnd(t)
  BY <1>5, IdleFrameType, GotoType DEF StartEnd, Finish, FrameOK, Labels
<1> QED
  BY <1>1, <1>2, <1>3, <1>4, <1>5

LEMMA StopThreads ==
  ASSUME TypeInv, NEW t \in Threads,
         StopLock(t) \/ StopRelease(t) \/ StopExec(t) \/ StopEnd(t)
  PROVE  ThreadsOK'
<1> DEFINE f == frame[t]
<1>f. f \in Frame
  BY FrameTypes
<1>1. CASE StopLock(t)
  BY <1>f, <1>1, GotoType DEF StopLock, FrameOK, Labels, LockedSections
<1>2. CASE StopRelease(t)
  <2>1. PICK n \in f.todo : \/ Goto(t, "stop_exec", Working(f, n))
                            \/ Goto(t, "stop", Without(f, n))
    BY <1>2 DEF StopRelease
  <2> QED
    BY <1>f, <2>1, WorkType, GotoType DEF FrameOK, Labels, LockedSections
<1>3. CASE StopExec(t)
  <2> DEFINE g == [f EXCEPT !.cur = None]
  <2>1. g \in Frame
    BY <1>f DEF Frame
  <2>2. Goto(t, "stop", g)
    BY <1>3 DEF StopExec
  <2> HIDE DEF g
  <2> QED
    BY <2>1, <2>2, GotoType DEF FrameOK, Labels, LockedSections
<1>4. CASE StopEnd(t)
  BY <1>4, IdleFrameType, GotoType DEF StopEnd, Finish, FrameOK, Labels
<1> QED
  BY <1>1, <1>2, <1>3, <1>4

LEMMA UnregisterThreads ==
  ASSUME TypeInv, NEW t \in Threads,
         \/ UnregisterRelease(t) \/ UnregisterStop(t) \/ UnregisterRemove(t)
         \/ UnregisterEnd(t)
  PROVE  ThreadsOK'
<1> DEFINE f == frame[t]
<1>f. f \in Frame
  BY FrameTypes
<1>1. CASE UnregisterRelease(t)
  <2> DEFINE g == [f EXCEPT !.todo = Orphans(registry, f.who)]
  <2>1. g \in Frame
    BY <1>f, StateTypes, NamesType DEF Frame
  <2>2. Goto(t, "unregister_stop", g)
    BY <1>1 DEF UnregisterRelease
  <2> HIDE DEF g
  <2> QED
    BY <2>1, <2>2, GotoType DEF FrameOK, Labels
<1>2. CASE UnregisterStop(t)
  <2>1. PICK n \in f.todo : Goto(t, "unregister_remove", Working(f, n))
    BY <1>2 DEF UnregisterStop
  <2> QED
    BY <1>f, <2>1, WorkType, GotoType DEF FrameOK, Labels
<1>3. CASE UnregisterRemove(t)
  <2> DEFINE g == [f EXCEPT !.cur = None]
  <2>1. g \in Frame
    BY <1>f DEF Frame
  <2>2. Goto(t, "unregister_stop", g)
    BY <1>3 DEF UnregisterRemove
  <2> HIDE DEF g
  <2> QED
    BY <2>1, <2>2, GotoType DEF FrameOK, Labels
<1>4. CASE UnregisterEnd(t)
  BY <1>4, IdleFrameType, GotoType DEF UnregisterEnd, Finish, FrameOK, Labels
<1> QED
  BY <1>1, <1>2, <1>3, <1>4

LEMMA RestartThreads ==
  ASSUME TypeInv, NEW t \in Threads,
         \/ RestartBegin(t) \/ RestartRead(t) \/ RestartLock(t) \/ RestartStop(t)
         \/ RestartStart(t) \/ RestartRecord(t) \/ RestartUnlock(t)
         \/ RestartCompleted(t) \/ RestartSnapshot(t) \/ RestartReset(t)
         \/ SendDone(t)
  PROVE  ThreadsOK'
<1> DEFINE f == frame[t]
<1>f. f \in Frame /\ FrameOK(pc[t], f) /\ f.done \in SUBSET Procs
  BY FrameTypes
<1>1. CASE RestartBegin(t)
  <2>1. Goto(t, "restart_read", IdleFrame) \/ Goto(t, "idle", IdleFrame)
    BY <1>1 DEF RestartBegin, Finish
  <2> QED
    BY <2>1, IdleFrameType, GotoType DEF FrameOK, Labels
<1>2. CASE RestartRead(t)
  <2> DEFINE g == [IdleFrame EXCEPT !.todo = killed]
  <2>1. g \in Frame
    BY StateTypes DEF IdleFrame, Frame
  <2>2. Goto(t, "restart_lock", g)
    BY <1>2 DEF RestartRead
  <2> HIDE DEF g
  <2> QED
    BY <2>1, <2>2, GotoType DEF FrameOK, Labels
<1>3. CASE RestartLock(t)
  BY <1>f, <1>3, GotoType DEF RestartLock, FrameOK, Labels, LockedSections
<1>4. CASE RestartStop(t)
  <2>1. PICK n \in f.todo : Goto(t, "restart_start", Working(f, n))
    BY <1>4 DEF RestartStop
  <2> QED
    BY <1>f, <2>1, WorkType, GotoType DEF FrameOK, Labels, LockedSections
<1>5. CASE RestartStart(t)
  <2>1. PICK ok \in BOOLEAN : Goto(t, "restart_record", [f EXCEPT !.ok = ok])
    BY <1>5 DEF RestartStart
  <2> DEFINE g == [f EXCEPT !.ok = ok]
  <2>2. g \in Frame /\ g.cur \in Procs
    BY <1>f, <1>5 DEF RestartStart, FrameOK, Frame
  <2>3. Goto(t, "restart_record", g)
    BY <2>1
  <2> HIDE DEF g
  <2> QED
    BY <2>2, <2>3, GotoType DEF FrameOK, Labels, LockedSections
<1>6. CASE RestartRecord(t)
  <2> DEFINE g == [f EXCEPT !.cur = None, !.ok = TRUE,
                            !.done = @ \cup (IF f.ok THEN {} ELSE {f.cur})]
  <2>1. f.cur \in Procs
    BY <1>f, <1>6 DEF RestartRecord, FrameOK
  <2>2. g \in Frame
    BY <1>f, <2>1 DEF Frame
  <2>3. Goto(t, "restart", g)
    BY <1>6 DEF RestartRecord
  <2> HIDE DEF g
  <2> QED
    BY <2>2, <2>3, GotoType DEF FrameOK, Labels, LockedSections
<1>7. CASE RestartUnlock(t)
  BY <1>f, <1>7, GotoType DEF RestartUnlock, FrameOK, Labels
<1>8. CASE RestartCompleted(t)
  BY <1>8, IdleFrameType, GotoType DEF RestartCompleted, FrameOK, Labels
<1>9. CASE RestartSnapshot(t)
  <2> DEFINE g == [IdleFrame EXCEPT !.targets = notified]
  <2>1. g \in Frame
    BY StateTypes DEF IdleFrame, Frame
  <2>2. Goto(t, "restart_reset", g)
    BY <1>9 DEF RestartSnapshot
  <2> HIDE DEF g
  <2> QED
    BY <2>1, <2>2, GotoType DEF FrameOK, Labels
<1>10. CASE RestartReset(t)
  BY <1>f, <1>10, GotoType DEF RestartReset, FrameOK, Labels
<1>11. CASE SendDone(t)
  BY <1>11, IdleFrameType, GotoType DEF SendDone, Finish, FrameOK, Labels
<1> QED
  BY <1>1, <1>2, <1>3, <1>4, <1>5, <1>6, <1>7, <1>8, <1>9, <1>10, <1>11

LEMMA TickThreads ==
  ASSUME TypeInv, NEW t \in Threads,
         \/ Tick(t) \/ TimeoutSnapshot(t) \/ TimeoutReset(t)
         \/ TickHealth(t) \/ TickMarkDead(t) \/ TickAffected(t) \/ TickIdle(t)
         \/ TickDetect(t) \/ TickNotify(t) \/ SendNotify(t)
  PROVE  ThreadsOK'
<1> DEFINE f == frame[t]
<1>f. /\ f \in Frame /\ f.done \in SUBSET Procs
      /\ f.targets \in SUBSET Requesters
  BY FrameTypes
<1>1. CASE TickTimeout(t)
  BY <1>1, IdleFrameType, GotoType DEF TickTimeout, FrameOK, Labels
<1>2. CASE TickActive(t)
  <2> DEFINE g == [IdleFrame EXCEPT !.todo = ActiveProcesses(registry)]
  <2>1. g \in Frame
    BY StateTypes, NamesType DEF IdleFrame, Frame
  <2>2. Goto(t, "tick_health", g)
    BY <1>2 DEF TickActive
  <2> HIDE DEF g
  <2> QED
    BY <2>1, <2>2, GotoType DEF FrameOK, Labels
<1>3. CASE TimeoutSnapshot(t)
  <2> DEFINE g == [IdleFrame EXCEPT !.targets = notified]
  <2>1. g \in Frame
    BY StateTypes DEF IdleFrame, Frame
  <2>2. Goto(t, "timeout_reset", g)
    BY <1>3 DEF TimeoutSnapshot
  <2> HIDE DEF g
  <2> QED
    BY <2>1, <2>2, GotoType DEF FrameOK, Labels
<1>4. CASE TimeoutReset(t)
  BY <1>f, <1>4, GotoType DEF TimeoutReset, FrameOK, Labels
<1>5. CASE TickHealth(t)
  <2>1. PICK n \in f.todo :
          Goto(t, "tick_health",
               [Without(f, n) EXCEPT !.done = @ \cup ({n} \ running)])
    BY <1>5 DEF TickHealth
  <2> DEFINE g == [Without(f, n) EXCEPT !.done = @ \cup ({n} \ running)]
  <2>2. g \in Frame
    BY <1>f, WorkType DEF Frame
  <2>3. Goto(t, "tick_health", g)
    BY <2>1
  <2> HIDE DEF g
  <2> QED
    BY <2>2, <2>3, GotoType DEF FrameOK, Labels
<1>6. CASE TickMarkDead(t)
  <2> DEFINE g == [f EXCEPT !.todo = f.done]
  <2>1. g \in Frame
    BY <1>f DEF Frame
  <2>2. Goto(t, "tick_affected", g)
    BY <1>6 DEF TickMarkDead
  <2> HIDE DEF g
  <2> QED
    BY <2>1, <2>2, GotoType DEF FrameOK, Labels
<1>7. CASE TickAffected(t)
  <2>1. PICK n \in f.todo :
          Goto(t, "tick_affected",
               [Without(f, n) EXCEPT !.targets = @ \cup registry[n].users])
    BY <1>7 DEF TickAffected
  <2> DEFINE g == [Without(f, n) EXCEPT !.targets = @ \cup registry[n].users]
  <2>2. registry[n].users \in SUBSET Requesters
    BY <1>f, WorkType, StateTypes, NamesType
  <2>3. g \in Frame
    BY <1>f, <2>2, WorkType DEF Frame
  <2>4. Goto(t, "tick_affected", g)
    BY <2>1
  <2> HIDE DEF g
  <2> QED
    BY <2>3, <2>4, GotoType DEF FrameOK, Labels
<1>8. CASE TickIdle(t)
  BY <1>8, IdleFrameType, GotoType DEF TickIdle, Finish, FrameOK, Labels
<1>9. CASE TickDetect(t)
  <2>1. Goto(t, "tick_notify", f) \/ Goto(t, "idle", IdleFrame)
    BY <1>9 DEF TickDetect, Finish
  <2> QED
    BY <1>f, <2>1, IdleFrameType, GotoType DEF FrameOK, Labels
<1>10. CASE TickNotify(t)
  BY <1>f, <1>10, GotoType DEF TickNotify, FrameOK, Labels
<1>11. CASE SendNotify(t)
  BY <1>11, IdleFrameType, GotoType DEF SendNotify, Finish, FrameOK, Labels
<1> QED
  BY <1>1, <1>2, <1>3, <1>4, <1>5, <1>6, <1>7, <1>8, <1>9, <1>10, <1>11 DEF Tick

LEMMA ResetThreads ==
  ASSUME TypeInv, NEW t \in Threads,
         \/ ResetLock(t) \/ ResetStop(t) \/ ResetClear(t) \/ ResetConnections(t)
         \/ ResetFsm(t)
         \/ RegisterAdminProcess(t) \/ UnregisterAdminProcess(t)
         \/ ShutdownRead(t) \/ ShutdownStop(t)
         \/ ShutdownClear(t) \/ ShutdownConnections(t)
         \/ TransportStop(t)
  PROVE  ThreadsOK'
<1> DEFINE f == frame[t]
<1>f. f \in Frame
  BY FrameTypes
<1>1. CASE ResetLock(t)
  <2> DEFINE g == [f EXCEPT !.todo = AllNames(registry)]
  <2>1. g \in Frame
    BY <1>f, StateTypes, NamesType DEF Frame
  <2>2. Goto(t, "reset", g)
    BY <1>1 DEF ResetLock
  <2> HIDE DEF g
  <2> QED
    BY <2>1, <2>2, GotoType DEF FrameOK, Labels, LockedSections
<1>2. CASE ResetStop(t)
  <2>1. PICK n \in f.todo : Goto(t, "reset", Without(f, n))
    BY <1>2 DEF ResetStop
  <2> QED
    BY <1>f, <2>1, WorkType, GotoType DEF FrameOK, Labels, LockedSections
<1>3. CASE ResetClear(t)
  BY <1>f, <1>3, GotoType DEF ResetClear, FrameOK, Labels
<1>4. CASE ResetConnections(t)
  BY <1>f, <1>4, GotoType DEF ResetConnections, FrameOK, Labels
<1>5. CASE ResetFsm(t)
  BY <1>f, <1>5, GotoType DEF ResetFsm, FrameOK, Labels
<1>6. CASE RegisterAdminProcess(t)
  BY <1>6, IdleFrameType, GotoType DEF RegisterAdminProcess, Finish, FrameOK, Labels
<1>7. CASE UnregisterAdminProcess(t)
  BY <1>7, IdleFrameType, GotoType
  DEF UnregisterAdminProcess, Finish, FrameOK, Labels
<1>8. CASE ShutdownStop(t)
  <2>1. PICK n \in f.todo : Goto(t, "shutdown", Without(f, n))
    BY <1>8 DEF ShutdownStop
  <2> QED
    BY <1>f, <2>1, WorkType, GotoType DEF FrameOK, Labels
<1>9. CASE ShutdownClear(t)
  BY <1>f, <1>9, GotoType DEF ShutdownClear, FrameOK, Labels
<1>10. CASE ShutdownConnections(t)
  BY <1>f, <1>10, GotoType DEF ShutdownConnections, FrameOK, Labels
<1>11. CASE TransportStop(t)
  BY <1>11, IdleFrameType, GotoType DEF TransportStop, FrameOK, Labels
<1>12. CASE ShutdownRead(t)
  <2> DEFINE g == [f EXCEPT !.todo = AllNames(registry)]
  <2>1. g \in Frame
    BY <1>f, StateTypes, NamesType DEF Frame
  <2>2. Goto(t, "shutdown", g)
    BY <1>12 DEF ShutdownRead
  <2> HIDE DEF g
  <2> QED
    BY <2>1, <2>2, GotoType DEF FrameOK, Labels
<1> QED
  BY <1>1, <1>2, <1>3, <1>4, <1>5, <1>6, <1>7, <1>8, <1>9, <1>10, <1>11, <1>12

LEMMA RequestThreads ==
  ASSUME TypeInv, NEW t \in Threads, Request(t)
  PROVE  ThreadsOK'
<1>1. ASSUME NEW p \in Panels, HandleRegister(t, p)
      PROVE  ThreadsOK'
  BY <1>1 DEF HandleRegister, threads, ThreadsOK, TypeInv, TypeOK, FramesOK, FrameOK
<1>2. ASSUME NEW p \in Panels, HandleUnregister(t, p)
      PROVE  ThreadsOK'
  <2> DEFINE g == [IdleFrame EXCEPT !.who = p]
  <2>1. g \in Frame
    BY DEF IdleFrame, Frame, Requesters
  <2>2. Goto(t, "unregister_release", g)
    BY <1>2 DEF HandleUnregister
  <2> HIDE DEF g
  <2> QED
    BY <2>1, <2>2, GotoType DEF FrameOK, Labels
<1>3. ASSUME NEW p \in Panels, HandleRestartReady(t, p)
      PROVE  ThreadsOK'
  <2>1. Goto(t, "restart_begin", IdleFrame) \/ UNCHANGED threads
    BY <1>3 DEF HandleRestartReady
  <2>2. CASE Goto(t, "restart_begin", IdleFrame)
    BY <2>2, IdleFrameType, GotoType DEF FrameOK, Labels
  <2>3. CASE UNCHANGED threads
    BY <2>3 DEF threads, ThreadsOK, TypeInv, TypeOK, FramesOK, FrameOK
  <2> QED BY <2>1, <2>2, <2>3
<1>4. ASSUME NEW r \in Requesters, NEW S \in (SUBSET Procs) \ {{}},
             RequestStart(t, r, S)
      PROVE  ThreadsOK'
  <2> DEFINE g == [IdleFrame EXCEPT !.who = r, !.todo = S]
  <2>1. g \in Frame /\ g.who \in Requesters
    BY DEF IdleFrame, Frame
  <2>2. Goto(t, "start_lock", g)
    BY <1>4 DEF RequestStart
  <2> HIDE DEF g
  <2> QED
    BY <2>1, <2>2, GotoType DEF FrameOK, Labels
<1>5. ASSUME NEW r \in Requesters, NEW S \in (SUBSET Procs) \ {{}},
             NEW force \in BOOLEAN, RequestStop(t, r, S, force)
      PROVE  ThreadsOK'
  <2> DEFINE g == [IdleFrame EXCEPT !.who = r, !.todo = S, !.force = force]
  <2>1. g \in Frame
    BY DEF IdleFrame, Frame
  <2>2. Goto(t, "stop_lock", g)
    BY <1>5 DEF RequestStop
  <2> HIDE DEF g
  <2> QED
    BY <2>1, <2>2, GotoType DEF FrameOK, Labels
<1>6. CASE ResetBegin(t)
  <2> DEFINE g == [IdleFrame EXCEPT !.targets = connected]
  <2>1. g \in Frame
    BY StateTypes DEF IdleFrame, Frame, Requesters
  <2>2. Goto(t, "reset_lock", g)
    BY <1>6 DEF ResetBegin
  <2> HIDE DEF g
  <2> QED
    BY <2>1, <2>2, GotoType DEF FrameOK, Labels
<1>7. ASSUME NEW n \in Procs, AdminStart(t, n) \/ AdminStop(t, n)
      PROVE  ThreadsOK'
  <2> DEFINE g == [IdleFrame EXCEPT !.cur = n]
  <2>1. g \in Frame /\ g.cur \in Procs
    BY DEF IdleFrame, Frame
  <2>2. Goto(t, "admin_register", g) \/ Goto(t, "admin_unregister", g)
    BY <1>7 DEF AdminStart, AdminStop
  <2> HIDE DEF g
  <2> QED
    BY <2>1, <2>2, GotoType DEF FrameOK, Labels
<1>8. CASE ShutdownBegin(t)
  <2> DEFINE g == [IdleFrame EXCEPT !.targets = connected]
  <2>1. g \in Frame
    BY StateTypes DEF IdleFrame, Frame, Requesters
  <2>2. Goto(t, "shutdown_read", g)
    BY <1>8 DEF ShutdownBegin
  <2> HIDE DEF g
  <2> QED
    BY <2>1, <2>2, GotoType DEF FrameOK, Labels
<1> QED
  BY <1>1, <1>2, <1>3, <1>4, <1>5, <1>6, <1>7, <1>8 DEF Request

LEMMA ThreadsStep ==
  ASSUME TypeInv, [Next]_vars
  PROVE  ThreadsOK'
<1>1. ASSUME NEW t \in Threads, Continue(t) \/ Tick(t) \/ Request(t)
      PROVE  ThreadsOK'
  BY <1>1, StartThreads, StopThreads, UnregisterThreads, RestartThreads,
     TickThreads, ResetThreads, RequestThreads DEF Continue
<1>2. CASE Environment \/ UNCHANGED vars
  <2>1. UNCHANGED threads
    BY <1>2 DEF Environment, Crash, PanelReady, TimeElapses, vars, threads
  <2> QED
    BY <2>1 DEF threads, ThreadsOK, TypeInv, TypeOK, FramesOK, FrameOK
<1> QED
  BY <1>1, <1>2 DEF Next

-----------------------------------------------------------------------------
(* The registry keeps its type: each operation that changes it, one by one. *)

\* The steps that leave the registry alone.
RegistryUntouched(t) ==
  \/ UnregisterStop(t) \/ UnregisterEnd(t) \/ StartLock(t) \/ StopLock(t)
  \/ StopEnd(t) \/ RestartBegin(t) \/ RestartRead(t) \/ RestartLock(t)
  \/ RestartStop(t) \/ RestartStart(t) \/ RestartUnlock(t) \/ RestartCompleted(t)
  \/ RestartSnapshot(t) \/ RestartReset(t) \/ SendDone(t) \/ TimeoutSnapshot(t)
  \/ TimeoutReset(t) \/ TickHealth(t) \/ TickAffected(t) \/ TickIdle(t)
  \/ TickDetect(t) \/ TickNotify(t) \/ SendNotify(t) \/ ResetLock(t) \/ ResetStop(t)
  \/ ResetConnections(t) \/ ResetFsm(t) \/ ShutdownRead(t) \/ ShutdownStop(t)
  \/ ShutdownConnections(t) \/ TransportStop(t) \/ Tick(t) \/ Request(t)

LEMMA RegistryUnchanged ==
  ASSUME NEW t \in Threads, RegistryUntouched(t)
  PROVE  UNCHANGED registry
BY DEF RegistryUntouched, UnregisterStop, UnregisterEnd, StartLock, StopLock,
  StopEnd, RestartBegin, RestartRead, RestartLock, RestartStop, RestartStart,
  RestartUnlock, RestartCompleted, RestartSnapshot, RestartReset, SendDone,
  TimeoutSnapshot, TimeoutReset, TickHealth, TickAffected, TickIdle, TickDetect,
  TickNotify, SendNotify, ResetLock, ResetStop, ResetConnections, ResetFsm,
  ShutdownRead, ShutdownStop, ShutdownConnections, TransportStop, Tick, TickTimeout, TickActive,
  Request, HandleRegister, HandleUnregister, HandleRestartReady, RequestStart,
  RequestStop, ResetBegin, AdminStart, AdminStop, ShutdownBegin

LEMMA RegistryStep ==
  ASSUME TypeInv, NEW t \in Threads, Continue(t) \/ Tick(t) \/ Request(t)
  PROVE  registry' \in Registries
<1> DEFINE f == frame[t]
<1>r. registry \in Registries
  BY StateTypes
<1>f. f \in Frame /\ FrameOK(pc[t], f)
  BY FrameTypes
<1>1. CASE UnregisterRelease(t)
  BY <1>r, <1>1, RemoveRequesterType DEF UnregisterRelease
<1>2. CASE UnregisterRemove(t)
  BY <1>r, <1>f, <1>2, RemoveType DEF UnregisterRemove, FrameOK
<1>3. CASE StartProcess(t)
  <2>1. PICK n \in f.todo :
          registry' = WithState(Register(registry, n, f.who), n, "STARTING")
    BY <1>3 DEF StartProcess
  <2>2. f.who \in Requesters /\ n \in Procs
    BY <1>f, <1>3, WorkType DEF StartProcess, FrameOK
  <2>3. Register(registry, n, f.who) \in Registries
    BY <1>r, <2>2, RegisterType
  <2> QED
    BY <2>1, <2>2, <2>3, WithStateType DEF ProcessState
<1>4. CASE StartRecord(t)
  BY <1>r, <1>f, <1>4, WithStateType DEF StartRecord, FrameOK, ProcessState
<1>5. CASE StartRollback(t)
  <2>1. PICK n \in f.todo : registry' = WithState(registry, n, "STOPPED")
    BY <1>5 DEF StartRollback
  <2> QED
    BY <1>r, <1>f, <2>1, WorkType, WithStateType DEF ProcessState
<1>6. CASE StartEnd(t)
  <2>1. pc[t] = "start_rollback" => f.cur \in Procs
    BY <1>f DEF FrameOK
  <2> QED
    BY <1>r, <1>6, <2>1, UnregisterType DEF StartEnd
<1>7. CASE StopRelease(t)
  <2>1. PICK n \in f.todo :
          \/ registry' = WithState(Unregister(registry, n, f.who), n, "STOPPING")
          \/ registry' = Unregister(registry, n, f.who)
    BY <1>7 DEF StopRelease
  <2>2. n \in Procs /\ Unregister(registry, n, f.who) \in Registries
    BY <1>r, <1>f, WorkType, UnregisterType
  <2> QED
    BY <2>1, <2>2, WithStateType DEF ProcessState
<1>8. CASE StopExec(t)
  BY <1>r, <1>f, <1>8, RemoveType DEF StopExec, FrameOK
<1>9. CASE RestartRecord(t)
  BY <1>r, <1>f, <1>9, WithStateType DEF RestartRecord, FrameOK, ProcessState
<1>10. CASE TickMarkDead(t)
  BY <1>r, <1>10, MarkDeadType DEF TickMarkDead
<1>11. CASE ResetClear(t) \/ ShutdownClear(t)
  BY <1>11, EmptyType DEF ResetClear, ShutdownClear
<1>12. CASE RegisterAdminProcess(t)
  <2>1. f.cur \in Procs /\ AdminPanel \in Requesters
    BY <1>f, <1>12 DEF RegisterAdminProcess, FrameOK, Requesters
  <2>2. Register(registry, f.cur, AdminPanel) \in Registries
    BY <1>r, <2>1, RegisterType
  <2> QED
    BY <1>r, <1>12, <2>1, <2>2, WithStateType
    DEF RegisterAdminProcess, ProcessState
<1>13. CASE UnregisterAdminProcess(t)
  <2>1. f.cur \in Procs /\ Unregister(registry, f.cur, AdminPanel) \in Registries
    BY <1>r, <1>f, <1>13, UnregisterType DEF UnregisterAdminProcess, FrameOK
  <2> QED
    BY <1>13, <2>1, WithStateType DEF UnregisterAdminProcess, ProcessState
<1>14. CASE RegistryUntouched(t)
  BY <1>r, <1>14, RegistryUnchanged
<1> QED
  BY <1>1, <1>2, <1>3, <1>4, <1>5, <1>6, <1>7, <1>8, <1>9, <1>10, <1>11, <1>12,
     <1>13, <1>14
  DEF Continue, RegistryUntouched

-----------------------------------------------------------------------------
(* The hub drives its FSM by the FSM's methods only, whatever the thread.   *)

LEMMA FsmSteps ==
  ASSUME TypeInv, [Next]_vars
  PROVE  [Fsm!FsmNext]_restart
<1> USE DEF Fsm!FsmNext
<1>1. ASSUME NEW t \in Threads, NEW p \in Panels, HandleRestartReady(t, p)
      PROVE  [Fsm!FsmNext]_restart
  BY <1>1 DEF HandleRestartReady, Requesters
<1>2. ASSUME NEW t \in Threads, RestartBegin(t)
      PROVE  [Fsm!FsmNext]_restart
  BY <1>2 DEF RestartBegin
<1>3. ASSUME NEW t \in Threads, RestartCompleted(t)
      PROVE  [Fsm!FsmNext]_restart
  BY <1>3 DEF RestartCompleted
<1>4. ASSUME NEW t \in Threads, RestartReset(t) \/ TimeoutReset(t) \/ ResetFsm(t)
      PROVE  [Fsm!FsmNext]_restart
  BY <1>4 DEF RestartReset, TimeoutReset, ResetFsm
<1>5. ASSUME NEW t \in Threads, TickTimeout(t)
      PROVE  [Fsm!FsmNext]_restart
  BY <1>5 DEF TickTimeout
<1>6. ASSUME NEW t \in Threads, TickDetect(t)
      PROVE  [Fsm!FsmNext]_restart
  BY <1>6, FrameTypes DEF TickDetect
<1>7. ASSUME NEW t \in Threads, TickNotify(t)
      PROVE  [Fsm!FsmNext]_restart
  BY <1>7 DEF TickNotify
<1>8. CASE TimeElapses
  BY <1>8 DEF TimeElapses
<1>9. ASSUME NEW t \in Threads,
             \/ UnregisterRelease(t) \/ UnregisterStop(t) \/ UnregisterRemove(t)
             \/ UnregisterEnd(t) \/ StartLock(t) \/ StartProcess(t) \/ StartRecord(t)
             \/ StartRollback(t) \/ StartEnd(t) \/ StopLock(t) \/ StopRelease(t)
             \/ StopExec(t) \/ StopEnd(t) \/ RestartRead(t) \/ RestartLock(t)
             \/ RestartStop(t) \/ RestartStart(t) \/ RestartRecord(t)
             \/ RestartUnlock(t) \/ RestartSnapshot(t) \/ SendDone(t)
             \/ TimeoutSnapshot(t) \/ TickActive(t) \/ TickHealth(t)
             \/ TickMarkDead(t) \/ TickAffected(t) \/ TickIdle(t) \/ SendNotify(t)
             \/ ResetLock(t) \/ ResetStop(t) \/ ResetClear(t) \/ ResetConnections(t)
             \/ RegisterAdminProcess(t) \/ UnregisterAdminProcess(t)
             \/ ShutdownRead(t) \/ ShutdownStop(t)
             \/ ShutdownClear(t) \/ ShutdownConnections(t)
             \/ TransportStop(t)
      PROVE  UNCHANGED restart
  BY <1>9 DEF UnregisterRelease, UnregisterStop, UnregisterRemove, UnregisterEnd,
    StartLock, StartProcess, StartRecord, StartRollback, StartEnd, StopLock,
    StopRelease, StopExec, StopEnd, RestartRead, RestartLock, RestartStop,
    RestartStart, RestartRecord, RestartUnlock, RestartSnapshot, SendDone,
    TimeoutSnapshot, TickActive, TickHealth, TickMarkDead, TickAffected, TickIdle,
    SendNotify, ResetLock, ResetStop, ResetClear, ResetConnections,
    RegisterAdminProcess, UnregisterAdminProcess, ShutdownRead, ShutdownStop, ShutdownClear,
    ShutdownConnections, TransportStop
<1>10. ASSUME NEW t \in Threads, Request(t)
       PROVE  [Fsm!FsmNext]_restart
  <2>1. CASE \E p \in Panels : HandleRestartReady(t, p)
    BY <2>1, <1>1
  <2>2. CASE ~ \E p \in Panels : HandleRestartReady(t, p)
    BY <1>10, <2>2 DEF Request, HandleRegister, HandleUnregister, RequestStart,
      RequestStop, ResetBegin, AdminStart, AdminStop, ShutdownBegin
  <2> QED BY <2>1, <2>2
<1>11. CASE (\E n \in Procs : Crash(n)) \/ (\E p \in Panels : PanelReady(p))
             \/ UNCHANGED vars
  BY <1>11 DEF Crash, PanelReady, vars
<1> HIDE DEF Fsm!FsmNext
<1> QED
  BY <1>2, <1>3, <1>4, <1>5, <1>6, <1>7, <1>8, <1>9, <1>10, <1>11
  DEF Next, Continue, Tick, Environment

LEMMA FsmTypes ==
  ASSUME Fsm!FsmTypeOK, [Fsm!FsmNext]_restart
  PROVE  Fsm!FsmTypeOK'
<1> USE HubMaxRetryAssumption DEF Fsm!FsmTypeOK, Fsm!Resting, Fsm!RestartState
<1>0. Fsm!Retried \in 0..MaxRetry
  BY DEF Fsm!Retried, Fsm!CanRetry
<1>1. ASSUME NEW S \in SUBSET Procs, NEW P \in SUBSET Requesters,
             Fsm!DetectKilled(S, P)
      PROVE  Fsm!FsmTypeOK'
  BY <1>1 DEF Fsm!DetectKilled
<1>2. CASE Fsm!NotificationsSent
  BY <1>2 DEF Fsm!NotificationsSent
<1>3. ASSUME NEW p \in Requesters, Fsm!PanelAcknowledged(p)
      PROVE  Fsm!FsmTypeOK'
  BY <1>3 DEF Fsm!PanelAcknowledged
<1>4. CASE Fsm!BeginRestart
  BY <1>4 DEF Fsm!BeginRestart
<1>5. ASSUME NEW success \in BOOLEAN, Fsm!RestartCompleted(success)
      PROVE  Fsm!FsmTypeOK'
  BY <1>0, <1>5 DEF Fsm!RestartCompleted
<1>6. CASE Fsm!ResetToIdle
  BY <1>6 DEF Fsm!ResetToIdle
<1>7. CASE Fsm!CheckTimeout \/ Fsm!ForceFail
  BY <1>0, <1>7 DEF Fsm!CheckTimeout, Fsm!ForceFail
<1>8. CASE Fsm!TimeElapses \/ UNCHANGED restart
  BY <1>8 DEF Fsm!TimeElapses, restart
<1> QED
  BY <1>1, <1>2, <1>3, <1>4, <1>5, <1>6, <1>7, <1>8 DEF Fsm!FsmNext

-----------------------------------------------------------------------------
(* Connections, processes, the lock and the clients.                        *)

WorldOK ==
  running \in SUBSET Procs /\ leaked \in SUBSET Procs /\ survived \in SUBSET Procs

\* What is lost with its handle stays lost.
WorldMoves == WorldOK' /\ leaked \subseteq leaked'

\* Whatever the executor answers, it speaks of managed processes.
LEMMA ExecTypes ==
  ASSUME TypeInv, NEW n \in Procs, NEW ok \in BOOLEAN, NEW force \in BOOLEAN,
         ExecStart(n, ok) \/ ExecStop(n, force, ok) \/ Gone(n)
  PROVE  WorldMoves
BY StateTypes DEF ExecStart, ExecStop, Gone, WorldMoves, WorldOK, world

LEMMA WorldStep ==
  ASSUME TypeInv, [Next]_vars
  PROVE  WorldMoves
<1>1. ASSUME NEW t \in Threads,
             \/ UnregisterStop(t) \/ StartRollback(t) \/ RestartStop(t)
             \/ ResetStop(t) \/ ShutdownStop(t)
      PROVE  WorldMoves
  <2>1. PICK n \in frame[t].todo, ok \in BOOLEAN : ExecStop(n, TRUE, ok)
    BY <1>1 DEF UnregisterStop, StartRollback, RestartStop, ResetStop, ShutdownStop
  <2> QED
    BY <2>1, FrameTypes, ExecTypes
<1>2. ASSUME NEW t \in Threads, StartProcess(t)
      PROVE  WorldMoves
  <2>1. PICK n \in frame[t].todo, ok \in BOOLEAN : ExecStart(n, ok) \/ UNCHANGED world
    BY <1>2 DEF StartProcess
  <2> QED
    BY <2>1, FrameTypes, ExecTypes, StateTypes DEF world, WorldMoves, WorldOK
<1>3. ASSUME NEW t \in Threads, RestartStart(t) \/ StopExec(t)
      PROVE  WorldMoves
  <2>1. frame[t].cur \in Procs /\ frame[t].force \in BOOLEAN
    BY <1>3, FrameTypes DEF RestartStart, StopExec, FrameOK
  <2> QED
    BY <1>3, <2>1, ExecTypes DEF RestartStart, StopExec
<1>4. ASSUME NEW t \in Threads, NEW n \in Procs, AdminStart(t, n) \/ AdminStop(t, n)
      PROVE  WorldMoves
  BY <1>4, ExecTypes DEF AdminStart, AdminStop
<1>5. ASSUME NEW n \in Procs, Crash(n)
      PROVE  WorldMoves
  BY <1>5, ExecTypes DEF Crash
<1>6. ASSUME NEW t \in Threads,
             \/ UnregisterRelease(t) \/ UnregisterRemove(t) \/ UnregisterEnd(t)
             \/ StartLock(t) \/ StartRecord(t) \/ StartEnd(t) \/ StopLock(t)
             \/ StopRelease(t) \/ StopEnd(t) \/ RestartBegin(t) \/ RestartRead(t)
             \/ RestartLock(t) \/ RestartRecord(t) \/ RestartUnlock(t)
             \/ RestartCompleted(t) \/ RestartSnapshot(t) \/ RestartReset(t)
             \/ SendDone(t) \/ TimeoutSnapshot(t) \/ TimeoutReset(t) \/ TickHealth(t)
             \/ TickMarkDead(t) \/ TickAffected(t) \/ TickIdle(t) \/ TickDetect(t)
             \/ TickNotify(t) \/ SendNotify(t) \/ ResetLock(t) \/ ResetClear(t)
             \/ ResetConnections(t) \/ ResetFsm(t) \/ RegisterAdminProcess(t)
             \/ UnregisterAdminProcess(t) \/ ShutdownRead(t) \/ ShutdownClear(t)
             \/ ShutdownConnections(t) \/ TransportStop(t) \/ Tick(t)
      PROVE  UNCHANGED world
  BY <1>6 DEF UnregisterRelease, UnregisterRemove, UnregisterEnd, StartLock,
    StartRecord, StartEnd, StopLock, StopRelease, StopEnd, RestartBegin,
    RestartRead, RestartLock, RestartRecord, RestartUnlock, RestartCompleted,
    RestartSnapshot, RestartReset, SendDone, TimeoutSnapshot, TimeoutReset,
    TickHealth, TickMarkDead, TickAffected, TickIdle, TickDetect, TickNotify,
    SendNotify, ResetLock, ResetClear, ResetConnections, ResetFsm,
    RegisterAdminProcess, UnregisterAdminProcess, ShutdownRead, ShutdownClear,
    ShutdownConnections, TransportStop, Tick, TickTimeout, TickActive
<1>7. ASSUME NEW t \in Threads, Request(t),
             ~ \E n \in Procs : AdminStart(t, n) \/ AdminStop(t, n)
      PROVE  UNCHANGED world
  BY <1>7 DEF Request, HandleRegister, HandleUnregister, HandleRestartReady,
    RequestStart, RequestStop, ResetBegin, ShutdownBegin
<1>8. CASE (\E p \in Panels : PanelReady(p)) \/ TimeElapses \/ UNCHANGED vars
  BY <1>8, StateTypes DEF PanelReady, TimeElapses, vars, world, WorldMoves, WorldOK
<1>9. UNCHANGED world => WorldMoves
  BY StateTypes DEF world, WorldMoves, WorldOK
<1> QED
  BY <1>1, <1>2, <1>3, <1>4, <1>5, <1>6, <1>7, <1>8, <1>9
  DEF Next, Continue, Environment

ConnectionsOK ==
  /\ connected \in SUBSET Panels /\ blocked \in SUBSET Panels
  /\ answered \in SUBSET Panels /\ acks \in SUBSET Panels

\* Panels come and go, are told of a restart and answer.
LEMMA ConnectionsStep ==
  ASSUME TypeInv, [Next]_vars
  PROVE  ConnectionsOK'
<1> USE StateTypes DEF ConnectionsOK
<1>1. ASSUME NEW t \in Threads, NEW p \in Panels,
             \/ HandleRegister(t, p) \/ HandleUnregister(t, p)
             \/ HandleRestartReady(t, p)
      PROVE  ConnectionsOK'
  BY <1>1 DEF HandleRegister, HandleUnregister, HandleRestartReady, clients
<1>2. ASSUME NEW t \in Threads,
             \/ ResetConnections(t) \/ ShutdownConnections(t) \/ SendDone(t)
             \/ SendNotify(t) \/ TransportStop(t)
      PROVE  ConnectionsOK'
  BY <1>2 DEF ResetConnections, ShutdownConnections, SendDone, SendNotify,
    TransportStop, clients
<1>3. ASSUME NEW p \in Panels, PanelReady(p)
      PROVE  ConnectionsOK'
  BY <1>3 DEF PanelReady
<1>4. ASSUME NEW t \in Threads,
             \/ UnregisterRelease(t) \/ UnregisterStop(t) \/ UnregisterRemove(t)
             \/ UnregisterEnd(t) \/ StartLock(t) \/ StartProcess(t) \/ StartRecord(t)
             \/ StartRollback(t) \/ StartEnd(t) \/ StopLock(t) \/ StopRelease(t)
             \/ StopExec(t) \/ StopEnd(t) \/ RestartBegin(t) \/ RestartRead(t)
             \/ RestartLock(t) \/ RestartStop(t) \/ RestartStart(t)
             \/ RestartRecord(t) \/ RestartUnlock(t) \/ RestartCompleted(t)
             \/ RestartSnapshot(t) \/ RestartReset(t) \/ TimeoutSnapshot(t)
             \/ TimeoutReset(t) \/ TickHealth(t) \/ TickMarkDead(t)
             \/ TickAffected(t) \/ TickIdle(t) \/ TickDetect(t) \/ TickNotify(t)
             \/ ResetLock(t) \/ ResetStop(t) \/ ResetClear(t) \/ ResetFsm(t)
             \/ RegisterAdminProcess(t) \/ UnregisterAdminProcess(t)
             \/ ShutdownRead(t) \/ ShutdownStop(t) \/ ShutdownClear(t) \/ Tick(t)
      PROVE  UNCHANGED <<connected, clients>>
  BY <1>4 DEF UnregisterRelease, UnregisterStop, UnregisterRemove, UnregisterEnd,
    StartLock, StartProcess, StartRecord, StartRollback, StartEnd, StopLock,
    StopRelease, StopExec, StopEnd, RestartBegin, RestartRead, RestartLock,
    RestartStop, RestartStart, RestartRecord, RestartUnlock, RestartCompleted,
    RestartSnapshot, RestartReset, TimeoutSnapshot, TimeoutReset, TickHealth,
    TickMarkDead, TickAffected, TickIdle, TickDetect, TickNotify, ResetLock,
    ResetStop, ResetClear, ResetFsm, RegisterAdminProcess, UnregisterAdminProcess,
    ShutdownRead, ShutdownStop, ShutdownClear, Tick, TickTimeout, TickActive
<1>5. ASSUME NEW t \in Threads, Request(t),
             ~ \E p \in Panels : \/ HandleRegister(t, p) \/ HandleUnregister(t, p)
                                \/ HandleRestartReady(t, p)
      PROVE  UNCHANGED <<connected, clients>>
  BY <1>5 DEF Request, RequestStart, RequestStop, ResetBegin, AdminStart, AdminStop,
    ShutdownBegin
<1>6. CASE (\E n \in Procs : Crash(n)) \/ TimeElapses \/ UNCHANGED vars
  BY <1>6 DEF Crash, TimeElapses, vars, clients
<1>7. UNCHANGED <<connected, clients>> => ConnectionsOK'
  BY DEF clients
<1> HIDE DEF ConnectionsOK
<1> QED
  BY <1>1, <1>2, <1>3, <1>4, <1>5, <1>6, <1>7 DEF Next, Continue, Environment

-----------------------------------------------------------------------------
(* _operation_lock.                                                         *)

LockOK == LockDiscipline /\ opLock \in Threads \cup {None}

\* A thread stays on its side of the lock, or takes it on entering a section,
\* or gives it back on leaving one.
LEMMA LockGoto ==
  ASSUME TypeInv, LockDiscipline, NEW t \in Threads, NEW label \in Labels, NEW f,
         Goto(t, label, f),
         \/ opLock' = opLock /\ (pc[t] \in LockedSections <=> label \in LockedSections)
         \/ Acquire(t) /\ label \in LockedSections
         \/ Release(t) /\ label \notin LockedSections
  PROVE  LockOK'
<1>1. pc \in [Threads -> Labels] /\ opLock \in Threads \cup {None}
  BY DEF TypeInv, TypeOK
<1>2. pc'[t] = label /\ \A u \in Threads \ {t} : pc'[u] = pc[u]
  BY <1>1 DEF Goto
<1>3. opLock' \in Threads \cup {None}
  BY <1>1 DEF Acquire, Release
<1>4. ASSUME NEW u \in Threads PROVE pc'[u] \in LockedSections <=> opLock' = u
  <2> HIDE DEF LockedSections
  <2>1. CASE u = t
    BY <1>1, <1>2, <2>1, ThreadsAssumption DEF LockDiscipline, Acquire, Release
  <2>2. CASE u # t
    BY <1>1, <1>2, <2>2, ThreadsAssumption DEF LockDiscipline, Acquire, Release
  <2> QED BY <2>1, <2>2
<1> QED
  BY <1>3, <1>4 DEF LockOK, LockDiscipline

LEMMA LockStep ==
  ASSUME TypeInv, LockDiscipline, [Next]_vars
  PROVE  LockOK'
<1> USE LockGoto DEF Labels, LockedSections, Finish
<1>1. ASSUME NEW t \in Threads,
             StartLock(t) \/ StopLock(t) \/ RestartLock(t) \/ ResetLock(t)
      PROVE  LockOK'
  BY <1>1 DEF StartLock, StopLock, RestartLock, ResetLock
<1>2. ASSUME NEW t \in Threads,
             StartEnd(t) \/ StopEnd(t) \/ RestartUnlock(t) \/ ResetClear(t)
      PROVE  LockOK'
  BY <1>2 DEF StartEnd, StopEnd, RestartUnlock, ResetClear
<1>3. ASSUME NEW t \in Threads,
             StartProcess(t) \/ StartRecord(t) \/ StartRollback(t)
      PROVE  LockOK'
  BY <1>3 DEF StartProcess, StartRecord, StartRollback
<1>4. ASSUME NEW t \in Threads, StopRelease(t) \/ StopExec(t)
      PROVE  LockOK'
  BY <1>4 DEF StopRelease, StopExec
<1>5. ASSUME NEW t \in Threads,
             RestartStop(t) \/ RestartStart(t) \/ RestartRecord(t) \/ ResetStop(t)
      PROVE  LockOK'
  BY <1>5 DEF RestartStop, RestartStart, RestartRecord, ResetStop
<1>6. ASSUME NEW t \in Threads,
             \/ UnregisterRelease(t) \/ UnregisterStop(t) \/ UnregisterRemove(t)
             \/ UnregisterEnd(t) 
      PROVE  LockOK'
  BY <1>6 DEF UnregisterRelease, UnregisterStop, UnregisterRemove, UnregisterEnd
<1>7. ASSUME NEW t \in Threads,
             \/ RestartBegin(t) \/ RestartRead(t) \/ RestartCompleted(t)
             \/ RestartSnapshot(t) \/ RestartReset(t) \/ SendDone(t)
      PROVE  LockOK'
  BY <1>7 DEF RestartBegin, RestartRead, RestartCompleted, RestartSnapshot,
    RestartReset, SendDone
<1>8. ASSUME NEW t \in Threads,
             \/ Tick(t) \/ TimeoutSnapshot(t) \/ TimeoutReset(t)
             \/ TickHealth(t) \/ TickMarkDead(t) \/ TickAffected(t) \/ TickIdle(t)
             \/ TickDetect(t) \/ TickNotify(t) \/ SendNotify(t)
      PROVE  LockOK'
  BY <1>8 DEF Tick, TickTimeout, TickActive, TimeoutSnapshot, TimeoutReset,
    TickHealth, TickMarkDead, TickAffected, TickIdle, TickDetect, TickNotify,
    SendNotify
<1>9. ASSUME NEW t \in Threads,
             \/ ResetConnections(t) \/ ResetFsm(t)
             \/ RegisterAdminProcess(t) \/ UnregisterAdminProcess(t)
             \/ ShutdownRead(t) \/ ShutdownStop(t)
             \/ ShutdownClear(t) \/ ShutdownConnections(t)
             \/ TransportStop(t)
      PROVE  LockOK'
  BY <1>9 DEF ResetConnections, ResetFsm, RegisterAdminProcess,
    UnregisterAdminProcess, ShutdownRead, ShutdownStop, ShutdownClear, ShutdownConnections,
    TransportStop
<1>10. UNCHANGED <<opLock, threads>> => LockOK'
  BY StateTypes DEF LockOK, LockDiscipline, threads
<1>11. ASSUME NEW t \in Threads, Request(t)
       PROVE  LockOK'
  BY <1>10, <1>11 DEF Request, HandleRegister, HandleUnregister, HandleRestartReady,
    RequestStart, RequestStop, ResetBegin, AdminStart, AdminStop, ShutdownBegin
<1>12. CASE Environment \/ UNCHANGED vars
  BY <1>10, <1>12 DEF Environment, Crash, PanelReady, TimeElapses, vars, threads
<1> HIDE DEF Labels, LockedSections, Finish
<1> QED
  BY <1>1, <1>2, <1>3, <1>4, <1>5, <1>6, <1>7, <1>8, <1>9, <1>11, <1>12
  DEF Next, Continue

-----------------------------------------------------------------------------
(* The invariant, and what follows from it at once.                         *)

HubInv == TypeInv /\ LockDiscipline

LEMMA HubInit == Init => HubInv
<1> SUFFICES ASSUME Init PROVE HubInv
  OBVIOUS
<1>1. Fsm!FsmTypeOK
  BY HubMaxRetryAssumption
  DEF Init, Fsm!FsmInit, Fsm!FsmTypeOK, Fsm!Resting, Fsm!RestartState
<1>2. TypeOK
  BY <1>1, EmptyType, IdleFrameType DEF Init, TypeOK, Labels
<1>3. FramesOK
  BY DEF Init, FramesOK, FrameOK
<1>4. LockDiscipline
  BY ThreadsAssumption DEF Init, LockDiscipline, LockedSections
<1> QED
  BY <1>2, <1>3, <1>4 DEF HubInv, TypeInv

LEMMA HubStep == HubInv /\ [Next]_vars => HubInv'
<1> SUFFICES ASSUME HubInv, [Next]_vars PROVE HubInv'
  OBVIOUS
<1>0. TypeInv /\ LockDiscipline
  BY DEF HubInv
<1>1. registry' \in Registries
  <2>1. ASSUME NEW t \in Threads, Continue(t) \/ Tick(t) \/ Request(t)
        PROVE  registry' \in Registries
    BY <1>0, <2>1, RegistryStep
  <2>2. CASE Environment \/ UNCHANGED vars
    BY <1>0, <2>2, StateTypes DEF Environment, Crash, PanelReady, TimeElapses, vars
  <2> QED BY <2>1, <2>2 DEF Next
<1>2. Fsm!FsmTypeOK'
  BY <1>0, StateTypes, FsmSteps, FsmTypes
<1>3. WorldOK' /\ ConnectionsOK' /\ ThreadsOK' /\ LockOK'
  BY <1>0, WorldStep, ConnectionsStep, ThreadsStep, LockStep DEF WorldMoves
<1>4. TypeOK'
  BY <1>1, <1>2, <1>3 DEF TypeOK, WorldOK, ConnectionsOK, ThreadsOK, LockOK
<1> QED
  BY <1>3, <1>4 DEF HubInv, TypeInv, ThreadsOK, LockOK

LEMMA HubInvariant == Spec => []HubInv
BY HubInit, HubStep, PTL DEF Spec

\* No handler, tick or command leaves a value of another kind in the hub.
THEOREM HubTyped == Spec => []TypeOK
<1>1. HubInv => TypeOK
  BY DEF HubInv, TypeInv
<1> QED BY <1>1, HubInvariant, PTL

\* _operation_lock: two threads are never inside its sections at the same time,
\* and whoever is inside holds it, on the failure paths too.
THEOREM Locked == Spec => []LockDiscipline
<1>1. HubInv => LockDiscipline
  BY DEF HubInv
<1> QED BY <1>1, HubInvariant, PTL

\* The hub implements its restart FSM, seen as a specification of its own.
THEOREM DrivesFsm == Spec => Fsm!FsmSpec
<1>1. Init => Fsm!FsmInit
  BY DEF Init
<1>2. HubInv /\ [Next]_vars => [Fsm!FsmNext]_(Fsm!fsmVars)
  BY FsmSteps DEF HubInv, restart, Fsm!fsmVars
<1> QED
  BY <1>1, <1>2, HubInvariant, PTL DEF Spec, Fsm!FsmSpec
=============================================================================
