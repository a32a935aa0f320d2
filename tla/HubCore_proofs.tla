---------------------------- MODULE HubCore_proofs ----------------------------
(***************************************************************************)
(* What the hub promises, relative to HubInv of HubCoreTypes_proofs.         *)
(*                                                                          *)
(* For every deployment: a stop request stops only what nobody requires, no  *)
(* process is left behind in STARTING or STOPPING, no round is left without  *)
(* a thread, and the rounds are those of RestartCycle.  Without the          *)
(* dashboard's thread: a failed start leaves nothing running but what        *)
(* survives a kill.  For rounds that nothing cuts off (Undisturbed):         *)
(* answers come before restarts, no panel is forgotten, each phase has its   *)
(* thread, and requesters are connected.                                     *)
(***************************************************************************)
EXTENDS HubCoreTypes_proofs

-----------------------------------------------------------------------------
(* Safe stopping.                                                           *)

\* What a thread does leaves the places of the other threads alone.
OthersStay(t) ==
  \A u \in Threads \ {t} : pc'[u] = pc[u] /\ frame'[u] = frame[u]

LEMMA GotoOthers ==
  ASSUME TypeInv, NEW t \in Threads, NEW label \in Labels, NEW f, Goto(t, label, f)
  PROVE  OthersStay(t) /\ pc'[t] = label /\ frame'[t] = f
BY DEF TypeInv, TypeOK, Goto, OthersStay

\* Requesters only ever leave: all the registry's operations but register.
Shrinks(reg, new) == \A m \in Procs : new[m].users \subseteq reg[m].users

LEMMA ShrinkOps ==
  ASSUME NEW reg \in Registries, NEW n \in Procs, NEW r, NEW s \in ProcessState
  PROVE  /\ Shrinks(reg, Unregister(reg, n, r)) /\ Shrinks(reg, Remove(reg, n))
         /\ Shrinks(reg, WithState(reg, n, s))
         /\ Shrinks(reg, WithState(Unregister(reg, n, r), n, s))
<1> USE DEF Shrinks, Registries, ProcessInfo
<1>1. Shrinks(reg, Unregister(reg, n, r))
  BY DEF Unregister
<1>2. Shrinks(reg, Remove(reg, n))
  BY DEF Remove, NoEntry
<1>3. ASSUME NEW any \in Registries PROVE Shrinks(any, WithState(any, n, s))
  BY DEF WithState, Exists
<1>4. Shrinks(reg, WithState(Unregister(reg, n, r), n, s))
  <2>1. Unregister(reg, n, r) \in Registries
    BY UnregisterType
  <2> HIDE DEF Registries, ProcessInfo
  <2> QED BY <1>1, <1>3, <2>1
<1> QED
  BY <1>1, <1>2, <1>3, <1>4

LEMMA ShrinkAllOps ==
  ASSUME NEW reg \in Registries, NEW r, NEW S
  PROVE  /\ Shrinks(reg, RemoveRequester(reg, r)) /\ Shrinks(reg, MarkDead(reg, S))
         /\ Shrinks(reg, EmptyRegistry)
BY DEF Shrinks, Registries, ProcessInfo, RemoveRequester, MarkDead, NoEntry,
  EmptyRegistry

LEMMA ShrinkStep ==
  ASSUME TypeInv, NEW t \in Threads, Continue(t) \/ Tick(t) \/ Request(t),
         ~StartProcess(t), ~RegisterAdminProcess(t)
  PROVE  Shrinks(registry, registry')
<1> DEFINE f == frame[t]
<1>r. registry \in Registries /\ f \in Frame /\ FrameOK(pc[t], f)
  BY StateTypes, FrameTypes
<1>0. UNCHANGED registry => Shrinks(registry, registry')
  BY DEF Shrinks
<1>1. CASE UnregisterRelease(t)
  BY <1>r, <1>1, ShrinkAllOps DEF UnregisterRelease
<1>2. CASE UnregisterRemove(t)
  BY <1>r, <1>2, ShrinkOps DEF UnregisterRemove, FrameOK, ProcessState
<1>3. CASE StartRecord(t)
  BY <1>r, <1>3, ShrinkOps DEF StartRecord, FrameOK, ProcessState
<1>4. CASE StartRollback(t)
  <2>1. PICK n \in f.todo : registry' = WithState(registry, n, "STOPPED")
    BY <1>4 DEF StartRollback
  <2> QED
    BY <1>r, <2>1, WorkType, ShrinkOps DEF ProcessState
<1>5. CASE StartEnd(t)
  <2>1. pc[t] = "start_rollback" => f.cur \in Procs
    BY <1>r DEF FrameOK
  <2> QED
    BY <1>r, <1>0, <1>5, <2>1, ShrinkOps DEF StartEnd, ProcessState
<1>6. CASE StopRelease(t)
  <2>1. PICK n \in f.todo :
          \/ registry' = WithState(Unregister(registry, n, f.who), n, "STOPPING")
          \/ registry' = Unregister(registry, n, f.who)
    BY <1>6 DEF StopRelease
  <2> QED
    BY <1>r, <2>1, WorkType, ShrinkOps DEF ProcessState
<1>7. CASE StopExec(t)
  BY <1>r, <1>0, <1>7, ShrinkOps DEF StopExec, FrameOK, ProcessState
<1>8. CASE RestartRecord(t)
  BY <1>r, <1>8, ShrinkOps DEF RestartRecord, FrameOK, ProcessState
<1>9. CASE TickMarkDead(t)
  BY <1>r, <1>9, ShrinkAllOps DEF TickMarkDead
<1>10. CASE ResetClear(t) \/ ShutdownClear(t)
  BY <1>r, <1>10, ShrinkAllOps DEF ResetClear, ShutdownClear
<1>11. CASE UnregisterAdminProcess(t)
  BY <1>r, <1>11, ShrinkOps DEF UnregisterAdminProcess, FrameOK, ProcessState
<1>12. CASE RegistryUntouched(t)
  BY <1>0, <1>12, RegistryUnchanged
<1> QED
  BY <1>1, <1>2, <1>3, <1>4, <1>5, <1>6, <1>7, <1>8, <1>9, <1>10, <1>11, <1>12
  DEF Continue, RegistryUntouched

Elsewhere(t) == OthersStay(t) /\ pc'[t] # "stop_exec"

LEMMA GotoElsewhere ==
  ASSUME TypeInv, NEW t \in Threads, NEW label \in Labels, NEW f,
         Goto(t, label, f), label # "stop_exec"
  PROVE  Elsewhere(t)
BY GotoOthers DEF Elsewhere

\* A thread moves only itself, and gets to the stop of a stop request only by
\* releasing the process first.
LEMMA OneThread ==
  ASSUME TypeInv, NEW t \in Threads, Continue(t) \/ Tick(t) \/ Request(t)
  PROVE  Elsewhere(t) \/ (StopRelease(t) /\ OthersStay(t))
<1> USE GotoElsewhere DEF Finish, Labels, LockedSections
<1>1. CASE StopRelease(t)
  BY <1>1, GotoOthers DEF StopRelease
<1>2. CASE \/ StartLock(t) \/ StartProcess(t) \/ StartRecord(t)
           \/ StartRollback(t) \/ StartEnd(t)
  BY <1>2 DEF StartLock, StartProcess, StartRecord, StartRollback, StartEnd
<1>3. CASE StopLock(t) \/ StopExec(t) \/ StopEnd(t)
  BY <1>3 DEF StopLock, StopExec, StopEnd
<1>4. CASE \/ UnregisterRelease(t) \/ UnregisterStop(t) \/ UnregisterRemove(t)
           \/ UnregisterEnd(t)
  BY <1>4 DEF UnregisterRelease, UnregisterStop, UnregisterRemove, UnregisterEnd
<1>5. CASE \/ RestartBegin(t) \/ RestartRead(t) \/ RestartLock(t) \/ RestartStop(t)
           \/ RestartStart(t) \/ RestartRecord(t) \/ RestartUnlock(t)
           \/ RestartCompleted(t) \/ RestartSnapshot(t) \/ RestartReset(t)
           \/ SendDone(t)
  BY <1>5 DEF RestartBegin, RestartRead, RestartLock, RestartStop, RestartStart,
    RestartRecord, RestartUnlock, RestartCompleted, RestartSnapshot, RestartReset,
    SendDone
<1>6. CASE \/ Tick(t) \/ TimeoutSnapshot(t) \/ TimeoutReset(t)
           \/ TickHealth(t) \/ TickMarkDead(t) \/ TickAffected(t) \/ TickIdle(t)
           \/ TickDetect(t) \/ TickNotify(t) \/ SendNotify(t)
  BY <1>6 DEF Tick, TickTimeout, TickActive, TimeoutSnapshot, TimeoutReset,
    TickHealth, TickMarkDead, TickAffected, TickIdle, TickDetect, TickNotify,
    SendNotify
<1>7. CASE \/ ResetLock(t) \/ ResetStop(t) \/ ResetClear(t) \/ ResetConnections(t)
           \/ ResetFsm(t) \/ RegisterAdminProcess(t) \/ UnregisterAdminProcess(t)
           \/ ShutdownRead(t) \/ ShutdownStop(t) \/ ShutdownClear(t)
           \/ ShutdownConnections(t) \/ TransportStop(t)
  BY <1>7 DEF ResetLock, ResetStop, ResetClear, ResetConnections, ResetFsm,
    RegisterAdminProcess, UnregisterAdminProcess, ShutdownRead, ShutdownStop, ShutdownClear,
    ShutdownConnections, TransportStop
<1>8. CASE Request(t)
  <2>1. pc[t] = "idle" /\ UNCHANGED threads => Elsewhere(t)
    BY DEF threads, OthersStay, Elsewhere
  <2> QED
    BY <1>8, <2>1 DEF Request, HandleRegister, HandleUnregister,
      HandleRestartReady, RequestStart, RequestStop, ResetBegin, AdminStart,
      AdminStop, ShutdownBegin
<1> QED
  BY <1>1, <1>2, <1>3, <1>4, <1>5, <1>6, <1>7, <1>8 DEF Continue

LEMMA ReleaseLeavesNobody ==
  ASSUME TypeInv, NEW t \in Threads, StopRelease(t),
         pc'[t] = "stop_exec", ~frame'[t].force
  PROVE  registry'[frame'[t].cur].users = {}
<1> DEFINE f == frame[t]
<1>1. registry \in Registries /\ f \in Frame
  BY StateTypes, FrameTypes
<1>2. PICK n \in f.todo :
        \/ /\ CanStop(registry, n, f.who) \/ f.force
           /\ registry' = WithState(Unregister(registry, n, f.who), n, "STOPPING")
           /\ Goto(t, "stop_exec", Working(f, n))
        \/ Goto(t, "stop", Without(f, n))
  BY DEF StopRelease
<1>3. n \in Procs
  BY <1>1, WorkType
<1>4. /\ frame'[t] = Working(f, n)
      /\ CanStop(registry, n, f.who) \/ f.force
      /\ registry' = WithState(Unregister(registry, n, f.who), n, "STOPPING")
  BY <1>2, GotoOthers DEF Labels, LockedSections
<1>5. frame'[t].cur = n /\ frame'[t].force = f.force
  BY <1>1, <1>4 DEF Working, Frame
<1>6. Unregister(registry, n, f.who)[n].users = {}
  BY <1>4, <1>5 DEF CanStop
<1>7. Unregister(registry, n, f.who) \in Registries
  BY <1>1, <1>3, UnregisterType
<1>8. registry'[n].users \subseteq {}
  BY <1>3, <1>4, <1>6, <1>7, ShrinkOps DEF Shrinks, ProcessState
<1> QED
  BY <1>5, <1>8

\* handle_stop_request stops a process without force only when nobody requires
\* it, and nobody can come to require it before it is stopped: whoever becomes a
\* requester holds _operation_lock.
THEOREM SafeStopping == Spec => []NeededNotStopped
<1>1. Init => NeededNotStopped
  BY DEF Init, NeededNotStopped
<1>2. HubInv /\ NeededNotStopped /\ [Next]_vars => NeededNotStopped'
  <2> SUFFICES ASSUME HubInv, NeededNotStopped, [Next]_vars,
                      NEW u \in Threads, pc'[u] = "stop_exec", ~frame'[u].force
               PROVE  registry'[frame'[u].cur].users = {}
    BY DEF NeededNotStopped
  <2>0. TypeInv /\ LockDiscipline
    BY DEF HubInv
  <2>1. ASSUME NEW t \in Threads, Continue(t) \/ Tick(t) \/ Request(t), u # t
        PROVE  registry'[frame'[u].cur].users = {}
    <3>1. pc[u] = "stop_exec" /\ frame'[u] = frame[u] /\ opLock = u
      BY <2>0, <2>1, OneThread DEF Elsewhere, OthersStay, LockDiscipline, LockedSections
    <3>2. frame[u].cur \in Procs /\ registry[frame[u].cur].users = {}
      BY <2>0, <3>1, FrameTypes DEF FrameOK, NeededNotStopped
    <3>3. ~StartProcess(t) /\ ~RegisterAdminProcess(t)
      BY <2>0, <2>1, <3>1, ThreadsAssumption
      DEF StartProcess, RegisterAdminProcess, LockDiscipline, LockedSections
    <3>4. Shrinks(registry, registry')
      BY <2>0, <2>1, <3>3, ShrinkStep
    <3> QED BY <3>1, <3>2, <3>4 DEF Shrinks
  <2>2. ASSUME Continue(u) \/ Tick(u) \/ Request(u)
        PROVE  registry'[frame'[u].cur].users = {}
    BY <2>0, <2>2, OneThread, ReleaseLeavesNobody DEF Elsewhere
  <2>3. CASE Environment \/ UNCHANGED vars
    <3>1. UNCHANGED <<registry, threads>>
      BY <2>3 DEF Environment, Crash, PanelReady, TimeElapses, vars
    <3> QED BY <3>1 DEF threads, NeededNotStopped
  <2> QED BY <2>1, <2>2, <2>3 DEF Next
<1> QED
  BY <1>1, <1>2, HubInvariant, PTL DEF Spec

-----------------------------------------------------------------------------
(* No process is left behind in STARTING.                                   *)

\* No entry gets into STARTING: all the registry's operations but the
\* update_state of a start request.
NoneEnters(reg, new) ==
  \A m \in Procs : new[m].state = "STARTING" => reg[m].state = "STARTING"

LEMMA NoneEntersOps ==
  ASSUME NEW reg \in Registries, NEW n \in Procs, NEW r,
         NEW s \in ProcessState \ {"STARTING"}
  PROVE  /\ NoneEnters(reg, Unregister(reg, n, r)) /\ NoneEnters(reg, Remove(reg, n))
         /\ NoneEnters(reg, WithState(reg, n, s))
         /\ WithState(reg, n, s)[n].state # "STARTING"
         /\ NoneEnters(reg, WithState(Unregister(reg, n, r), n, s))
<1> USE DEF NoneEnters, Registries, ProcessInfo, Absent
<1>1. NoneEnters(reg, Unregister(reg, n, r))
  BY DEF Unregister
<1>2. NoneEnters(reg, Remove(reg, n))
  BY DEF Remove, NoEntry
<1>3. ASSUME NEW any \in Registries
      PROVE  /\ NoneEnters(any, WithState(any, n, s))
             /\ WithState(any, n, s)[n].state # "STARTING"
  BY DEF WithState, Exists
<1>4. NoneEnters(reg, WithState(Unregister(reg, n, r), n, s))
  <2>1. Unregister(reg, n, r) \in Registries
    BY UnregisterType
  <2> HIDE DEF Registries, ProcessInfo
  <2> QED BY <1>1, <1>3, <2>1
<1> QED
  BY <1>1, <1>2, <1>3, <1>4

LEMMA NoneEntersAllOps ==
  ASSUME NEW reg \in Registries, NEW r, NEW S
  PROVE  /\ NoneEnters(reg, RemoveRequester(reg, r))
         /\ NoneEnters(reg, MarkDead(reg, S)) /\ NoneEnters(reg, EmptyRegistry)
BY DEF NoneEnters, Registries, ProcessInfo, RemoveRequester, MarkDead, NoEntry,
  EmptyRegistry, Absent

LEMMA NoneEntersStep ==
  ASSUME TypeInv, NEW t \in Threads, Continue(t) \/ Tick(t) \/ Request(t),
         ~StartProcess(t)
  PROVE  NoneEnters(registry, registry')
<1> DEFINE f == frame[t]
<1>r. registry \in Registries /\ f \in Frame /\ FrameOK(pc[t], f)
  BY StateTypes, FrameTypes
<1>0. UNCHANGED registry => NoneEnters(registry, registry')
  BY DEF NoneEnters
<1>1. CASE UnregisterRelease(t)
  BY <1>r, <1>1, NoneEntersAllOps DEF UnregisterRelease
<1>2. CASE UnregisterRemove(t)
  BY <1>r, <1>2, NoneEntersOps DEF UnregisterRemove, FrameOK, ProcessState
<1>3. CASE StartRecord(t)
  BY <1>r, <1>3, NoneEntersOps DEF StartRecord, FrameOK, ProcessState
<1>4. CASE StartRollback(t)
  <2>1. PICK n \in f.todo : registry' = WithState(registry, n, "STOPPED")
    BY <1>4 DEF StartRollback
  <2> QED
    BY <1>r, <2>1, WorkType, NoneEntersOps DEF ProcessState
<1>5. CASE StartEnd(t)
  <2>1. pc[t] = "start_rollback" => f.cur \in Procs
    BY <1>r DEF FrameOK
  <2> QED
    BY <1>r, <1>0, <1>5, <2>1, NoneEntersOps DEF StartEnd, ProcessState
<1>6. CASE StopRelease(t)
  <2>1. PICK n \in f.todo :
          \/ registry' = WithState(Unregister(registry, n, f.who), n, "STOPPING")
          \/ registry' = Unregister(registry, n, f.who)
    BY <1>6 DEF StopRelease
  <2> QED
    BY <1>r, <2>1, WorkType, NoneEntersOps DEF ProcessState
<1>7. CASE StopExec(t)
  BY <1>r, <1>0, <1>7, NoneEntersOps DEF StopExec, FrameOK, ProcessState
<1>8. CASE RestartRecord(t)
  BY <1>r, <1>8, NoneEntersOps DEF RestartRecord, FrameOK, ProcessState
<1>9. CASE TickMarkDead(t)
  BY <1>r, <1>9, NoneEntersAllOps DEF TickMarkDead
<1>10. CASE ResetClear(t) \/ ShutdownClear(t)
  BY <1>r, <1>10, NoneEntersAllOps DEF ResetClear, ShutdownClear
<1>11. CASE UnregisterAdminProcess(t)
  BY <1>r, <1>11, NoneEntersOps DEF UnregisterAdminProcess, FrameOK, ProcessState
<1>12. CASE RegisterAdminProcess(t)
  <2> DEFINE reg == Register(registry, f.cur, AdminPanel)
  <2>1. f.cur \in Procs
    BY <1>r, <1>12 DEF RegisterAdminProcess, FrameOK
  <2>2. reg \in Registries
    BY <1>r, <2>1, RegisterType DEF Requesters
  <2>3. NoneEnters(registry, reg)
    BY <1>r, <2>1 DEF NoneEnters, Register, Exists, Registries, ProcessInfo
  <2>4. registry' = registry \/ registry' = WithState(reg, f.cur, "RUNNING")
    BY <1>12 DEF RegisterAdminProcess
  <2> HIDE DEF reg
  <2>5. NoneEnters(reg, WithState(reg, f.cur, "RUNNING"))
    BY <2>1, <2>2, NoneEntersOps DEF ProcessState
  <2> QED
    BY <2>3, <2>4, <2>5 DEF NoneEnters
<1>13. CASE RegistryUntouched(t)
  BY <1>0, <1>13, RegistryUnchanged
<1> QED
  BY <1>1, <1>2, <1>3, <1>4, <1>5, <1>6, <1>7, <1>8, <1>9, <1>10, <1>11, <1>12,
     <1>13
  DEF Continue, RegistryUntouched

\* start_record is left by StartRecord only.
LEMMA RecordOnly ==
  ASSUME NEW t \in Threads, Continue(t) \/ Tick(t) \/ Request(t),
         pc[t] = "start_record"
  PROVE  StartRecord(t)
BY DEF Continue, Tick, Request, UnregisterRelease, UnregisterStop,
  UnregisterRemove, UnregisterEnd, StartLock, StartProcess, StartRollback,
  StartEnd, StopLock, StopRelease, StopExec, StopEnd, RestartBegin, RestartRead,
  RestartLock, RestartStop, RestartStart, RestartRecord, RestartUnlock,
  RestartCompleted, RestartSnapshot, RestartReset, SendDone, TimeoutSnapshot,
  TimeoutReset, TickHealth, TickMarkDead, TickAffected, TickIdle, TickDetect,
  TickNotify, SendNotify, ResetLock, ResetStop, ResetClear, ResetConnections,
  ResetFsm, RegisterAdminProcess, UnregisterAdminProcess, ShutdownRead, ShutdownStop,
  ShutdownClear, ShutdownConnections, TransportStop, TickTimeout, TickActive,
  HandleRegister, HandleUnregister, HandleRestartReady, RequestStart, RequestStop,
  ResetBegin, AdminStart, AdminStop, ShutdownBegin

\* Whichever process a start request takes up is the only one that gets into
\* STARTING, and the request is then about to record how the start went.
LEMMA StartedOne ==
  ASSUME TypeInv, NEW t \in Threads, StartProcess(t),
         NEW m \in Procs, registry'[m].state = "STARTING"
  PROVE  \/ registry[m].state = "STARTING"
         \/ pc'[t] = "start_record" /\ frame'[t].cur = m
<1> DEFINE f == frame[t]
<1>1. registry \in Registries /\ f \in Frame /\ f.who \in Requesters
  BY StateTypes, FrameTypes DEF StartProcess, FrameOK
<1>2. PICK n \in f.todo, ok \in BOOLEAN :
        LET reg == WithState(Register(registry, n, f.who), n, "STARTING") IN
        /\ registry' = reg
        /\ IF Exists(registry, n) /\ reg[n].state = "RUNNING"
           THEN Goto(t, "start", Without(f, n)) /\ UNCHANGED world
           ELSE /\ ExecStart(n, ok)
                /\ Goto(t, "start_record", [Working(f, n) EXCEPT !.ok = ok])
  BY DEF StartProcess
<1>3. n \in Procs /\ Register(registry, n, f.who) \in Registries
  BY <1>1, WorkType, RegisterType
<1>4. Register(registry, n, f.who)[n].state # Absent
  BY <1>1, <1>3 DEF Register, Exists, Registries, ProcessInfo, Absent
<1>5. WithState(Register(registry, n, f.who), n, "STARTING")[n].state = "STARTING"
  BY <1>3, <1>4 DEF WithState, Exists, Registries, ProcessInfo
<1> DEFINE g == [Working(f, n) EXCEPT !.ok = ok]
<1>6. Goto(t, "start_record", g)
  BY <1>2, <1>5
<1>7. g.cur = n
  BY <1>1, WorkType DEF Frame
<1>8. pc'[t] = "start_record" /\ frame'[t].cur = n
  <2> HIDE DEF g
  <2> QED BY <1>6, <1>7, GotoOthers DEF Labels, LockedSections
<1>9. m # n => registry'[m] = registry[m]
  BY <1>1, <1>2, <1>3 DEF WithState, Register, Exists, Registries, ProcessInfo
<1> QED
  BY <1>8, <1>9

\* handle_start_request records the outcome of every start it tries: an entry in
\* STARTING, which register_admin_process refuses to touch, is being started.
THEOREM NoneLeftStarting == Spec => []StartingInProgress
<1>1. Init => StartingInProgress
  BY DEF Init, StartingInProgress, EmptyRegistry, NoEntry, Absent
<1>2. HubInv /\ StartingInProgress /\ [Next]_vars => StartingInProgress'
  <2> SUFFICES ASSUME HubInv, StartingInProgress, [Next]_vars,
                      NEW m \in Procs, registry'[m].state = "STARTING"
               PROVE  \E t \in Threads : pc'[t] = "start_record" /\ frame'[t].cur = m
    BY DEF StartingInProgress
  <2>0. TypeInv
    BY DEF HubInv
  <2>1. ASSUME NEW t \in Threads, Continue(t) \/ Tick(t) \/ Request(t),
               registry[m].state = "STARTING"
        PROVE  \E u \in Threads : pc'[u] = "start_record" /\ frame'[u].cur = m
    <3>1. PICK u \in Threads : pc[u] = "start_record" /\ frame[u].cur = m
      BY <2>1 DEF StartingInProgress
    <3>2. CASE u = t
      <4>1. StartRecord(t)
        BY <2>1, <3>1, <3>2, RecordOnly
      <4>2. registry'[m].state # "STARTING"
        BY <2>0, <3>1, <3>2, <4>1, StateTypes, NoneEntersOps
        DEF StartRecord, ProcessState
      <4> QED BY <4>2
    <3>3. CASE u # t
      BY <2>0, <2>1, <3>1, <3>3, OneThread DEF Elsewhere, OthersStay
    <3> QED BY <3>2, <3>3
  <2>2. ASSUME NEW t \in Threads, Continue(t) \/ Tick(t) \/ Request(t),
               registry[m].state # "STARTING"
        PROVE  \E u \in Threads : pc'[u] = "start_record" /\ frame'[u].cur = m
    <3>1. StartProcess(t)
      BY <2>0, <2>2, NoneEntersStep DEF NoneEnters
    <3> QED BY <2>0, <2>2, <3>1, StartedOne
  <2>3. CASE Environment \/ UNCHANGED vars
    <3>1. UNCHANGED <<registry, threads>>
      BY <2>3 DEF Environment, Crash, PanelReady, TimeElapses, vars
    <3> QED BY <3>1 DEF threads, StartingInProgress
  <2> QED BY <2>1, <2>2, <2>3 DEF Next
<1> QED
  BY <1>1, <1>2, HubInvariant, PTL DEF Spec

-----------------------------------------------------------------------------
(* No process is left behind in STOPPING, unless a failed stop left it there. *)

\* No entry gets into STOPPING, and nobody joins one that is in it: all the
\* registry's operations but the update_state of a stop request.
NoneStops(reg, new) ==
  \A m \in Procs : new[m].state = "STOPPING" =>
    reg[m].state = "STOPPING" /\ new[m].users \subseteq reg[m].users

LEMMA NoneStopsOps ==
  ASSUME NEW reg \in Registries, NEW n \in Procs, NEW r,
         NEW s \in ProcessState \ {"STOPPING"}
  PROVE  /\ NoneStops(reg, Unregister(reg, n, r)) /\ NoneStops(reg, Remove(reg, n))
         /\ NoneStops(reg, WithState(reg, n, s))
         /\ NoneStops(reg, WithState(Unregister(reg, n, r), n, s))
         /\ Remove(reg, n)[n].state # "STOPPING"
<1> USE DEF NoneStops, Registries, ProcessInfo, Absent
<1>1. NoneStops(reg, Unregister(reg, n, r))
  BY DEF Unregister
<1>2. NoneStops(reg, Remove(reg, n)) /\ Remove(reg, n)[n].state # "STOPPING"
  BY DEF Remove, NoEntry
<1>3. ASSUME NEW any \in Registries PROVE NoneStops(any, WithState(any, n, s))
  BY DEF WithState, Exists
<1>4. NoneStops(reg, WithState(Unregister(reg, n, r), n, s))
  <2>1. Unregister(reg, n, r) \in Registries
    BY UnregisterType
  <2>2. NoneStops(Unregister(reg, n, r), WithState(Unregister(reg, n, r), n, s))
    BY <1>3, <2>1
  <2> HIDE DEF Registries, ProcessInfo
  <2> QED BY <1>1, <2>2
<1> QED
  BY <1>1, <1>2, <1>3, <1>4

\* Who registers with an entry takes it to another state at once.
LEMMA RegisterLeaves ==
  ASSUME NEW reg \in Registries, NEW n \in Procs, NEW r \in Requesters,
         NEW s \in ProcessState \ {"STOPPING"}
  PROVE  NoneStops(reg, WithState(Register(reg, n, r), n, s))
BY DEF NoneStops, Registries, ProcessInfo, Absent, Register, WithState, Exists

LEMMA NoneStopsAllOps ==
  ASSUME NEW reg \in Registries, NEW r, NEW S
  PROVE  /\ NoneStops(reg, RemoveRequester(reg, r))
         /\ NoneStops(reg, MarkDead(reg, S)) /\ NoneStops(reg, EmptyRegistry)
BY DEF NoneStops, Registries, ProcessInfo, RemoveRequester, MarkDead, NoEntry,
  EmptyRegistry, Absent

LEMMA NoneStopsStep ==
  ASSUME TypeInv, NEW t \in Threads, Continue(t) \/ Tick(t) \/ Request(t),
         ~StopRelease(t)
  PROVE  NoneStops(registry, registry')
<1> DEFINE f == frame[t]
<1>r. registry \in Registries /\ f \in Frame /\ FrameOK(pc[t], f)
  BY StateTypes, FrameTypes
<1>0. UNCHANGED registry => NoneStops(registry, registry')
  BY DEF NoneStops
<1>1. CASE UnregisterRelease(t)
  BY <1>r, <1>1, NoneStopsAllOps DEF UnregisterRelease
<1>2. CASE UnregisterRemove(t)
  BY <1>r, <1>2, NoneStopsOps DEF UnregisterRemove, FrameOK, ProcessState
<1>3. CASE StartProcess(t)
  <2>1. PICK n \in f.todo :
          registry' = WithState(Register(registry, n, f.who), n, "STARTING")
    BY <1>3 DEF StartProcess
  <2>2. f.who \in Requesters /\ n \in Procs
    BY <1>r, <1>3, WorkType DEF StartProcess, FrameOK
  <2> QED
    BY <1>r, <2>1, <2>2, RegisterLeaves DEF ProcessState
<1>4. CASE StartRecord(t)
  BY <1>r, <1>4, NoneStopsOps DEF StartRecord, FrameOK, ProcessState
<1>5. CASE StartRollback(t)
  <2>1. PICK n \in f.todo : registry' = WithState(registry, n, "STOPPED")
    BY <1>5 DEF StartRollback
  <2> QED
    BY <1>r, <2>1, WorkType, NoneStopsOps DEF ProcessState
<1>6. CASE StartEnd(t)
  <2>1. pc[t] = "start_rollback" => f.cur \in Procs
    BY <1>r DEF FrameOK
  <2> QED
    BY <1>r, <1>0, <1>6, <2>1, NoneStopsOps DEF StartEnd, ProcessState
<1>7. CASE StopExec(t)
  BY <1>r, <1>0, <1>7, NoneStopsOps DEF StopExec, FrameOK, ProcessState
<1>8. CASE RestartRecord(t)
  BY <1>r, <1>8, NoneStopsOps DEF RestartRecord, FrameOK, ProcessState
<1>9. CASE TickMarkDead(t)
  BY <1>r, <1>9, NoneStopsAllOps DEF TickMarkDead
<1>10. CASE ResetClear(t) \/ ShutdownClear(t)
  BY <1>r, <1>10, NoneStopsAllOps DEF ResetClear, ShutdownClear
<1>11. CASE UnregisterAdminProcess(t)
  BY <1>r, <1>11, NoneStopsOps DEF UnregisterAdminProcess, FrameOK, ProcessState
<1>12. CASE RegisterAdminProcess(t)
  BY <1>r, <1>0, <1>12, RegisterLeaves
  DEF RegisterAdminProcess, FrameOK, Requesters, ProcessState
<1>13. CASE RegistryUntouched(t)
  BY <1>0, <1>13, RegistryUnchanged
<1> QED
  BY <1>1, <1>2, <1>3, <1>4, <1>5, <1>6, <1>7, <1>8, <1>9, <1>10, <1>11, <1>12,
     <1>13
  DEF Continue, RegistryUntouched

\* stop_exec is left by StopExec only.
LEMMA StopExecOnly ==
  ASSUME NEW t \in Threads, Continue(t) \/ Tick(t) \/ Request(t),
         pc[t] = "stop_exec"
  PROVE  StopExec(t)
BY DEF Continue, Tick, Request, UnregisterRelease, UnregisterStop,
  UnregisterRemove, UnregisterEnd, StartLock, StartProcess, StartRecord, StartRollback,
  StartEnd, StopLock, StopRelease, StopEnd, RestartBegin, RestartRead,
  RestartLock, RestartStop, RestartStart, RestartRecord, RestartUnlock,
  RestartCompleted, RestartSnapshot, RestartReset, SendDone, TimeoutSnapshot,
  TimeoutReset, TickHealth, TickMarkDead, TickAffected, TickIdle, TickDetect,
  TickNotify, SendNotify, ResetLock, ResetStop, ResetClear, ResetConnections,
  ResetFsm, RegisterAdminProcess, UnregisterAdminProcess, ShutdownRead, ShutdownStop,
  ShutdownClear, ShutdownConnections, TransportStop, TickTimeout, TickActive,
  HandleRegister, HandleUnregister, HandleRestartReady, RequestStart, RequestStop,
  ResetBegin, AdminStart, AdminStop, ShutdownBegin

\* A stop request takes one process into STOPPING, and is then about to stop it.
LEMMA StoppedOne ==
  ASSUME TypeInv, NEW t \in Threads, StopRelease(t),
         NEW m \in Procs, registry'[m].state = "STOPPING"
  PROVE  \/ registry[m].state = "STOPPING" /\ registry'[m].users \subseteq registry[m].users
         \/ pc'[t] = "stop_exec" /\ frame'[t].cur = m
<1> DEFINE f == frame[t]
<1>1. registry \in Registries /\ f \in Frame
  BY StateTypes, FrameTypes
<1>2. PICK n \in f.todo :
        \/ /\ registry' = WithState(Unregister(registry, n, f.who), n, "STOPPING")
           /\ Goto(t, "stop_exec", Working(f, n))
        \/ registry' = Unregister(registry, n, f.who)
  BY DEF StopRelease
<1>3. n \in Procs
  BY <1>1, WorkType
<1>4. CASE registry' = Unregister(registry, n, f.who)
  <2>1. "RUNNING" \in ProcessState \ {"STOPPING"}
    BY DEF ProcessState
  <2>2. NoneStops(registry, registry')
    BY <1>1, <1>3, <1>4, <2>1, NoneStopsOps
  <2> QED
    BY <2>2 DEF NoneStops
<1>5. CASE /\ registry' = WithState(Unregister(registry, n, f.who), n, "STOPPING")
           /\ Goto(t, "stop_exec", Working(f, n))
  <2>1. pc'[t] = "stop_exec" /\ frame'[t].cur = n
    <3>1. frame'[t] = Working(f, n) /\ pc'[t] = "stop_exec"
      BY <1>5, GotoOthers DEF Labels, LockedSections
    <3> QED BY <1>1, <3>1, WorkType
  <2>2. m # n => registry'[m] = registry[m]
    BY <1>1, <1>3, <1>5 DEF WithState, Unregister, Exists, Registries, ProcessInfo
  <2> QED BY <2>1, <2>2
<1> QED
  BY <1>2, <1>4, <1>5

\* Nobody requires m, or an instance of it has been lost.
GivenUp(m) == ~SimpleExecutor /\ (registry[m].users = {} \/ m \in leaked)

\* The stop itself removes the entry, or has failed, which SimpleExecutor never tells,
\* for a process that nobody requires or with the loss of its handle.
LEMMA StopExecLeaves ==
  ASSUME TypeInv, NeededNotStopped, NEW t \in Threads, StopExec(t),
         NEW m \in Procs, m = frame[t].cur, registry'[m].state = "STOPPING"
  PROVE  GivenUp(m)'
<1>1. registry \in Registries
  BY StateTypes
<1>2. PICK ok \in BOOLEAN :
        /\ ExecStop(m, frame[t].force, ok)
        /\ registry' = IF ok THEN Remove(registry, m) ELSE registry
  BY DEF StopExec
<1>3. ~ok
  BY <1>1, <1>2, NoneStopsOps DEF ProcessState
<1>4. ~SimpleExecutor /\ registry' = registry /\ (~frame[t].force \/ m \in leaked')
  BY <1>2, <1>3 DEF ExecStop
<1>5. ~frame[t].force => registry[m].users = {}
  BY DEF NeededNotStopped, StopExec
<1> QED
  BY <1>4, <1>5 DEF GivenUp

LEMMA StoppingStep ==
  HubInv /\ NeededNotStopped /\ StoppingInProgress /\ [Next]_vars => StoppingInProgress'
<1> SUFFICES ASSUME HubInv, NeededNotStopped, StoppingInProgress, [Next]_vars,
                    NEW m \in Procs, registry'[m].state = "STOPPING"
             PROVE  \/ \E u \in Threads : pc'[u] = "stop_exec" /\ frame'[u].cur = m
                    \/ GivenUp(m)'
  BY DEF StoppingInProgress, GivenUp
<1>0. TypeInv /\ leaked \subseteq leaked'
  BY WorldStep DEF HubInv, WorldMoves
<1>1. ASSUME NEW t \in Threads, Continue(t) \/ Tick(t) \/ Request(t),
             registry[m].state = "STOPPING", registry'[m].users \subseteq registry[m].users
      PROVE  \/ \E u \in Threads : pc'[u] = "stop_exec" /\ frame'[u].cur = m
             \/ GivenUp(m)'
  <2>1. CASE GivenUp(m)
    BY <1>0, <1>1, <2>1 DEF GivenUp
  <2>2. CASE \E u \in Threads : pc[u] = "stop_exec" /\ frame[u].cur = m
    <3>1. PICK u \in Threads : pc[u] = "stop_exec" /\ frame[u].cur = m
      BY <2>2
    <3>2. CASE u = t
      BY <1>0, <1>1, <3>1, <3>2, StopExecOnly, StopExecLeaves
    <3>3. CASE u # t
      BY <1>0, <1>1, <3>1, <3>3, OneThread DEF Elsewhere, OthersStay
    <3> QED BY <3>2, <3>3
  <2> QED
    BY <1>1, <2>1, <2>2 DEF StoppingInProgress, GivenUp
<1>2. ASSUME NEW t \in Threads, Continue(t) \/ Tick(t) \/ Request(t)
      PROVE  \/ \E u \in Threads : pc'[u] = "stop_exec" /\ frame'[u].cur = m
             \/ GivenUp(m)'
  <2>1. CASE StopRelease(t)
    BY <1>0, <1>1, <1>2, <2>1, StoppedOne
  <2>2. CASE ~StopRelease(t)
    <3>1. registry[m].state = "STOPPING" /\ registry'[m].users \subseteq registry[m].users
      BY <1>0, <1>2, <2>2, NoneStopsStep DEF NoneStops
    <3> QED BY <1>1, <1>2, <3>1
  <2> QED BY <2>1, <2>2
<1>3. CASE Environment \/ UNCHANGED vars
  <2>1. UNCHANGED <<registry, threads>>
    BY <1>3 DEF Environment, Crash, PanelReady, TimeElapses, vars
  <2> QED BY <1>0, <2>1 DEF threads, StoppingInProgress, GivenUp
<1> QED
  BY <1>2, <1>3 DEF Next

\* An entry in STARTING or STOPPING has a handler at work on it; what a failed stop
\* leaves in STOPPING is required by nobody until a start request takes it up, unless
\* an instance of it was lost: with SimpleExecutor nothing is left in STOPPING at all.
THEOREM TransitionsEnd == Spec => []TransitionsInProgress
<1>1. Init => StoppingInProgress
  BY DEF Init, StoppingInProgress, EmptyRegistry, NoEntry, Absent
<1>2. Spec => []StoppingInProgress
  BY <1>1, StoppingStep, HubInvariant, SafeStopping, PTL DEF Spec
<1>3. StartingInProgress /\ StoppingInProgress => TransitionsInProgress
  BY DEF TransitionsInProgress
<1> QED
  BY <1>2, <1>3, NoneLeftStarting, PTL

-----------------------------------------------------------------------------
(* Rollback.                                                                *)

\* The processes that run and have not survived a kill.
Unkilled == running \ survived

\* Only a start brings a process up.
LEMMA NothingStarts ==
  ASSUME NEW t \in Threads, Continue(t) \/ Tick(t) \/ Request(t),
         ~StartProcess(t), ~RestartStart(t), \A n \in Procs : ~AdminStart(t, n)
  PROVE  Unkilled' \subseteq Unkilled
<1> USE DEF Unkilled
<1>0. \A n, force, ok : ExecStop(n, force, ok) \/ Gone(n) => Unkilled' \subseteq Unkilled
  BY DEF ExecStop, Gone, world
<1>1. CASE \/ UnregisterStop(t) \/ StartRollback(t) \/ StopExec(t) \/ RestartStop(t)
           \/ ResetStop(t) \/ ShutdownStop(t)
  BY <1>0, <1>1 DEF UnregisterStop, StartRollback, StopExec, RestartStop, ResetStop, ShutdownStop
<1>2. CASE \/ UnregisterRelease(t) \/ UnregisterRemove(t) \/ UnregisterEnd(t)
           \/ StartLock(t) \/ StartRecord(t) \/ StartEnd(t)
           \/ StopLock(t) \/ StopRelease(t) \/ StopEnd(t)
           \/ RestartBegin(t) \/ RestartRead(t) \/ RestartLock(t) \/ RestartRecord(t)
           \/ RestartUnlock(t) \/ RestartCompleted(t) \/ RestartSnapshot(t)
           \/ RestartReset(t) \/ SendDone(t)
  BY <1>2 DEF UnregisterRelease, UnregisterRemove, UnregisterEnd, StartLock, StartRecord, StartEnd,
    StopLock, StopRelease, StopEnd, RestartBegin, RestartRead, RestartLock, RestartRecord,
    RestartUnlock, RestartCompleted, RestartSnapshot, RestartReset, SendDone, world
<1>3. CASE \/ TimeoutSnapshot(t) \/ TimeoutReset(t) \/ TickHealth(t) \/ TickMarkDead(t)
           \/ TickAffected(t) \/ TickIdle(t) \/ TickDetect(t) \/ TickNotify(t) \/ SendNotify(t)
           \/ ResetLock(t) \/ ResetClear(t) \/ ResetConnections(t) \/ ResetFsm(t)
           \/ RegisterAdminProcess(t) \/ UnregisterAdminProcess(t) \/ ShutdownRead(t)
           \/ ShutdownClear(t) \/ ShutdownConnections(t) \/ TransportStop(t) \/ Tick(t)
  BY <1>3 DEF TimeoutSnapshot, TimeoutReset, TickHealth, TickMarkDead, TickAffected, TickIdle,
    TickDetect, TickNotify, SendNotify, ResetLock, ResetClear, ResetConnections, ResetFsm,
    RegisterAdminProcess, UnregisterAdminProcess, ShutdownRead, ShutdownClear,
    ShutdownConnections, TransportStop, Tick, TickTimeout, TickActive, world
<1>4. CASE Request(t)
  <2>1. ASSUME NEW n \in Procs, AdminStop(t, n) PROVE Unkilled' \subseteq Unkilled
    BY <1>0, <2>1 DEF AdminStop
  <2> QED
    BY <1>4, <2>1 DEF Request, HandleRegister, HandleUnregister, HandleRestartReady, RequestStart,
      RequestStop, ResetBegin, ShutdownBegin, world
<1> QED
  BY <1>1, <1>2, <1>3, <1>4 DEF Continue

\* A rollback begins when a start has failed, and goes on process by process.
LEMMA RollbackOnly ==
  ASSUME TypeInv, NEW t \in Threads, Continue(t) \/ Tick(t) \/ Request(t),
         pc'[t] = "start_rollback", ~StartRecord(t), ~StartRollback(t)
  PROVE  FALSE
<1>0. ASSUME NEW label \in Labels, NEW f, Goto(t, label, f) PROVE label = "start_rollback"
  BY <1>0, GotoOthers
<1> USE <1>0 DEF Finish, Labels, LockedSections
<1>1. CASE StartLock(t) \/ StartProcess(t) \/ StartEnd(t)
  BY <1>1 DEF StartLock, StartProcess, StartEnd
<1>2. CASE StopRelease(t) \/ StopLock(t) \/ StopExec(t) \/ StopEnd(t)
  BY <1>2 DEF StopRelease, StopLock, StopExec, StopEnd
<1>3. CASE \/ UnregisterRelease(t) \/ UnregisterStop(t) \/ UnregisterRemove(t)
           \/ UnregisterEnd(t)
  BY <1>3 DEF UnregisterRelease, UnregisterStop, UnregisterRemove, UnregisterEnd
<1>4. CASE \/ RestartBegin(t) \/ RestartRead(t) \/ RestartLock(t) \/ RestartStop(t)
           \/ RestartStart(t) \/ RestartRecord(t) \/ RestartUnlock(t)
           \/ RestartCompleted(t) \/ RestartSnapshot(t) \/ RestartReset(t)
           \/ SendDone(t)
  BY <1>4 DEF RestartBegin, RestartRead, RestartLock, RestartStop, RestartStart,
    RestartRecord, RestartUnlock, RestartCompleted, RestartSnapshot, RestartReset,
    SendDone
<1>5. CASE \/ Tick(t) \/ TimeoutSnapshot(t) \/ TimeoutReset(t)
           \/ TickHealth(t) \/ TickMarkDead(t) \/ TickAffected(t) \/ TickIdle(t)
           \/ TickDetect(t) \/ TickNotify(t) \/ SendNotify(t)
  BY <1>5 DEF Tick, TickTimeout, TickActive, TimeoutSnapshot, TimeoutReset,
    TickHealth, TickMarkDead, TickAffected, TickIdle, TickDetect, TickNotify,
    SendNotify
<1>6. CASE \/ ResetLock(t) \/ ResetStop(t) \/ ResetClear(t) \/ ResetConnections(t)
           \/ ResetFsm(t) \/ RegisterAdminProcess(t) \/ UnregisterAdminProcess(t)
           \/ ShutdownRead(t) \/ ShutdownStop(t) \/ ShutdownClear(t)
           \/ ShutdownConnections(t) \/ TransportStop(t)
  BY <1>6 DEF ResetLock, ResetStop, ResetClear, ResetConnections, ResetFsm,
    RegisterAdminProcess, UnregisterAdminProcess, ShutdownRead, ShutdownStop, ShutdownClear,
    ShutdownConnections, TransportStop
<1>7. CASE Request(t)
  <2>1. ~(pc[t] = "idle" /\ UNCHANGED threads)
    BY DEF threads
  <2> QED
    BY <1>7, <2>1 DEF Request, HandleRegister, HandleUnregister,
      HandleRestartReady, RequestStart, RequestStop, ResetBegin, AdminStart,
      AdminStop, ShutdownBegin
<1> QED
  BY <1>1, <1>2, <1>3, <1>4, <1>5, <1>6, <1>7 DEF Continue

\* Without the dashboard, which starts processes without asking the core: a start
\* request that fails leaves running, of the processes it had started, none but those
\* that have survived a kill, whatever the restarts and the other requests do meanwhile.
THEOREM RollbackIsComplete ==
  ASSUME "admin" \notin Threads
  PROVE  Spec => []RollbackComplete
<1>1. Init => RollbackComplete
  BY DEF Init, RollbackComplete
<1>2. HubInv /\ RollbackComplete /\ [Next]_vars => RollbackComplete'
  <2> SUFFICES ASSUME HubInv, RollbackComplete, [Next]_vars,
                      NEW u \in Threads, pc'[u] = "start_rollback"
               PROVE  (frame'[u].done \ frame'[u].todo) \cap Unkilled' = {}
    BY DEF RollbackComplete, Unkilled
  <2>0. TypeInv /\ LockDiscipline
    BY DEF HubInv
  <2>1. ASSUME NEW t \in Threads, Continue(t) \/ Tick(t) \/ Request(t), u # t
        PROVE  (frame'[u].done \ frame'[u].todo) \cap Unkilled' = {}
    <3>1. pc[u] = "start_rollback" /\ frame'[u] = frame[u] /\ opLock = u
      BY <2>0, <2>1, OneThread DEF Elsewhere, OthersStay, LockDiscipline, LockedSections
    <3>2. ~StartProcess(t) /\ ~RestartStart(t) /\ \A n \in Procs : ~AdminStart(t, n)
      BY <2>0, <2>1, <3>1
      DEF StartProcess, RestartStart, AdminStart, LockDiscipline, LockedSections
    <3>3. Unkilled' \subseteq Unkilled
      BY <2>1, <3>2, NothingStarts
    <3> QED
      BY <3>1, <3>3 DEF RollbackComplete, Unkilled
  <2>2. ASSUME Continue(u) \/ Tick(u) \/ Request(u)
        PROVE  (frame'[u].done \ frame'[u].todo) \cap Unkilled' = {}
    <3> DEFINE f == frame[u]
    <3>0. f \in Frame
      BY <2>0, FrameTypes
    <3>1. CASE StartRecord(u)
      <4>1. Goto(u, "start_rollback", [f EXCEPT !.todo = f.done])
        BY <2>0, <3>1, GotoOthers DEF StartRecord, Labels, LockedSections
      <4>2. frame'[u] = [f EXCEPT !.todo = f.done]
        BY <2>0, <4>1, GotoOthers DEF Labels, LockedSections
      <4> QED
        BY <3>0, <4>2 DEF Frame
    <3>2. CASE StartRollback(u)
      <4>1. PICK n \in f.todo, ok \in BOOLEAN :
              ExecStop(n, TRUE, ok) /\ Goto(u, "start_rollback", Without(f, n))
        BY <3>2 DEF StartRollback
      <4>5. Unkilled' \subseteq Unkilled \ {n}
        BY <4>1 DEF ExecStop, Gone, Unkilled
      <4>2. frame'[u] = Without(f, n)
        BY <2>0, <4>1, GotoOthers DEF Labels, LockedSections
      <4>3. frame'[u].done = f.done /\ frame'[u].todo = f.todo \ {n}
        BY <3>0, <4>2 DEF Without, Frame
      <4>4. pc[u] = "start_rollback"
        BY <3>2 DEF StartRollback
      <4> QED
        BY <4>3, <4>4, <4>5 DEF RollbackComplete, Unkilled
    <3> QED
      BY <2>0, <2>2, <3>1, <3>2, RollbackOnly
  <2>3. CASE Environment \/ UNCHANGED vars
    <3>1. Unkilled' \subseteq Unkilled /\ UNCHANGED threads
      BY <2>3 DEF Environment, Crash, Gone, PanelReady, TimeElapses, vars, world, Unkilled
    <3> QED
      BY <3>1 DEF threads, RollbackComplete, Unkilled
  <2> QED
    BY <2>1, <2>2, <2>3 DEF Next
<1> QED
  BY <1>1, <1>2, HubInvariant, PTL DEF Spec

-----------------------------------------------------------------------------
(* No round is left alone, whatever cuts it off.                             *)

\* The places where a thread attends to a round.
AttendPlaces == Notifying \cup {"restart_begin"} \cup Restarting \cup Ending \cup TimedOut

\* A round is opened for somebody: nobody can be missing before the panels are told.
Opened == state = "NOTIFYING" => pending # {}

\* What a step outside those places may do to the round: nothing, or wipe it out.
Away(t) ==
  /\ OthersStay(t) /\ pc[t] \notin AttendPlaces
  /\ UNCHANGED <<state, pending>> \/ state' = "IDLE"

LEMMA AwaySteps ==
  ASSUME TypeInv, NEW t \in Threads, Continue(t) \/ Tick(t) \/ Request(t),
         pc[t] \notin AttendPlaces, ~TickTimeout(t), ~TickDetect(t),
         \A p \in Panels : ~HandleRestartReady(t, p)
  PROVE  Away(t)
<1>0. OthersStay(t)
  BY OneThread DEF Elsewhere
<1>1. CASE UNCHANGED <<state, pending>>
  BY <1>0, <1>1 DEF Away
<1>2. CASE \/ RestartBegin(t) \/ RestartCompleted(t) \/ RestartReset(t) \/ TimeoutReset(t)
           \/ TickNotify(t)
  BY <1>2 DEF RestartBegin, RestartCompleted, RestartReset, TimeoutReset, TickNotify,
    AttendPlaces, Notifying, Restarting, Ending, TimedOut
<1>3. CASE ResetFsm(t)
  BY <1>0, <1>3 DEF ResetFsm, Fsm!ResetToIdle, Away
<1>4. CASE \/ UnregisterRelease(t) \/ UnregisterStop(t) \/ UnregisterRemove(t)
           \/ UnregisterEnd(t) \/ StartLock(t) \/ StartProcess(t) \/ StartRecord(t)
           \/ StartRollback(t) \/ StartEnd(t) \/ StopLock(t) \/ StopRelease(t)
           \/ StopExec(t) \/ StopEnd(t) \/ RestartRead(t) \/ RestartLock(t)
           \/ RestartStop(t) \/ RestartStart(t) \/ RestartRecord(t)
           \/ RestartUnlock(t) \/ RestartSnapshot(t) \/ SendDone(t)
  BY <1>1, <1>4 DEF UnregisterRelease, UnregisterStop, UnregisterRemove, UnregisterEnd,
    StartLock, StartProcess, StartRecord, StartRollback, StartEnd, StopLock, StopRelease,
    StopExec, StopEnd, RestartRead, RestartLock, RestartStop, RestartStart, RestartRecord,
    RestartUnlock, RestartSnapshot, SendDone, restart
<1>5. CASE \/ TimeoutSnapshot(t) \/ TickActive(t) \/ TickHealth(t)
           \/ TickMarkDead(t) \/ TickAffected(t) \/ TickIdle(t) \/ SendNotify(t)
           \/ ResetLock(t) \/ ResetStop(t) \/ ResetClear(t) \/ ResetConnections(t)
           \/ RegisterAdminProcess(t) \/ UnregisterAdminProcess(t)
           \/ ShutdownRead(t) \/ ShutdownStop(t) \/ ShutdownClear(t)
           \/ ShutdownConnections(t) \/ TransportStop(t)
  BY <1>1, <1>5 DEF TimeoutSnapshot, TickActive, TickHealth, TickMarkDead, TickAffected,
    TickIdle, SendNotify, ResetLock, ResetStop, ResetClear, ResetConnections,
    RegisterAdminProcess, UnregisterAdminProcess, ShutdownRead, ShutdownStop, ShutdownClear,
    ShutdownConnections, TransportStop, restart
<1>6. CASE Request(t)
  BY <1>1, <1>6 DEF Request, HandleRegister, HandleUnregister, RequestStart, RequestStop,
    ResetBegin, AdminStart, AdminStop, ShutdownBegin, restart
<1> QED
  BY <1>2, <1>3, <1>4, <1>5, <1>6 DEF Continue, Tick

\* A thread inside a round is in one of the round's own steps.
AttendSteps(t) ==
  \/ TickNotify(t)
  \/ RestartBegin(t) \/ RestartRead(t) \/ RestartLock(t) \/ RestartStop(t)
  \/ RestartStart(t) \/ RestartRecord(t) \/ RestartUnlock(t) \/ RestartCompleted(t)
  \/ RestartSnapshot(t) \/ RestartReset(t) \/ TimeoutSnapshot(t) \/ TimeoutReset(t)

LEMMA AttendOnly ==
  ASSUME NEW t \in Threads, Continue(t) \/ Tick(t) \/ Request(t), pc[t] \in AttendPlaces
  PROVE  AttendSteps(t)
<1> USE DEF AttendPlaces, Notifying, Restarting, Ending, TimedOut
<1>1. ~Tick(t) /\ ~Request(t)
  BY DEF Tick, TickTimeout, TickActive, Request, HandleRegister, HandleUnregister,
    HandleRestartReady, RequestStart, RequestStop, ResetBegin, AdminStart, AdminStop,
    ShutdownBegin
<1> QED
  BY <1>1 DEF AttendSteps, Continue, UnregisterRelease, UnregisterStop, UnregisterRemove,
    UnregisterEnd, StartLock, StartProcess, StartRecord, StartRollback, StartEnd, StopLock,
    StopRelease, StopExec, StopEnd, SendDone, TickHealth, TickMarkDead, TickAffected,
    TickIdle, TickDetect, SendNotify, ResetLock, ResetStop, ResetClear, ResetConnections,
    ResetFsm, RegisterAdminProcess, UnregisterAdminProcess, ShutdownRead, ShutdownStop,
    ShutdownClear, ShutdownConnections, TransportStop

\* Whichever step of a round a thread makes, either it goes on attending to the
\* phase the round is in then, or it leaves the round in a phase of others.
LEMMA AttendKeeps ==
  ASSUME TypeInv, RoundsAttended, Opened, NEW t \in Threads, OthersStay(t), AttendSteps(t)
  PROVE  RoundsAttended' /\ Opened'
<1> USE GotoOthers
    DEF RoundsAttended, Opened, OthersStay, Notifying, Restarting, Ending, TimedOut,
        Labels, LockedSections
<1>1. CASE TickNotify(t)
  BY <1>1 DEF TickNotify, Fsm!NotificationsSent, restart
<1>2. CASE RestartBegin(t)
  BY <1>2 DEF RestartBegin, Finish, Fsm!BeginRestart, restart
<1>3. CASE RestartRead(t) \/ RestartLock(t) \/ RestartUnlock(t)
  BY <1>3 DEF RestartRead, RestartLock, RestartUnlock, restart
<1>4. CASE RestartStop(t) \/ RestartStart(t) \/ RestartRecord(t)
  BY <1>4 DEF RestartStop, RestartStart, RestartRecord, restart
<1>5. CASE RestartCompleted(t)
  BY <1>5 DEF RestartCompleted, Fsm!RestartCompleted, restart
<1>6. CASE RestartSnapshot(t) \/ TimeoutSnapshot(t)
  BY <1>6 DEF RestartSnapshot, TimeoutSnapshot, restart
<1>7. CASE RestartReset(t) \/ TimeoutReset(t)
  BY <1>7 DEF RestartReset, TimeoutReset, Fsm!ResetToIdle
<1> QED
  BY <1>1, <1>2, <1>3, <1>4, <1>5, <1>6, <1>7 DEF AttendSteps

LEMMA AwayKeeps ==
  ASSUME RoundsAttended, Opened, NEW t \in Threads, Away(t)
  PROVE  RoundsAttended' /\ Opened'
BY DEF RoundsAttended, Opened, Away, OthersStay, AttendPlaces, Notifying, Restarting,
  Ending, TimedOut

\* A round begins, loses the last panel it waits for, or runs out of time.
LEMMA EnteringKeeps ==
  ASSUME TypeInv, RoundsAttended, Opened, NEW t \in Threads,
         TickTimeout(t) \/ TickDetect(t) \/ \E p \in Panels : HandleRestartReady(t, p)
  PROVE  RoundsAttended' /\ Opened'
<1> USE GotoOthers
    DEF RoundsAttended, Opened, OthersStay, Notifying, Restarting, Ending, TimedOut,
        Labels, LockedSections
<1>1. CASE TickTimeout(t)
  BY <1>1 DEF TickTimeout, Fsm!CheckTimeout
<1>2. CASE TickDetect(t)
  BY <1>2 DEF TickDetect, Finish, Fsm!DetectKilled, restart
<1>3. CASE \E p \in Panels : HandleRestartReady(t, p)
  <2>1. PICK p \in Panels : HandleRestartReady(t, p)
    BY <1>3
  <2> QED
    BY <2>1 DEF HandleRestartReady, Fsm!PanelAcknowledged, threads, restart
<1> QED
  BY <1>1, <1>2, <1>3

LEMMA AttendedStep ==
  HubInv /\ RoundsAttended /\ Opened /\ [Next]_vars => RoundsAttended' /\ Opened'
<1> SUFFICES ASSUME HubInv, RoundsAttended, Opened, [Next]_vars
             PROVE  RoundsAttended' /\ Opened'
  OBVIOUS
<1>0. TypeInv
  BY DEF HubInv
<1>1. ASSUME NEW t \in Threads, Continue(t) \/ Tick(t) \/ Request(t)
      PROVE  RoundsAttended' /\ Opened'
  <2>1. CASE TickTimeout(t) \/ TickDetect(t) \/ \E p \in Panels : HandleRestartReady(t, p)
    BY <1>0, <2>1, EnteringKeeps
  <2>2. CASE pc[t] \in AttendPlaces
    BY <1>0, <1>1, <2>2, OneThread, AttendOnly, AttendKeeps DEF Elsewhere
  <2> QED
    BY <1>0, <1>1, <2>1, <2>2, AwaySteps, AwayKeeps
<1>2. CASE Environment \/ UNCHANGED vars
  <2>1. UNCHANGED <<state, pending, threads>>
    BY <1>2 DEF Environment, Crash, PanelReady, TimeElapses, Fsm!TimeElapses, vars, restart
  <2> QED
    BY <2>1 DEF threads, RoundsAttended, Opened
<1> QED
  BY <1>1, <1>2 DEF Next

\* With timeouts, resets, fleet commands, the dashboard and a shutdown: a round that
\* waits for no panel always has a thread at work that moves it on, also while the
\* threads of rounds that were cut off are still going through theirs.
THEOREM NoRoundAlone == Spec => []RoundsAttended
<1>1. Init => RoundsAttended /\ Opened
  BY DEF Init, Fsm!FsmInit, RoundsAttended, Opened
<1> QED
  BY <1>1, AttendedStep, HubInvariant, PTL DEF Spec

-----------------------------------------------------------------------------
(* Restart rounds that nothing cuts off: the hub with its message handlers    *)
(* and its main loop, no timeout of a round, no reset and no shutdown.        *)

Undisturbed ==
  /\ Threads \subseteq {"transport", "main"}
  /\ ~RestartsMayTimeOut /\ ~MayShutDown

\* Where each of the two threads can be.
TickPlaces == {"idle", "tick_health", "tick_affected", "tick_notify", "send_notify"}
HandlerPlaces ==
  {"idle", "unregister_release", "unregister_stop", "unregister_remove",
   "start_lock", "start", "start_record", "start_rollback", "stop_lock", "stop", "stop_exec",
   "restart_begin", "restart_read", "restart_lock", "restart", "restart_start",
   "restart_record", "restart_completed", "restart_snapshot", "restart_reset", "send_done"}

PlacesOK ==
  /\ \A t \in Threads : pc[t] \in (IF t = "main" THEN TickPlaces ELSE HandlerPlaces)
  /\ clock # "expired"

\* What each of them does: handlers that leave the round alone, those of the round, ticks.
PlainHandler(t) ==
  \/ UnregisterRelease(t) \/ UnregisterStop(t) \/ UnregisterRemove(t) \/ UnregisterEnd(t)
  \/ StartLock(t) \/ StartProcess(t) \/ StartRecord(t) \/ StartRollback(t) \/ StartEnd(t)
  \/ StopLock(t) \/ StopRelease(t) \/ StopExec(t) \/ StopEnd(t)
  \/ \E p \in Panels : HandleRegister(t, p) \/ HandleUnregister(t, p)
  \/ \E r \in Requesters, S \in SUBSET Procs : RequestStart(t, r, S)
  \/ \E r \in Requesters, S \in SUBSET Procs, force \in BOOLEAN : RequestStop(t, r, S, force)

Restarts(t) ==
  \/ RestartRead(t) \/ RestartLock(t) \/ RestartStop(t) \/ RestartStart(t)
  \/ RestartRecord(t) \/ RestartUnlock(t)

RoundHandler(t) ==
  \/ \E p \in Panels : HandleRestartReady(t, p)
  \/ RestartBegin(t) \/ RestartCompleted(t) \/ RestartSnapshot(t) \/ RestartReset(t)
  \/ SendDone(t)

PlainTick(t) ==
  \/ TickActive(t) \/ TickHealth(t) \/ TickMarkDead(t) \/ TickAffected(t) \/ TickIdle(t)

RoundTick(t) == TickDetect(t) \/ TickNotify(t) \/ SendNotify(t)

LEMMA UndisturbedStep ==
  ASSUME Undisturbed, PlacesOK, NEW t \in Threads, Continue(t) \/ Tick(t) \/ Request(t)
  PROVE  \/ t = "transport" /\ (PlainHandler(t) \/ Restarts(t) \/ RoundHandler(t))
         \/ t = "main" /\ (PlainTick(t) \/ RoundTick(t))
<1>0. /\ t \in {"transport", "main"} /\ clock # "expired"
      /\ pc[t] \in (IF t = "main" THEN TickPlaces ELSE HandlerPlaces)
  BY DEF Undisturbed, PlacesOK
<1> USE DEF TickPlaces, HandlerPlaces
<1>1. CASE \/ UnregisterRelease(t) \/ UnregisterStop(t) \/ UnregisterRemove(t)
           \/ StartLock(t) \/ StartProcess(t) \/ StartRecord(t) \/ StartRollback(t)
           \/ StopLock(t) \/ StopRelease(t) \/ StopExec(t)
           \/ UnregisterEnd(t) \/ StartEnd(t) \/ StopEnd(t)
  <2>1. pc[t] \notin TickPlaces
    BY <1>1 DEF UnregisterRelease, UnregisterStop, UnregisterRemove, UnregisterEnd, StartLock,
      StartProcess, StartRecord, StartRollback, StartEnd, StopLock, StopRelease, StopExec, StopEnd
  <2> QED
    BY <1>0, <1>1, <2>1 DEF PlainHandler
<1>2. CASE Restarts(t) \/ RestartBegin(t) \/ RestartCompleted(t) \/ RestartSnapshot(t)
           \/ RestartReset(t) \/ SendDone(t)
  <2>1. pc[t] \notin TickPlaces
    BY <1>2 DEF Restarts, RestartBegin, RestartRead, RestartLock, RestartStop, RestartStart,
      RestartRecord, RestartUnlock, RestartCompleted, RestartSnapshot, RestartReset, SendDone
  <2> QED
    BY <1>0, <1>2, <2>1 DEF RoundHandler
<1>3. CASE \/ TickHealth(t) \/ TickMarkDead(t) \/ TickAffected(t) \/ TickIdle(t)
           \/ TickDetect(t) \/ TickNotify(t) \/ SendNotify(t)
  <2>1. pc[t] \notin HandlerPlaces
    BY <1>3 DEF TickHealth, TickMarkDead, TickAffected, TickIdle, TickDetect, TickNotify,
      SendNotify
  <2> QED
    BY <1>0, <1>3, <2>1 DEF PlainTick, RoundTick
<1>4. ASSUME \/ TimeoutSnapshot(t) \/ TimeoutReset(t) \/ ResetLock(t) \/ ResetStop(t)
             \/ ResetClear(t) \/ ResetConnections(t) \/ ResetFsm(t)
             \/ RegisterAdminProcess(t) \/ UnregisterAdminProcess(t)
             \/ ShutdownRead(t) \/ ShutdownStop(t) \/ ShutdownClear(t)
             \/ ShutdownConnections(t) \/ TransportStop(t)
      PROVE  FALSE
  <2>1. pc[t] \notin TickPlaces /\ pc[t] \notin HandlerPlaces
    BY <1>4 DEF TimeoutSnapshot, TimeoutReset, ResetLock, ResetStop, ResetClear,
      ResetConnections, ResetFsm, RegisterAdminProcess, UnregisterAdminProcess, ShutdownRead,
      ShutdownStop, ShutdownClear, ShutdownConnections, TransportStop
  <2> QED
    BY <1>0, <2>1
<1>5. CASE Tick(t)
  BY <1>0, <1>5 DEF Tick, TickTimeout, TickActive, PlainTick, Fsm!CheckTimeout, Fsm!IsTimedOut
<1>6. CASE Request(t)
  <2>1. CASE \E p \in Panels :
               /\ t = "transport"
               /\ HandleRegister(t, p) \/ HandleUnregister(t, p) \/ HandleRestartReady(t, p)
    BY <2>1 DEF PlainHandler, RoundHandler
  <2>2. CASE \E r \in Requesters, S \in (SUBSET Procs) \ {{}} : RequestStart(t, r, S)
    <3>1. PICK r \in Requesters, S \in SUBSET Procs : RequestStart(t, r, S)
      BY <2>2
    <3>2. t = "transport"
      BY <1>0, <3>1 DEF RequestStart, MayRequest
    <3> QED
      BY <3>1, <3>2 DEF PlainHandler
  <2>3. CASE \E r \in Requesters, S \in (SUBSET Procs) \ {{}} :
               \E force \in BOOLEAN : RequestStop(t, r, S, force)
    <3>1. PICK r \in Requesters, S \in SUBSET Procs, force \in BOOLEAN : RequestStop(t, r, S, force)
      BY <2>3
    <3>2. t = "transport"
      BY <1>0, <3>1 DEF RequestStop, MayRequest
    <3> QED
      BY <3>1, <3>2 DEF PlainHandler
  <2>4. ~ResetBegin(t) /\ ~ShutdownBegin(t)
        /\ \A n \in Procs : ~AdminStart(t, n) /\ ~AdminStop(t, n)
    BY <1>0 DEF Undisturbed, ResetBegin, ShutdownBegin, AdminStart, AdminStop
  <2> QED
    BY <1>6, <2>1, <2>2, <2>3, <2>4 DEF Request
<1> QED
  BY <1>1, <1>2, <1>3, <1>4, <1>5, <1>6 DEF Continue, Restarts

\* The places of a round, and those of nothing else.
RoundPlaces == Notifying \cup {"send_notify", "restart_begin", "send_done"} \cup Restarting \cup Ending

\* A step outside the round: thread t moves, if at all, between places outside it.
Aside(t) ==
  \/ UNCHANGED threads
  \/ /\ OthersStay(t) /\ pc[t] \notin RoundPlaces /\ pc'[t] \notin RoundPlaces
     /\ pc'[t] \in (IF t = "main" THEN TickPlaces ELSE HandlerPlaces)

LEMMA PlainSteps ==
  ASSUME TypeInv, NEW t \in Threads,
         \/ t = "transport" /\ PlainHandler(t)
         \/ t = "main" /\ PlainTick(t)
  PROVE  UNCHANGED <<restart, clients>> /\ Aside(t)
<1>1. ASSUME NEW label \in Labels \ RoundPlaces, NEW f, Goto(t, label, f), pc[t] \notin RoundPlaces,
             label \in (IF t = "main" THEN TickPlaces ELSE HandlerPlaces)
      PROVE  Aside(t)
  BY <1>1, GotoOthers DEF Aside
<1> USE DEF Finish, Labels, LockedSections, RoundPlaces, Notifying, Restarting, Ending, TickPlaces,
      HandlerPlaces
<1>2. CASE t = "transport" /\ (StartLock(t) \/ StartEnd(t))
  BY <1>1, <1>2 DEF StartLock, StartEnd
<1>3. CASE t = "transport" /\ StartProcess(t)
  BY <1>1, <1>3 DEF StartProcess
<1>4. CASE t = "transport" /\ StartRecord(t)
  BY <1>1, <1>4 DEF StartRecord
<1>5. CASE t = "transport" /\ StartRollback(t)
  BY <1>1, <1>5 DEF StartRollback
<1>6. CASE t = "transport" /\ (StopLock(t) \/ StopExec(t) \/ StopEnd(t))
  BY <1>1, <1>6 DEF StopLock, StopExec, StopEnd
<1>7. CASE t = "transport" /\ StopRelease(t)
  BY <1>1, <1>7 DEF StopRelease
<1>8. CASE t = "transport" /\ (UnregisterRelease(t) \/ UnregisterRemove(t) \/ UnregisterEnd(t))
  BY <1>1, <1>8 DEF UnregisterRelease, UnregisterRemove, UnregisterEnd
<1>9. CASE t = "transport" /\ UnregisterStop(t)
  BY <1>1, <1>9 DEF UnregisterStop
<1>10. CASE t = "transport" /\ \E p \in Panels : HandleRegister(t, p) \/ HandleUnregister(t, p)
  BY <1>1, <1>10 DEF HandleRegister, HandleUnregister, Aside
<1>11. CASE t = "transport" /\ \E r \in Requesters, S \in SUBSET Procs : RequestStart(t, r, S)
  BY <1>1, <1>11 DEF RequestStart
<1>12. CASE t = "transport" /\ \E r \in Requesters, S \in SUBSET Procs, force \in BOOLEAN :
                                 RequestStop(t, r, S, force)
  BY <1>1, <1>12 DEF RequestStop
<1>13. CASE t = "main" /\ PlainTick(t)
  BY <1>1, <1>13 DEF PlainTick, TickActive, TickHealth, TickMarkDead, TickAffected, TickIdle
<1> QED
  BY <1>2, <1>3, <1>4, <1>5, <1>6, <1>7, <1>8, <1>9, <1>10, <1>11, <1>12, <1>13 DEF PlainHandler

LEMMA RestartSteps ==
  ASSUME TypeInv, NEW t \in Threads, Restarts(t)
  PROVE  /\ UNCHANGED <<restart, clients>>
         /\ OthersStay(t) /\ pc[t] \in Restarting /\ pc'[t] \in Restarting
<1> USE GotoOthers DEF Labels, LockedSections, Restarting
<1>1. CASE RestartRead(t) \/ RestartLock(t) \/ RestartUnlock(t)
  BY <1>1 DEF RestartRead, RestartLock, RestartUnlock
<1>2. CASE RestartStop(t) \/ RestartStart(t) \/ RestartRecord(t)
  BY <1>2 DEF RestartStop, RestartStart, RestartRecord
<1> QED
  BY <1>1, <1>2 DEF Restarts

-----------------------------------------------------------------------------
(* The invariant of a round.                                                *)

\* What the place of a thread says of the round it works on.
ThreadAgrees(t) ==
  /\ pc[t] = "tick_notify" => state = "NOTIFYING"
  /\ pc[t] = "send_notify" =>
       state = "AWAITING_ACK" /\ blocked \subseteq answered /\ acks = {}
  /\ pc[t] \in {"tick_notify", "send_notify"} =>
       frame[t].targets = notified /\ pending = notified /\ notified # {}
  /\ pc[t] = "restart_begin" => state = "AWAITING_ACK" /\ pending = {}
  /\ pc[t] \in Restarting => state = "RESTARTING"
  /\ pc[t] \in Ending => state \in {"DONE", "FAILED"}
  /\ pc[t] = "restart_reset" => frame[t].targets = notified

\* Who has been told and not answered, and whose answer is on its way, is waited
\* for; outside AWAITING_ACK there is nobody of that kind.
AnswersAgree ==
  /\ state = "IDLE" => notified = {}
  /\ acks \subseteq answered /\ acks \subseteq pending /\ blocked \ answered \subseteq pending
  /\ state # "AWAITING_ACK" => blocked \subseteq answered /\ acks = {}
  /\ state = "AWAITING_ACK" => notified \cap Panels \subseteq answered \cup pending
  /\ AnsweredBeforeRestart

RoundInv ==
  /\ TypeInv /\ PlacesOK
  /\ PhaseOwned /\ AnswersAgree /\ BlockedAccountedFor
  /\ \A t \in Threads : ThreadAgrees(t)

RoundKept ==
  /\ PlacesOK' /\ PhaseOwned' /\ AnswersAgree' /\ BlockedAccountedFor'
  /\ \A t \in Threads : ThreadAgrees(t)'

\* A handler at a place of its own is the transport's, a tick the main loop's.
LEMMA WhoseRound ==
  ASSUME Undisturbed, PlacesOK, NEW t \in Threads
  PROVE  /\ t \in {"transport", "main"}
         /\ pc[t] \in Restarting \cup Ending \cup {"restart_begin", "send_done"} => t = "transport"
         /\ pc[t] \in Notifying \cup {"send_notify"} => t = "main"
BY DEF Undisturbed, PlacesOK, Restarting, Ending, Notifying, TickPlaces, HandlerPlaces

LEMMA AsideKeeps ==
  ASSUME RoundInv, NEW t \in Threads, UNCHANGED <<restart, clients>>, Aside(t)
  PROVE  RoundKept
<1>1. UNCHANGED <<state, pending, notified, clock, blocked, answered, acks>>
  BY DEF restart, clients
<1>2. \A u \in Threads : \/ pc'[u] = pc[u] /\ frame'[u] = frame[u]
                         \/ pc[u] \notin RoundPlaces /\ pc'[u] \notin RoundPlaces
  BY DEF Aside, threads, OthersStay
<1>3. PlacesOK'
  BY <1>1 DEF RoundInv, PlacesOK, Aside, threads, OthersStay
<1>4. ASSUME NEW label \in RoundPlaces, NEW u \in Threads
      PROVE  /\ pc'[u] = label <=> pc[u] = label
             /\ pc'[u] = label => frame'[u] = frame[u]
  BY <1>2, <1>4
<1>5. PhaseOwned'
  <2>1. PhaseOwned
    BY DEF RoundInv
  <2>2. ASSUME NEW L \in {Notifying, {"restart_begin"}, Restarting, Ending}
        PROVE  (\E u \in Threads : pc'[u] \in L) <=> \E u \in Threads : pc[u] \in L
    BY <1>2, <2>2 DEF RoundPlaces
  <2> QED
    BY <1>1, <2>1, <2>2 DEF PhaseOwned
<1>6. AnswersAgree'
  BY <1>1 DEF RoundInv, AnswersAgree, AnsweredBeforeRestart
<1>7. BlockedAccountedFor'
  BY <1>1, <1>4 DEF RoundInv, BlockedAccountedFor, RoundPlaces
<1>8. ASSUME NEW u \in Threads PROVE ThreadAgrees(u)'
  BY <1>1, <1>2 DEF RoundInv, ThreadAgrees, RoundPlaces, Notifying, Restarting, Ending
<1> QED
  BY <1>3, <1>5, <1>6, <1>7, <1>8 DEF RoundKept

LEMMA RestartsKeep ==
  ASSUME Undisturbed, RoundInv, NEW t \in Threads, Restarts(t)
  PROVE  RoundKept
<1>1. UNCHANGED <<state, pending, notified, clock, blocked, answered, acks>>
  BY RestartSteps DEF RoundInv, restart, clients
<1>2. OthersStay(t) /\ pc[t] \in Restarting /\ pc'[t] \in Restarting
  BY RestartSteps DEF RoundInv
<1>3. PlacesOK'
  BY <1>1, <1>2, WhoseRound DEF RoundInv, PlacesOK, OthersStay, Restarting, HandlerPlaces
<1>4. state = "RESTARTING"
  BY <1>2 DEF RoundInv, ThreadAgrees
<1>5. PhaseOwned'
  BY <1>1, <1>2, <1>4 DEF RoundInv, PhaseOwned, OthersStay, Notifying, Restarting, Ending
<1>6. AnswersAgree'
  BY <1>1 DEF RoundInv, AnswersAgree, AnsweredBeforeRestart
<1>7. BlockedAccountedFor'
  BY <1>1, <1>2 DEF RoundInv, BlockedAccountedFor, OthersStay, Restarting
<1>8. ASSUME NEW u \in Threads PROVE ThreadAgrees(u)'
  BY <1>1, <1>2, <1>4 DEF RoundInv, ThreadAgrees, OthersStay, Restarting, Ending
<1> QED
  BY <1>3, <1>5, <1>6, <1>7, <1>8 DEF RoundKept

\* The actions below change the round, or what panels know of it.
LEMMA ReadyKeeps ==
  ASSUME Undisturbed, RoundInv, NEW t \in Threads, t = "transport", NEW p \in Panels,
         HandleRestartReady(t, p)
  PROVE  RoundKept
<1>1. state = "AWAITING_ACK" /\ p \in answered /\ p \in pending /\ p \in acks
  BY DEF RoundInv, AnswersAgree, HandleRestartReady
<1>2. /\ pending' = pending \ {p} /\ acks' = acks \ {p}
      /\ UNCHANGED <<state, notified, clock, blocked, answered>>
      /\ IF pending' = {} THEN Goto(t, "restart_begin", IdleFrame) ELSE UNCHANGED threads
  BY <1>1 DEF HandleRestartReady, Fsm!PanelAcknowledged
<1>3. /\ OthersStay(t) /\ pc[t] = "idle"
      /\ IF pending' = {} THEN pc'[t] = "restart_begin" ELSE pc'[t] = pc[t] /\ frame'[t] = frame[t]
  <2>1. TypeInv
    BY DEF RoundInv
  <2> QED
    BY <1>2, <2>1, GotoOthers DEF HandleRestartReady, Labels, LockedSections, OthersStay, threads
<1>4. PlacesOK'
  BY <1>2, <1>3 DEF RoundInv, PlacesOK, OthersStay, HandlerPlaces
<1>5. ASSUME NEW u \in Threads
      PROVE  pc[u] \notin {"send_notify", "tick_notify", "restart_begin"} \cup Restarting \cup Ending
  BY <1>1 DEF RoundInv, ThreadAgrees
<1>6. PhaseOwned'
  BY <1>1, <1>2, <1>3, <1>5 DEF PhaseOwned, OthersStay, Notifying, Restarting, Ending
<1>7. AnswersAgree'
  BY <1>1, <1>2 DEF RoundInv, AnswersAgree, AnsweredBeforeRestart
<1>8. BlockedAccountedFor'
  BY <1>2, <1>3 DEF RoundInv, BlockedAccountedFor, OthersStay
<1>9. ASSUME NEW u \in Threads PROVE ThreadAgrees(u)'
  BY <1>1, <1>2, <1>3, <1>5 DEF ThreadAgrees, OthersStay, Restarting, Ending
<1> QED
  BY <1>4, <1>6, <1>7, <1>8, <1>9 DEF RoundKept

LEMMA BeginKeeps ==
  ASSUME Undisturbed, RoundInv, NEW t \in Threads, RestartBegin(t)
  PROVE  RoundKept
<1>1. state = "AWAITING_ACK" /\ pending = {} /\ pc[t] = "restart_begin" /\ TypeInv
  BY DEF RoundInv, ThreadAgrees, RestartBegin
<1>2. /\ state' = "RESTARTING" /\ Goto(t, "restart_read", IdleFrame)
      /\ UNCHANGED <<notified, pending, clock, blocked, answered, acks>>
  BY <1>1 DEF RestartBegin, Fsm!BeginRestart, clients
<1>3. OthersStay(t) /\ pc'[t] = "restart_read"
  BY <1>1, <1>2, GotoOthers DEF Labels, LockedSections
<1>4. t = "transport" /\ \A u \in Threads \ {t} : u = "main"
  BY <1>1, WhoseRound DEF RoundInv
<1>5. PlacesOK'
  BY <1>2, <1>3, <1>4 DEF RoundInv, PlacesOK, OthersStay, HandlerPlaces
<1>6. ASSUME NEW u \in Threads, u # t
      PROVE  pc[u] \notin {"send_notify", "tick_notify", "restart_begin", "send_done"}
                          \cup Restarting \cup Ending
  BY <1>1, <1>4, <1>6, WhoseRound DEF RoundInv, ThreadAgrees
<1>7. PhaseOwned'
  BY <1>2, <1>3, <1>6 DEF PhaseOwned, OthersStay, Notifying, Restarting, Ending
<1>8. AnswersAgree'
  BY <1>1, <1>2 DEF RoundInv, AnswersAgree, AnsweredBeforeRestart
<1>9. BlockedAccountedFor'
  BY <1>1, <1>2, <1>3 DEF RoundInv, BlockedAccountedFor, OthersStay
<1>10. ASSUME NEW u \in Threads PROVE ThreadAgrees(u)'
  BY <1>2, <1>3, <1>6 DEF ThreadAgrees, OthersStay, Restarting, Ending
<1> QED
  BY <1>5, <1>7, <1>8, <1>9, <1>10 DEF RoundKept

\* The end of a round, from its last process to the message that tells the panels.
LEMMA EndKeeps ==
  ASSUME Undisturbed, RoundInv, NEW t \in Threads,
         RestartCompleted(t) \/ RestartSnapshot(t) \/ RestartReset(t)
  PROVE  RoundKept
<1>0. TypeInv /\ t = "transport" /\ \A u \in Threads \ {t} : u = "main"
  BY WhoseRound DEF RoundInv, RestartCompleted, RestartSnapshot, RestartReset, Restarting, Ending
<1>1. \/ pc[t] = "restart_completed" /\ state = "RESTARTING"
      \/ pc[t] \in Ending /\ state \in {"DONE", "FAILED"}
  BY DEF RoundInv, ThreadAgrees, RestartCompleted, RestartSnapshot, RestartReset, Restarting,
    Ending
<1>2. blocked \subseteq answered /\ acks = {}
  BY <1>1 DEF RoundInv, AnswersAgree
<1>3. ASSUME NEW u \in Threads, u # t
      PROVE  pc[u] \notin RoundPlaces
  BY <1>0, <1>1, <1>3, WhoseRound DEF RoundInv, ThreadAgrees, RoundPlaces, Notifying
<1>4. CASE RestartCompleted(t)
  <2>1. /\ state' \in {"DONE", "FAILED"} /\ Goto(t, "restart_snapshot", IdleFrame)
        /\ UNCHANGED <<notified, pending, clock, blocked, answered, acks>>
    BY <1>1, <1>4 DEF RestartCompleted, Fsm!RestartCompleted, clients, Ending
  <2>2. OthersStay(t) /\ pc'[t] = "restart_snapshot" /\ pc[t] = "restart_completed"
    BY <1>0, <1>4, <2>1, GotoOthers DEF RestartCompleted, Labels, LockedSections
  <2>3. PlacesOK'
    BY <1>0, <2>1, <2>2 DEF RoundInv, PlacesOK, OthersStay, HandlerPlaces
  <2>4. PhaseOwned'
    BY <1>3, <2>1, <2>2 DEF PhaseOwned, OthersStay, RoundPlaces, Notifying, Restarting, Ending
  <2>5. AnswersAgree'
    BY <1>2, <2>1 DEF RoundInv, AnswersAgree, AnsweredBeforeRestart
  <2>6. BlockedAccountedFor'
    BY <2>1, <2>2 DEF RoundInv, BlockedAccountedFor, OthersStay
  <2>7. ASSUME NEW u \in Threads PROVE ThreadAgrees(u)'
    BY <1>3, <2>1, <2>2 DEF ThreadAgrees, OthersStay, RoundPlaces, Notifying, Restarting, Ending
  <2> QED
    BY <2>3, <2>4, <2>5, <2>6, <2>7 DEF RoundKept
<1>5. CASE RestartSnapshot(t)
  <2>1. /\ Goto(t, "restart_reset", [IdleFrame EXCEPT !.targets = notified])
        /\ UNCHANGED <<state, notified, pending, clock, blocked, answered, acks>>
    BY <1>5 DEF RestartSnapshot, clients, restart
  <2>2. /\ OthersStay(t) /\ pc'[t] = "restart_reset" /\ pc[t] = "restart_snapshot"
        /\ frame'[t].targets = notified
    BY <1>0, <1>5, <2>1, GotoOthers DEF RestartSnapshot, Labels, LockedSections, IdleFrame
  <2>3. PlacesOK'
    BY <1>0, <2>1, <2>2 DEF RoundInv, PlacesOK, OthersStay, HandlerPlaces
  <2>4. state \in {"DONE", "FAILED"}
    BY <1>1, <2>2
  <2>5. PhaseOwned'
    BY <1>3, <2>1, <2>2, <2>4 DEF PhaseOwned, OthersStay, RoundPlaces, Notifying, Restarting, Ending
  <2>6. AnswersAgree'
    BY <2>1 DEF RoundInv, AnswersAgree, AnsweredBeforeRestart
  <2>7. BlockedAccountedFor'
    BY <2>1, <2>2 DEF RoundInv, BlockedAccountedFor, OthersStay
  <2>8. ASSUME NEW u \in Threads PROVE ThreadAgrees(u)'
    BY <1>3, <2>1, <2>2, <2>4
    DEF ThreadAgrees, OthersStay, RoundPlaces, Notifying, Restarting, Ending
  <2> QED
    BY <2>3, <2>5, <2>6, <2>7, <2>8 DEF RoundKept
<1>6. CASE RestartReset(t)
  <2>1. /\ state' = "IDLE" /\ pending' = {} /\ notified' = {} /\ clock' = "unset"
        /\ Goto(t, "send_done", frame[t]) /\ UNCHANGED <<blocked, answered, acks>>
    BY <1>6 DEF RestartReset, Fsm!ResetToIdle, clients
  <2>2. /\ OthersStay(t) /\ pc'[t] = "send_done" /\ pc[t] = "restart_reset"
        /\ frame'[t].targets = notified
    BY <1>0, <1>6, <2>1, GotoOthers DEF RoundInv, ThreadAgrees, RestartReset, Labels, LockedSections
  <2>3. PlacesOK'
    BY <1>0, <2>1, <2>2 DEF RoundInv, PlacesOK, OthersStay, HandlerPlaces
  <2>4. PhaseOwned'
    BY <1>3, <2>1, <2>2 DEF PhaseOwned, OthersStay, RoundPlaces, Notifying, Restarting, Ending
  <2>5. AnswersAgree'
    BY <1>2, <2>1 DEF AnswersAgree, AnsweredBeforeRestart
  <2>6. BlockedAccountedFor'
    BY <1>3, <2>1, <2>2 DEF RoundInv, BlockedAccountedFor, RoundPlaces
  <2>7. ASSUME NEW u \in Threads PROVE ThreadAgrees(u)'
    BY <1>3, <2>1, <2>2 DEF ThreadAgrees, OthersStay, RoundPlaces, Notifying, Restarting, Ending
  <2> QED
    BY <2>3, <2>4, <2>5, <2>6, <2>7 DEF RoundKept
<1> QED
  BY <1>4, <1>5, <1>6

LEMMA DoneKeeps ==
  ASSUME Undisturbed, RoundInv, NEW t \in Threads, SendDone(t)
  PROVE  RoundKept
<1>1. /\ pc[t] = "send_done" /\ t = "transport" /\ TypeInv
      /\ \A u \in Threads \ {t} : u = "main" /\ pc[u] # "send_done"
  BY WhoseRound DEF RoundInv, SendDone
<1>2. /\ blocked' = blocked \ frame[t].targets /\ Goto(t, "idle", IdleFrame)
      /\ UNCHANGED <<state, notified, pending, clock, answered, acks>>
  BY DEF SendDone, Finish, restart
<1>3. OthersStay(t) /\ pc'[t] = "idle"
  BY <1>1, <1>2, GotoOthers DEF Labels
<1>4. PlacesOK'
  BY <1>1, <1>2, <1>3 DEF RoundInv, PlacesOK, OthersStay, HandlerPlaces
<1>5. PhaseOwned'
  <2>1. PhaseOwned
    BY DEF RoundInv
  <2>2. ASSUME NEW L \in {Notifying, {"restart_begin"}, Restarting, Ending}
        PROVE  (\E u \in Threads : pc'[u] \in L) <=> \E u \in Threads : pc[u] \in L
    BY <1>1, <1>3, <2>2 DEF OthersStay, Notifying, Restarting, Ending
  <2> QED
    BY <1>2, <2>1, <2>2 DEF PhaseOwned
<1>6. AnswersAgree'
  BY <1>2 DEF RoundInv, AnswersAgree, AnsweredBeforeRestart
<1>7. BlockedAccountedFor'
  BY <1>1, <1>2 DEF RoundInv, BlockedAccountedFor
<1>8. ASSUME NEW u \in Threads PROVE ThreadAgrees(u)'
  BY <1>2, <1>3 DEF RoundInv, ThreadAgrees, OthersStay, Restarting, Ending
<1> QED
  BY <1>4, <1>5, <1>6, <1>7, <1>8 DEF RoundKept

\* The main loop opens a round for the requesters it has gathered ...
LEMMA DetectKeeps ==
  ASSUME Undisturbed, RoundInv, NEW t \in Threads, TickDetect(t)
  PROVE  RoundKept
<1>0. /\ TypeInv /\ frame[t] \in Frame /\ pc[t] = "tick_affected" /\ frame[t].targets # {}
      /\ t = "main" /\ \A u \in Threads \ {t} : u = "transport"
  BY FrameTypes, WhoseRound
  DEF RoundInv, TickDetect, PlacesOK, HandlerPlaces, Undisturbed
<1>1. CASE state # "IDLE" /\ Finish(t) /\ UNCHANGED restart
  <2>1. OthersStay(t) /\ pc'[t] = "idle"
    BY <1>0, <1>1, GotoOthers DEF Finish, Labels
  <2>2. Aside(t)
    BY <1>0, <2>1 DEF Aside, RoundPlaces, Notifying, Restarting, Ending, TickPlaces
  <2>3. UNCHANGED <<restart, clients>>
    BY <1>1 DEF TickDetect
  <2> QED
    BY <2>2, <2>3, AsideKeeps
<1>2. CASE Fsm!DetectKilled(frame[t].done, frame[t].targets) /\ Goto(t, "tick_notify", frame[t])
  <2>1. /\ state = "IDLE" /\ state' = "NOTIFYING" /\ clock' = "running"
        /\ pending' = frame[t].targets /\ notified' = frame[t].targets
        /\ UNCHANGED <<blocked, answered, acks>>
    BY <1>2 DEF TickDetect, Fsm!DetectKilled, clients
  <2>2. OthersStay(t) /\ pc'[t] = "tick_notify" /\ frame'[t] = frame[t]
    BY <1>0, <1>2, GotoOthers DEF Labels, LockedSections
  <2>3. PlacesOK'
    BY <1>0, <2>1, <2>2 DEF RoundInv, PlacesOK, OthersStay, TickPlaces
  <2>4. ASSUME NEW u \in Threads, u # t
        PROVE  pc[u] \notin RoundPlaces \ {"send_done"}
    BY <1>0, <2>1, <2>4, WhoseRound DEF RoundInv, ThreadAgrees, RoundPlaces, Notifying
  <2>5. PhaseOwned'
    BY <2>1, <2>2, <2>4 DEF PhaseOwned, OthersStay, RoundPlaces, Notifying, Restarting, Ending
  <2>6. blocked \subseteq answered /\ acks = {} /\ notified = {}
    BY <2>1 DEF RoundInv, AnswersAgree
  <2>7. AnswersAgree'
    BY <2>1, <2>6 DEF AnswersAgree, AnsweredBeforeRestart
  <2>8. BlockedAccountedFor'
    BY <1>0, <2>1, <2>2, <2>6 DEF RoundInv, BlockedAccountedFor, OthersStay
  <2>9. ASSUME NEW u \in Threads PROVE ThreadAgrees(u)'
    BY <1>0, <2>1, <2>2, <2>4
    DEF ThreadAgrees, OthersStay, RoundPlaces, Notifying, Restarting, Ending
  <2> QED
    BY <2>3, <2>5, <2>7, <2>8, <2>9 DEF RoundKept
<1> QED
  BY <1>1, <1>2 DEF TickDetect

\* ... tells the FSM that they are notified ...
LEMMA NotifyKeeps ==
  ASSUME Undisturbed, RoundInv, NEW t \in Threads, TickNotify(t)
  PROVE  RoundKept
<1>0. /\ TypeInv /\ pc[t] = "tick_notify" /\ state = "NOTIFYING"
      /\ t = "main" /\ \A u \in Threads \ {t} : u = "transport"
  BY WhoseRound DEF RoundInv, ThreadAgrees, TickNotify, Notifying
<1>1. /\ state' = "AWAITING_ACK" /\ Goto(t, "send_notify", frame[t])
      /\ UNCHANGED <<pending, notified, clock, blocked, answered, acks>>
  BY <1>0 DEF TickNotify, Fsm!NotificationsSent, clients
<1>2. OthersStay(t) /\ pc'[t] = "send_notify" /\ frame'[t] = frame[t]
  BY <1>0, <1>1, GotoOthers DEF Labels, LockedSections
<1>3. /\ frame[t].targets = notified /\ pending = notified /\ notified # {}
      /\ blocked \subseteq answered /\ acks = {}
  BY <1>0 DEF RoundInv, ThreadAgrees, AnswersAgree
<1>4. PlacesOK'
  BY <1>0, <1>1, <1>2 DEF RoundInv, PlacesOK, OthersStay, TickPlaces
<1>5. ASSUME NEW u \in Threads, u # t
      PROVE  pc[u] \notin RoundPlaces \ {"send_done"}
  BY <1>0, <1>5, WhoseRound DEF RoundInv, ThreadAgrees, RoundPlaces, Notifying
<1>6. PhaseOwned'
  BY <1>1, <1>2, <1>3, <1>5 DEF PhaseOwned, OthersStay, RoundPlaces, Notifying, Restarting, Ending
<1>7. AnswersAgree'
  BY <1>1, <1>3 DEF AnswersAgree, AnsweredBeforeRestart
<1>8. BlockedAccountedFor'
  BY <1>0, <1>1, <1>2 DEF RoundInv, BlockedAccountedFor, OthersStay
<1>9. ASSUME NEW u \in Threads PROVE ThreadAgrees(u)'
  BY <1>1, <1>2, <1>3, <1>5
  DEF ThreadAgrees, OthersStay, RoundPlaces, Notifying, Restarting, Ending
<1> QED
  BY <1>4, <1>6, <1>7, <1>8, <1>9 DEF RoundKept

\* ... and sends the messages, after which they can answer.
LEMMA SendKeeps ==
  ASSUME Undisturbed, RoundInv, NEW t \in Threads, SendNotify(t)
  PROVE  RoundKept
<1> DEFINE told == frame[t].targets \cap Panels
<1>0. /\ TypeInv /\ pc[t] = "send_notify" /\ state = "AWAITING_ACK"
      /\ t = "main" /\ \A u \in Threads \ {t} : u = "transport"
      /\ frame[t].targets = notified /\ pending = notified /\ notified # {}
      /\ blocked \subseteq answered /\ acks = {}
  BY WhoseRound DEF RoundInv, ThreadAgrees, SendNotify
<1>1. /\ blocked' = blocked \cup told /\ answered' = answered \ told
      /\ Goto(t, "idle", IdleFrame)
      /\ UNCHANGED <<state, pending, notified, clock, acks>>
  BY DEF SendNotify, Finish, restart
<1>2. OthersStay(t) /\ pc'[t] = "idle"
  BY <1>0, <1>1, GotoOthers DEF Labels
<1>3. PlacesOK'
  BY <1>0, <1>1, <1>2 DEF RoundInv, PlacesOK, OthersStay, TickPlaces
<1>4. ASSUME NEW u \in Threads, u # t
      PROVE  pc[u] \notin RoundPlaces \ {"send_done"}
  BY <1>0, <1>4, WhoseRound DEF RoundInv, ThreadAgrees, RoundPlaces, Notifying
<1>5. PhaseOwned'
  BY <1>0, <1>1, <1>2, <1>4 DEF PhaseOwned, OthersStay, RoundPlaces, Notifying, Restarting, Ending
<1>6. AnswersAgree'
  BY <1>0, <1>1 DEF AnswersAgree, AnsweredBeforeRestart
<1>7. BlockedAccountedFor'
  BY <1>0, <1>1, <1>2 DEF RoundInv, BlockedAccountedFor, OthersStay
<1>8. ASSUME NEW u \in Threads PROVE ThreadAgrees(u)'
  BY <1>1, <1>2, <1>4
  DEF ThreadAgrees, OthersStay, RoundPlaces, Notifying, Restarting, Ending
<1> QED
  BY <1>3, <1>5, <1>6, <1>7, <1>8 DEF RoundKept

\* A panel answers a notification it has not answered yet.
LEMMA PanelKeeps ==
  ASSUME RoundInv, NEW p \in Panels, PanelReady(p)
  PROVE  RoundKept
<1>1. /\ p \in blocked \ answered /\ acks' = acks \cup {p} /\ answered' = answered \cup {p}
      /\ UNCHANGED <<state, pending, notified, clock, blocked, pc, frame>>
  BY DEF PanelReady, restart, threads
<1>2. state = "AWAITING_ACK" /\ \A u \in Threads : pc[u] # "send_notify"
  BY <1>1 DEF RoundInv, AnswersAgree, ThreadAgrees
<1>3. PlacesOK' /\ PhaseOwned' /\ BlockedAccountedFor'
  BY <1>1 DEF RoundInv, PlacesOK, PhaseOwned, BlockedAccountedFor
<1>4. AnswersAgree'
  BY <1>1, <1>2 DEF RoundInv, AnswersAgree, AnsweredBeforeRestart
<1>5. ASSUME NEW u \in Threads PROVE ThreadAgrees(u)'
  BY <1>1, <1>2 DEF RoundInv, ThreadAgrees
<1> QED
  BY <1>3, <1>4, <1>5 DEF RoundKept

LEMMA StillKeeps ==
  ASSUME RoundInv, UNCHANGED <<restart, clients, threads>>
  PROVE  RoundKept
<1>1. UNCHANGED <<state, pending, notified, clock, blocked, answered, acks, pc, frame>>
  BY DEF restart, clients, threads
<1> QED
  BY <1>1 DEF RoundInv, RoundKept, PlacesOK, PhaseOwned, AnswersAgree, AnsweredBeforeRestart,
    BlockedAccountedFor, ThreadAgrees

LEMMA RoundInvariant ==
  ASSUME Undisturbed
  PROVE  Spec => []RoundInv
<1>1. Init => RoundInv
  <2> SUFFICES ASSUME Init PROVE RoundInv
    OBVIOUS
  <2>1. TypeInv
    BY HubInit DEF HubInv
  <2>2. /\ state = "IDLE" /\ pending = {} /\ notified = {} /\ clock = "unset"
        /\ blocked = {} /\ answered = {} /\ acks = {}
        /\ \A t \in Threads : pc[t] = "idle"
    BY DEF Init, Fsm!FsmInit
  <2>3. PlacesOK
    BY <2>2 DEF PlacesOK, TickPlaces, HandlerPlaces
  <2>4. PhaseOwned
    BY <2>2 DEF PhaseOwned, Notifying, Restarting, Ending
  <2>5. AnswersAgree /\ BlockedAccountedFor
    BY <2>2 DEF AnswersAgree, AnsweredBeforeRestart, BlockedAccountedFor
  <2>6. \A t \in Threads : ThreadAgrees(t)
    BY <2>2 DEF ThreadAgrees, Restarting, Ending
  <2> QED
    BY <2>1, <2>3, <2>4, <2>5, <2>6 DEF RoundInv
<1>2. HubInv' /\ RoundInv /\ [Next]_vars => RoundInv'
  <2> SUFFICES ASSUME HubInv', RoundInv, [Next]_vars PROVE RoundInv'
    OBVIOUS
  <2>0. TypeInv /\ TypeInv' /\ PlacesOK
    BY DEF RoundInv, HubInv
  <2>1. ASSUME NEW t \in Threads, Continue(t) \/ Tick(t) \/ Request(t)
        PROVE  RoundKept
    <3>1. \/ t = "transport" /\ (PlainHandler(t) \/ Restarts(t) \/ RoundHandler(t))
          \/ t = "main" /\ (PlainTick(t) \/ RoundTick(t))
      BY <2>0, <2>1, UndisturbedStep
    <3>2. CASE (t = "transport" /\ PlainHandler(t)) \/ (t = "main" /\ PlainTick(t))
      BY <2>0, <3>2, PlainSteps, AsideKeeps
    <3>3. CASE t = "transport" /\ (Restarts(t) \/ RoundHandler(t))
      BY <3>3, RestartsKeep, ReadyKeeps, BeginKeeps, EndKeeps, DoneKeeps DEF RoundHandler
    <3>4. CASE t = "main" /\ RoundTick(t)
      BY <3>4, DetectKeeps, NotifyKeeps, SendKeeps DEF RoundTick
    <3> QED
      BY <3>1, <3>2, <3>3, <3>4
  <2>2. ASSUME NEW p \in Panels, PanelReady(p) PROVE RoundKept
    BY <2>2, PanelKeeps
  <2>3. ASSUME (\E n \in Procs : Crash(n)) \/ UNCHANGED vars PROVE RoundKept
    <3>1. UNCHANGED <<restart, clients, threads>>
      BY <2>3 DEF Crash, vars
    <3> QED
      BY <3>1, StillKeeps
  <2>4. ~TimeElapses
    BY DEF Undisturbed, TimeElapses
  <2>5. RoundKept
    BY <2>1, <2>2, <2>3, <2>4 DEF Next, Environment
  <2> QED
    BY <2>0, <2>5 DEF RoundInv, RoundKept
<1> QED
  BY <1>1, <1>2, HubInvariant, PTL DEF Spec

\* No client is surprised by a restart: however handlers, ticks, crashes and answers
\* interleave, the processes are restarted when every notified panel has answered.
THEOREM AnsweredFirst ==
  ASSUME Undisturbed
  PROVE  Spec => []AnsweredBeforeRestart
<1>1. RoundInv => AnsweredBeforeRestart
  BY DEF RoundInv, AnswersAgree
<1> QED
  BY <1>1, RoundInvariant, PTL

\* A panel that was told to get ready is remembered until it is told of the end: in
\* the FSM, or in the messages the handler of the last answer is about to send.
THEOREM NobodyForgotten ==
  ASSUME Undisturbed
  PROVE  Spec => []BlockedAccountedFor
<1>1. RoundInv => BlockedAccountedFor
  BY DEF RoundInv
<1> QED
  BY <1>1, RoundInvariant, PTL

\* Each phase of a round that waits for no panel has the one thread that ends it.
THEOREM PhasesAreOwned ==
  ASSUME Undisturbed
  PROVE  Spec => []PhaseOwned
<1>1. RoundInv => PhaseOwned
  BY DEF RoundInv
<1> QED
  BY <1>1, RoundInvariant, PTL

-----------------------------------------------------------------------------
(* Requesters are connected.                                                *)

StartPlaces == {"start_lock", "start", "start_record", "start_rollback"}

\* Whoever a start request is at work for has not left meanwhile: the thread that
\* would let the panel leave is busy with the request.
StartersConnected ==
  \A t \in Threads : pc[t] \in StartPlaces => frame[t].who \in connected

RequestersInv == TypeInv /\ PlacesOK /\ StartersConnected /\ RequestersConnected

\* A step gets to a start request with a panel that is connected.
LEMMA StarterStep ==
  ASSUME TypeInv, NEW t \in Threads, pc'[t] \in StartPlaces,
         \/ t = "transport" /\ (PlainHandler(t) \/ Restarts(t) \/ RoundHandler(t))
         \/ t = "main" /\ (PlainTick(t) \/ RoundTick(t))
  PROVE  \/ pc[t] \in StartPlaces /\ frame'[t].who = frame[t].who
         \/ frame'[t].who \in connected /\ UNCHANGED connected
<1> DEFINE f == frame[t]
<1>0. f \in Frame
  BY FrameTypes
<1>1. ASSUME NEW label \in Labels, NEW g, Goto(t, label, g)
      PROVE  label \in StartPlaces /\ frame'[t] = g
  BY <1>1, GotoOthers
<1>2. UNCHANGED threads => pc[t] \in StartPlaces /\ frame'[t].who = f.who
  BY DEF threads
<1> USE DEF Finish, Labels, LockedSections, StartPlaces
<1>3. CASE StartLock(t) \/ StartRecord(t)
  <2>1. \/ frame'[t] = f
        \/ frame'[t] = [f EXCEPT !.done = @ \cup {f.cur}, !.cur = None]
        \/ frame'[t] = [f EXCEPT !.todo = f.done]
    BY <1>1, <1>3 DEF StartLock, StartRecord
  <2> QED
    BY <1>0, <1>3, <2>1 DEF StartLock, StartRecord, Frame
<1>4. CASE StartProcess(t) \/ StartRollback(t)
  <2>1. \E n, ok : \/ frame'[t] = Without(f, n)
                   \/ frame'[t] = [Working(f, n) EXCEPT !.ok = ok]
    <3>1. CASE StartProcess(t)
      BY <1>1, <3>1 DEF StartProcess
    <3>2. CASE StartRollback(t)
      BY <1>1, <3>2 DEF StartRollback
    <3> QED
      BY <1>4, <3>1, <3>2
  <2> QED
    BY <1>0, <1>4, <2>1 DEF StartProcess, StartRollback, Without, Working, Frame
<1>5. ASSUME NEW r \in Requesters, NEW S \in SUBSET Procs, RequestStart(t, r, S),
             t = "transport"
      PROVE  frame'[t].who \in connected /\ UNCHANGED connected
  <2>1. frame'[t] = [IdleFrame EXCEPT !.who = r, !.todo = S]
    BY <1>1, <1>5 DEF RequestStart
  <2> QED
    BY <1>5, <2>1 DEF RequestStart, MayRequest, IdleFrame
<1>6. ~StartEnd(t) /\ ~StopLock(t) /\ ~StopExec(t) /\ ~StopEnd(t)
  BY <1>1 DEF StartEnd, StopLock, StopExec, StopEnd
<1>7. ~StopRelease(t)
  BY <1>1 DEF StopRelease
<1>8. ~UnregisterRelease(t) /\ ~UnregisterRemove(t) /\ ~UnregisterEnd(t) /\ ~UnregisterStop(t)
  <2>1. ~UnregisterRelease(t) /\ ~UnregisterRemove(t) /\ ~UnregisterEnd(t)
    BY <1>1 DEF UnregisterRelease, UnregisterRemove, UnregisterEnd
  <2>2. ASSUME UnregisterStop(t) PROVE FALSE
    <3>1. PICK n \in frame[t].todo : Goto(t, "unregister_remove", Working(frame[t], n))
      BY <2>2 DEF UnregisterStop
    <3> QED
      BY <1>1, <3>1
  <2> QED
    BY <2>1, <2>2
<1>9. ASSUME NEW p \in Panels
      PROVE  /\ ~HandleUnregister(t, p)
             /\ HandleRegister(t, p) => UNCHANGED threads
             /\ HandleRestartReady(t, p) => UNCHANGED threads
  BY <1>1 DEF HandleUnregister, HandleRegister, HandleRestartReady, threads
<1>10. ASSUME NEW r \in Requesters, NEW S \in SUBSET Procs, NEW force \in BOOLEAN
       PROVE  ~RequestStop(t, r, S, force)
  BY <1>1 DEF RequestStop
<1>11. ~Restarts(t)
  <2>1. Restarts(t) => pc'[t] \in Restarting
    BY RestartSteps
  <2> QED
    BY <2>1 DEF Restarting
<1>12. /\ ~RestartBegin(t) /\ ~RestartCompleted(t) /\ ~RestartSnapshot(t) /\ ~RestartReset(t)
       /\ ~SendDone(t)
  BY <1>1 DEF RestartBegin, RestartCompleted, RestartSnapshot, RestartReset, SendDone
<1>13. ~PlainTick(t) /\ ~RoundTick(t)
  <2>1. ~TickHealth(t)
    BY <1>1 DEF TickHealth
  <2>2. ~TickAffected(t)
    BY <1>1 DEF TickAffected
  <2>3. /\ ~TickActive(t) /\ ~TickMarkDead(t) /\ ~TickIdle(t) /\ ~TickDetect(t) /\ ~TickNotify(t)
        /\ ~SendNotify(t)
    BY <1>1 DEF TickActive, TickMarkDead, TickIdle, TickDetect, TickNotify, SendNotify
  <2> QED
    BY <2>1, <2>2, <2>3 DEF PlainTick, RoundTick
<1> HIDE DEF StartPlaces
<1> QED
  BY <1>2, <1>3, <1>4, <1>5, <1>6, <1>7, <1>8, <1>9, <1>10, <1>11, <1>12, <1>13
  DEF PlainHandler, RoundHandler

\* Only an unregistration takes a panel off the connections.
LEMMA ConnectedSteps ==
  ASSUME NEW t \in Threads, \A p \in Panels : ~HandleUnregister(t, p),
         \/ PlainHandler(t) \/ Restarts(t) \/ RoundHandler(t) \/ PlainTick(t) \/ RoundTick(t)
  PROVE  connected \subseteq connected'
<1>1. CASE Restarts(t) \/ RoundHandler(t)
  BY <1>1 DEF Restarts, RoundHandler, RestartRead, RestartLock, RestartStop, RestartStart,
    RestartRecord, RestartUnlock, HandleRestartReady, RestartBegin, RestartCompleted,
    RestartSnapshot, RestartReset, SendDone
<1>2. CASE PlainTick(t) \/ RoundTick(t)
  BY <1>2 DEF PlainTick, RoundTick, TickActive, TickHealth, TickMarkDead, TickAffected, TickIdle,
    TickDetect, TickNotify, SendNotify
<1>3. CASE PlainHandler(t)
  BY <1>3 DEF PlainHandler, UnregisterRelease, UnregisterStop, UnregisterRemove, UnregisterEnd,
    StartLock, StartProcess, StartRecord, StartRollback, StartEnd, StopLock, StopRelease,
    StopExec, StopEnd, HandleRegister, RequestStart, RequestStop
<1> QED
  BY <1>1, <1>2, <1>3

\* unregister_release is left by UnregisterRelease only, which takes the panel off
\* every entry; HandleUnregister gets there with the panel it takes off.
LEMMA ReleaseSteps ==
  ASSUME TypeInv, NEW t \in Threads, NEW u \in Threads, OthersStay(t),
         Continue(t) \/ Tick(t) \/ Request(t), ~UnregisterRelease(t),
         pc[u] = "unregister_release"
  PROVE  pc'[u] = "unregister_release" /\ frame'[u] = frame[u]
<1>1. CASE u # t
  BY <1>1 DEF OthersStay
<1>2. CASE u = t
  BY <1>2 DEF Continue, Tick, Request, UnregisterStop,
    UnregisterRemove, UnregisterEnd, StartLock, StartProcess, StartRecord, StartRollback,
    StartEnd, StopLock, StopRelease, StopExec, StopEnd, RestartBegin, RestartRead,
    RestartLock, RestartStop, RestartStart, RestartRecord, RestartUnlock,
    RestartCompleted, RestartSnapshot, RestartReset, SendDone, TimeoutSnapshot,
    TimeoutReset, TickTimeout, TickActive, TickHealth, TickMarkDead, TickAffected,
    TickIdle, TickDetect, TickNotify, SendNotify, ResetLock, ResetStop, ResetClear,
    ResetConnections, ResetFsm, RegisterAdminProcess, UnregisterAdminProcess, ShutdownRead,
    ShutdownStop, ShutdownClear, ShutdownConnections, TransportStop, HandleRegister,
    HandleUnregister, HandleRestartReady, RequestStart, RequestStop, ResetBegin, AdminStart,
    AdminStop, ShutdownBegin
<1> QED
  BY <1>1, <1>2

\* A start request enters nobody but the panel it is at work for.
LEMMA OneRequester ==
  ASSUME TypeInv, NEW t \in Threads, StartProcess(t), NEW m \in Procs
  PROVE  registry'[m].users \subseteq registry[m].users \cup {frame[t].who}
<1> DEFINE f == frame[t]
<1>1. registry \in Registries /\ f \in Frame /\ f.who \in Requesters
  BY StateTypes, FrameTypes DEF FrameOK, StartProcess
<1>2. PICK n \in f.todo : registry' = WithState(Register(registry, n, f.who), n, "STARTING")
  BY DEF StartProcess
<1>3. n \in Procs /\ Register(registry, n, f.who) \in Registries
  BY <1>1, WorkType, RegisterType
<1>4. registry'[m].users \subseteq Register(registry, n, f.who)[m].users
  BY <1>2, <1>3, ShrinkOps DEF Shrinks, ProcessState
<1>5. Register(registry, n, f.who)[m].users \subseteq registry[m].users \cup {f.who}
  BY <1>1, <1>3 DEF Register, Registries, ProcessInfo
<1> QED
  BY <1>4, <1>5

LEMMA RequestersStep ==
  ASSUME Undisturbed, RequestersInv, NEW t \in Threads, Continue(t) \/ Tick(t) \/ Request(t)
  PROVE  StartersConnected' /\ RequestersConnected'
<1>0. TypeInv /\ PlacesOK /\ t \in {"transport", "main"}
  BY DEF RequestersInv, Undisturbed
<1>1. \/ t = "transport" /\ (PlainHandler(t) \/ Restarts(t) \/ RoundHandler(t))
      \/ t = "main" /\ (PlainTick(t) \/ RoundTick(t))
  BY <1>0, UndisturbedStep
<1>2. OthersStay(t)
  BY <1>0, OneThread DEF Elsewhere
<1>3. ASSUME NEW u \in Threads, u # t, pc[u] \in StartPlaces
      PROVE  t = "main"
  BY <1>0, <1>3 DEF Undisturbed, PlacesOK, StartPlaces, TickPlaces
<1>4. CASE \E p \in Panels : HandleUnregister(t, p)
  <2>1. PICK p \in Panels : HandleUnregister(t, p)
    BY <1>4
  <2>2. /\ connected' = connected \ {p} /\ UNCHANGED registry /\ MayRequest(t, p)
        /\ pc[t] = "idle" /\ Goto(t, "unregister_release", [IdleFrame EXCEPT !.who = p])
    BY <2>1 DEF HandleUnregister
  <2>3. pc'[t] = "unregister_release" /\ frame'[t].who = p
    BY <1>0, <2>2, GotoOthers DEF Labels, IdleFrame
  <2>4. t = "transport"
    BY <1>0, <2>2 DEF MayRequest
  <2>5. StartersConnected'
    BY <1>2, <1>3, <2>3, <2>4 DEF StartersConnected, OthersStay, StartPlaces
  <2>6. RequestersConnected'
    BY <1>2, <2>2, <2>3 DEF RequestersInv, RequestersConnected, OthersStay
  <2> QED
    BY <2>5, <2>6
<1>5. CASE \A p \in Panels : ~HandleUnregister(t, p)
  <2>1. connected \subseteq connected'
    BY <1>1, <1>5, ConnectedSteps
  <2>2. StartersConnected'
    <3> SUFFICES ASSUME NEW u \in Threads, pc'[u] \in StartPlaces
                 PROVE  frame'[u].who \in connected'
      BY DEF StartersConnected
    <3>1. CASE u # t
      BY <1>2, <2>1, <3>1 DEF RequestersInv, StartersConnected, OthersStay
    <3>2. CASE u = t
      BY <1>0, <1>1, <2>1, <3>2, StarterStep DEF RequestersInv, StartersConnected
    <3> QED
      BY <3>1, <3>2
  <2>3. RequestersConnected'
    <3> SUFFICES ASSUME NEW n \in Procs, NEW p \in registry'[n].users \cap Panels, p \notin connected'
                 PROVE  \E u \in Threads : pc'[u] = "unregister_release" /\ frame'[u].who = p
      BY DEF RequestersConnected
    <3>1. ~RegisterAdminProcess(t)
      BY <1>0 DEF PlacesOK, RegisterAdminProcess, TickPlaces, HandlerPlaces
    <3>2. p \in registry[n].users
      <4>1. CASE StartProcess(t)
        <5>1. frame[t].who \in connected
          BY <4>1 DEF RequestersInv, StartersConnected, StartProcess, StartPlaces
        <5> QED
          BY <1>0, <2>1, <4>1, <5>1, OneRequester
      <4>2. CASE ~StartProcess(t)
        BY <1>0, <3>1, <4>2, ShrinkStep DEF Shrinks
      <4> QED
        BY <4>1, <4>2
    <3>3. PICK u \in Threads : pc[u] = "unregister_release" /\ frame[u].who = p
      BY <2>1, <3>2 DEF RequestersInv, RequestersConnected
    <3>4. CASE UnregisterRelease(t)
      <4>1. u = t
        BY <1>0, <3>3, <3>4 DEF Undisturbed, PlacesOK, UnregisterRelease, TickPlaces
      <4>2. registry \in Registries /\ registry' = RemoveRequester(registry, p)
        BY <1>0, <3>3, <3>4, <4>1, StateTypes DEF UnregisterRelease
      <4>3. p \notin registry'[n].users
        BY <4>2 DEF RemoveRequester, Registries, ProcessInfo
      <4> QED
        BY <4>3
    <3>5. CASE ~UnregisterRelease(t)
      BY <1>0, <1>2, <3>3, <3>5, ReleaseSteps
    <3> QED
      BY <3>4, <3>5
  <2> QED
    BY <2>2, <2>3
<1> QED
  BY <1>4, <1>5

\* No process is kept for a panel that has left: whoever is entered as a requester is
\* connected, or about to be taken off, through every start, failure and restart.
THEOREM RequestersAreConnected ==
  ASSUME Undisturbed
  PROVE  Spec => []RequestersConnected
<1>1. Init => StartersConnected /\ RequestersConnected
  BY DEF Init, StartersConnected, StartPlaces, RequestersConnected, EmptyRegistry, NoEntry
<1>2. RoundInv /\ StartersConnected /\ RequestersConnected /\ [Next]_vars
        => (StartersConnected /\ RequestersConnected)'
  <2> SUFFICES ASSUME RoundInv, StartersConnected, RequestersConnected, [Next]_vars
               PROVE  StartersConnected' /\ RequestersConnected'
    OBVIOUS
  <2>1. RequestersInv
    BY DEF RoundInv, RequestersInv
  <2>2. CASE Environment \/ UNCHANGED vars
    <3>1. UNCHANGED <<connected, registry, pc, frame>>
      BY <2>2 DEF Environment, Crash, PanelReady, TimeElapses, vars, threads
    <3> QED
      BY <3>1 DEF StartersConnected, RequestersConnected
  <2> QED
    BY <2>1, <2>2, RequestersStep DEF Next
<1> QED
  BY <1>1, <1>2, RoundInvariant, PTL DEF Spec

-----------------------------------------------------------------------------
(* The round of the hub and the abstract one.                               *)

\* What is proved of the FSM alone, of the hub's.
FsmProofs == INSTANCE RestartStateMachine_proofs WITH Panels <- Requesters

\* The hub's steps are the steps of that machine, too.
LEMMA DrivesMachine == Spec => FsmProofs!FsmSpec
<1>1. Init => FsmProofs!FsmInit
  BY DEF Init, Fsm!FsmInit, FsmProofs!FsmInit
<1>2. [Fsm!FsmNext]_restart => [FsmProofs!FsmNext]_(FsmProofs!fsmVars)
  BY DEF Fsm!FsmNext, FsmProofs!FsmNext, restart, FsmProofs!fsmVars,
    Fsm!DetectKilled, FsmProofs!DetectKilled, Fsm!NotificationsSent, FsmProofs!NotificationsSent,
    Fsm!PanelAcknowledged, FsmProofs!PanelAcknowledged, Fsm!BeginRestart, FsmProofs!BeginRestart,
    Fsm!RestartCompleted, FsmProofs!RestartCompleted, Fsm!ResetToIdle, FsmProofs!ResetToIdle,
    Fsm!CheckTimeout, FsmProofs!CheckTimeout, Fsm!ForceFail, FsmProofs!ForceFail,
    Fsm!TimeElapses, FsmProofs!TimeElapses, Fsm!Retried, FsmProofs!Retried,
    Fsm!CanRetry, FsmProofs!CanRetry, Fsm!IsTimedOut, FsmProofs!IsTimedOut
<1>3. HubInv /\ [Next]_vars => [FsmProofs!FsmNext]_(FsmProofs!fsmVars)
  BY <1>2, FsmSteps DEF HubInv
<1> QED
  BY <1>1, <1>3, HubInvariant, PTL DEF Spec, FsmProofs!FsmSpec

\* Whatever handlers, ticks, timeouts and resets do to it, the hub's FSM goes through
\* the abstract restart round: one at a time, no restart before the last answer.
THEOREM HubRounds == Spec => FsmProofs!RefinesCycle
<1>1. FsmProofs!FsmSpec => FsmProofs!RefinesCycle
  BY FsmProofs!Refinement, HubMaxRetryAssumption
<1> QED
  BY <1>1, DrivesMachine, PTL

\* In the hub, too, nothing of a round outlives it: an idle FSM names no process and
\* no panel, whoever reset it, and a round under way has a start time to run out.
THEOREM HubContext == Spec => []FsmProofs!ContextConsistent
<1>1. FsmProofs!FsmSpec => []FsmProofs!ContextConsistent
  BY FsmProofs!ContextHolds, HubMaxRetryAssumption
<1> QED
  BY <1>1, DrivesMachine, PTL
=============================================================================
