------------------------------- MODULE HubCore -------------------------------
(***************************************************************************)
(* ProcessHub/core/hub_core.py behind ProcessHub/runtime/server.py: the hub *)
(* as the threads that enter it.                                            *)
(*                                                                          *)
(*   transport   runs the message handlers one after the other              *)
(*   main        runs tick() in a loop, and the shutdown at its end         *)
(*   fleet       the hub agent's commands: start, stop, reset, no panel     *)
(*   admin       the web dashboard: reset, and processes started directly   *)
(*                                                                          *)
(* A step is one lock hold (connections, registry, FSM) or one executor     *)
(* call; _operation_lock spans several steps and is opLock.  Consecutive    *)
(* registry calls are one step where no other thread's step in between      *)
(* could tell.  A request's process list is worked off in any order.        *)
(***************************************************************************)
EXTENDS Naturals

CONSTANTS
  Panels,                  \* client panels
  Procs,                   \* managed processes
  Threads,                 \* the threads of this deployment
  None,                    \* no thread, no process, no panel
  MaxRetry,                \* max_retries of the restart FSM
  SimpleExecutor,          \* the executor is a SimpleExecutor, not a UnixExecutor
  StartsMayFail,           \* the executor may fail to start a process
  StopsMayFail,            \* a process may survive being killed
  RestartsMayTimeOut,      \* timeout_seconds may go by in a restart round
  MayShutDown              \* the main loop may end

FleetPanel == "fleet"
AdminPanel == "__admin__"
Requesters == Panels \cup {FleetPanel, AdminPanel}

ASSUME ThreadsAssumption ==
  /\ Threads \subseteq {"transport", "main", "fleet", "admin"}
  /\ None \notin Threads /\ None \notin Procs

ASSUME HubMaxRetryAssumption == MaxRetry \in Nat

VARIABLES
  connected,               \* _connections: the registered panels
  registry,                \* _registry
  state, killed, pending, notified, clock, retryCount,    \* _restart_fsm
  running,                 \* processes whose handle in the executor is alive
  leaked,                  \* processes of which an instance was left without a handle
  survived,                \* running ones whose kill has failed, with the handle kept
  opLock,                  \* holder of _operation_lock
  pc, frame,               \* where each thread is, and its local variables
  blocked,                 \* panels told RESTART_NOTIFY and not RESTART_DONE yet
  answered,                \* panels that have answered the last RESTART_NOTIFY
  acks                     \* panels whose RESTART_READY is on its way

INSTANCE ProcessRegistry
Fsm == INSTANCE RestartStateMachine WITH Panels <- Requesters

restart == <<state, killed, pending, notified, clock, retryCount>>
world == <<running, leaked, survived>>
clients == <<blocked, answered, acks>>
threads == <<pc, frame>>
vars == <<connected, registry, restart, world, opLock, threads, clients>>

\* What is inside "with self._operation_lock" ...
LockedSections ==
  {"start", "start_record", "start_rollback", "stop", "stop_exec",
   "restart", "restart_start", "restart_record", "reset"}

\* ... and the other places a thread can be at.
Labels == LockedSections \cup
  {"idle", "down", "unregister_release", "unregister_stop", "unregister_remove",
   "start_lock", "stop_lock", "restart_begin", "restart_read", "restart_lock",
   "restart_completed", "restart_snapshot", "restart_reset", "send_done",
   "timeout_snapshot", "timeout_reset", "tick_health", "tick_affected",
   "tick_notify", "send_notify", "reset_lock", "reset_connections", "reset_fsm",
   "admin_register", "admin_unregister", "shutdown_read", "shutdown",
   "shutdown_connections", "shutdown_send"}

Frame == [who : Requesters \cup {None},      \* the requesting panel
          todo : SUBSET Procs,               \* names still to be worked off
          done : SUBSET Procs,               \* started_procs, dead or failed_procs
          cur : Procs \cup {None},           \* the name being worked on
          ok : BOOLEAN,                      \* the executor's last answer
          force : BOOLEAN,
          targets : SUBSET Requesters]       \* panels to be sent a message

IdleFrame == [who |-> None, todo |-> {}, done |-> {}, cur |-> None,
              ok |-> TRUE, force |-> FALSE, targets |-> {}]

\* A thread is done with n, or takes n up.
Without(f, n) == [f EXCEPT !.todo = @ \ {n}]
Working(f, n) == [f EXCEPT !.todo = @ \ {n}, !.cur = n]

Init ==
  /\ connected = {} /\ registry = EmptyRegistry /\ Fsm!FsmInit
  /\ running = {} /\ leaked = {} /\ survived = {} /\ opLock = None
  /\ pc = [t \in Threads |-> "idle"] /\ frame = [t \in Threads |-> IdleFrame]
  /\ blocked = {} /\ answered = {} /\ acks = {}

Goto(t, label, locals) ==
  /\ pc' = [pc EXCEPT ![t] = label]
  /\ frame' = [frame EXCEPT ![t] = locals]

Finish(t) == Goto(t, "idle", IdleFrame)

HubUp == \A t \in Threads : pc[t] # "down"

Acquire(t) == opLock = None /\ opLock' = t
Release(t) == opLock = t /\ opLock' = None

-----------------------------------------------------------------------------
(* The executor as the core sees it.  SimpleExecutor.start looks first      *)
(* whether the process runs, UnixExecutor's starts a second instance.  Its  *)
(* stop returns a (bool, str) pair, which the core takes for True, where    *)
(* UnixExecutor's returns a bool.  When a stop ends in an exception, be it  *)
(* that the process is still there after the kill, SimpleExecutor keeps its *)
(* handle and UnixExecutor drops it.                                        *)

ExecStart(n, ok) ==
  \/ /\ ok
     /\ running' = running \cup {n}
     /\ leaked' = IF n \in running /\ ~SimpleExecutor
                  THEN leaked \cup {n} ELSE leaked
     /\ UNCHANGED survived
  \/ /\ ~ok /\ StartsMayFail
     /\ SimpleExecutor => n \notin running
     /\ UNCHANGED world
  \/ /\ ~ok /\ StartsMayFail      \* the second instance exits, and took the handle
     /\ n \in running /\ ~SimpleExecutor
     /\ running' = running \ {n} /\ leaked' = leaked \cup {n}
     /\ UNCHANGED survived

Gone(n) ==
  running' = running \ {n} /\ survived' = survived \ {n} /\ UNCHANGED leaked

\* A graceful stop may time out and leave the process alone, and either kind may fail.
ExecStop(n, force, ok) ==
  \/ ok /\ Gone(n)
  \/ ~force /\ n \in running /\ ok = SimpleExecutor /\ UNCHANGED world
  \/ /\ StopsMayFail /\ SimpleExecutor /\ force /\ ok /\ n \in running
     /\ survived' = survived \cup {n} /\ UNCHANGED <<running, leaked>>
  \/ /\ StopsMayFail /\ ~SimpleExecutor /\ ~ok /\ n \in running
     /\ running' = running \ {n} /\ leaked' = leaked \cup {n}
     /\ UNCHANGED survived

\* A process exits by itself.
Crash(n) ==
  /\ n \in running /\ Gone(n)
  /\ UNCHANGED <<connected, registry, restart, opLock, threads, clients>>

-----------------------------------------------------------------------------
(* Panels.  A panel answers each RESTART_NOTIFY once; its messages arrive   *)
(* in the order it sent them, so a request follows its RESTART_READY.       *)

PanelReady(p) ==
  /\ p \in blocked \ answered /\ p \notin acks
  /\ acks' = acks \cup {p} /\ answered' = answered \cup {p}
  /\ UNCHANGED <<connected, registry, restart, world, opLock, threads, blocked>>

\* Who may ask thread t for a process: a registered panel, or a fleet command.
MayRequest(t, r) ==
  \/ t = "transport" /\ r \in connected \ acks
  \/ t = "fleet" /\ r = FleetPanel

HandleRegister(t, p) ==
  /\ HubUp /\ pc[t] = "idle" /\ p \notin acks
  /\ connected' = connected \cup {p}
  /\ UNCHANGED <<registry, restart, world, opLock, threads, clients>>

-----------------------------------------------------------------------------
(* handle_unregister, which does not take _operation_lock.                  *)

HandleUnregister(t, p) ==
  /\ HubUp /\ pc[t] = "idle" /\ MayRequest(t, p)
  /\ connected' = connected \ {p}
  /\ Goto(t, "unregister_release", [IdleFrame EXCEPT !.who = p])
  /\ UNCHANGED <<registry, restart, world, opLock, clients>>

\* Mutant: the orphans are collected, the requester stays in the other entries.
UnregisterReleaseForgets(t) ==
  LET f == frame[t] IN
  /\ pc[t] = "unregister_release"
  /\ registry' = registry
  /\ Goto(t, "unregister_stop", [f EXCEPT !.todo = Orphans(registry, f.who)])
  /\ UNCHANGED <<connected, restart, world, opLock, clients>>

UnregisterRelease(t) ==
  LET f == frame[t] IN
  /\ pc[t] = "unregister_release"
  /\ registry' = RemoveRequester(registry, f.who)
  /\ Goto(t, "unregister_stop", [f EXCEPT !.todo = Orphans(registry, f.who)])
  /\ UNCHANGED <<connected, restart, world, opLock, clients>>

UnregisterStop(t) ==
  LET f == frame[t] IN
  /\ pc[t] = "unregister_stop"
  /\ \E n \in f.todo, ok \in BOOLEAN :
       /\ ExecStop(n, TRUE, ok)
       /\ Goto(t, "unregister_remove", Working(f, n))
  /\ UNCHANGED <<connected, registry, restart, opLock, clients>>

UnregisterRemove(t) ==
  LET f == frame[t] IN
  /\ pc[t] = "unregister_remove"
  /\ registry' = Remove(registry, f.cur)
  /\ Goto(t, "unregister_stop", [f EXCEPT !.cur = None])
  /\ UNCHANGED <<connected, restart, world, opLock, clients>>

UnregisterEnd(t) ==
  /\ pc[t] = "unregister_stop" /\ frame[t].todo = {}
  /\ Finish(t)
  /\ UNCHANGED <<connected, registry, restart, world, opLock, clients>>

-----------------------------------------------------------------------------
(* handle_start_request.  is_registered was checked under another lock.     *)

RequestStart(t, r, S) ==
  /\ HubUp /\ pc[t] = "idle" /\ MayRequest(t, r)
  /\ Goto(t, "start_lock", [IdleFrame EXCEPT !.who = r, !.todo = S])
  /\ UNCHANGED <<connected, registry, restart, world, opLock, clients>>

StartLock(t) ==
  /\ pc[t] = "start_lock" /\ Acquire(t)
  /\ Goto(t, "start", frame[t])
  /\ UNCHANGED <<connected, registry, restart, world, clients>>

\* The entry is STARTING by the time the code looks whether it is RUNNING.
StartProcess(t) ==
  LET f == frame[t] IN
  /\ pc[t] = "start"
  /\ \E n \in f.todo, ok \in BOOLEAN :
       LET fresh == ~Exists(registry, n)
           reg == WithState(Register(registry, n, f.who), n, "STARTING")
       IN /\ registry' = reg
          /\ IF ~fresh /\ reg[n].state = "RUNNING"
             THEN Goto(t, "start", Without(f, n)) /\ UNCHANGED world
             ELSE /\ ExecStart(n, ok)
                  /\ Goto(t, "start_record", [Working(f, n) EXCEPT !.ok = ok])
  /\ UNCHANGED <<connected, restart, opLock, clients>>

\* Mutant: the failure is not recorded in the registry.
StartRecordForgets(t) ==
  LET f == frame[t] IN
  /\ pc[t] = "start_record"
  /\ IF f.ok
     THEN /\ registry' = WithState(registry, f.cur, "RUNNING")
          /\ Goto(t, "start", [f EXCEPT !.done = @ \cup {f.cur}, !.cur = None])
     ELSE /\ registry' = registry
          /\ Goto(t, "start_rollback", [f EXCEPT !.todo = f.done])
  /\ UNCHANGED <<connected, restart, world, opLock, clients>>

StartRecord(t) ==
  LET f == frame[t] IN
  /\ pc[t] = "start_record"
  /\ IF f.ok
     THEN /\ registry' = WithState(registry, f.cur, "RUNNING")
          /\ Goto(t, "start", [f EXCEPT !.done = @ \cup {f.cur}, !.cur = None])
     ELSE /\ registry' = WithState(registry, f.cur, "FAILED")
          /\ Goto(t, "start_rollback", [f EXCEPT !.todo = f.done])
  /\ UNCHANGED <<connected, restart, world, opLock, clients>>

\* Mutant: the rollback stops gracefully.
StartRollbackGraceful(t) ==
  LET f == frame[t] IN
  /\ pc[t] = "start_rollback"
  /\ \E n \in f.todo, ok \in BOOLEAN :
       /\ ExecStop(n, FALSE, ok)
       /\ registry' = WithState(registry, n, "STOPPED")
       /\ Goto(t, "start_rollback", Without(f, n))
  /\ UNCHANGED <<connected, restart, opLock, clients>>

\* Everything this request started is stopped again, whoever else uses it.
StartRollback(t) ==
  LET f == frame[t] IN
  /\ pc[t] = "start_rollback"
  /\ \E n \in f.todo, ok \in BOOLEAN :
       /\ ExecStop(n, TRUE, ok)
       /\ registry' = WithState(registry, n, "STOPPED")
       /\ Goto(t, "start_rollback", Without(f, n))
  /\ UNCHANGED <<connected, restart, opLock, clients>>

\* After a failure the panel gives up the failed process, not the stopped ones.
StartEnd(t) ==
  LET f == frame[t] IN
  /\ pc[t] \in {"start", "start_rollback"} /\ f.todo = {}
  /\ registry' = IF pc[t] = "start" THEN registry
                 ELSE Unregister(registry, f.cur, f.who)
  /\ Release(t) /\ Finish(t)
  /\ UNCHANGED <<connected, restart, world, clients>>

-----------------------------------------------------------------------------
(* handle_stop_request.                                                     *)

RequestStop(t, r, S, force) ==
  /\ HubUp /\ pc[t] = "idle" /\ MayRequest(t, r)
  /\ Goto(t, "stop_lock",
          [IdleFrame EXCEPT !.who = r, !.todo = S, !.force = force])
  /\ UNCHANGED <<connected, registry, restart, world, opLock, clients>>

\* Mutant: a stop request that does not take _operation_lock.
StopUnlocked(t) ==
  /\ pc[t] = "stop_lock"
  /\ Goto(t, "stop", frame[t])
  /\ UNCHANGED <<connected, registry, restart, world, opLock, clients>>

StopLock(t) ==
  /\ pc[t] = "stop_lock" /\ Acquire(t)
  /\ Goto(t, "stop", frame[t])
  /\ UNCHANGED <<connected, registry, restart, world, clients>>

\* The panel releases the process; it is stopped if that was the last requester.
StopRelease(t) ==
  LET f == frame[t] IN
  /\ pc[t] = "stop"
  /\ \E n \in f.todo :
       LET reg == Unregister(registry, n, f.who)
       IN IF CanStop(registry, n, f.who) \/ f.force
          THEN /\ registry' = WithState(reg, n, "STOPPING")
               /\ Goto(t, "stop_exec", Working(f, n))
          ELSE registry' = reg /\ Goto(t, "stop", Without(f, n))
  /\ UNCHANGED <<connected, restart, world, opLock, clients>>

\* Mutant: the request does not go on before the process has gone.
StopExecRetries(t) ==
  LET f == frame[t] IN
  /\ pc[t] = "stop_exec"
  /\ \E ok \in BOOLEAN :
       /\ ExecStop(f.cur, f.force, ok)
       /\ registry' = IF ok THEN Remove(registry, f.cur) ELSE registry
  /\ Goto(t, "stop", [f EXCEPT !.cur = None, !.todo = @ \cup ({f.cur} \cap running')])
  /\ UNCHANGED <<connected, restart, opLock, clients>>

StopExec(t) ==
  LET f == frame[t] IN
  /\ pc[t] = "stop_exec"
  /\ \E ok \in BOOLEAN :
       /\ ExecStop(f.cur, f.force, ok)
       /\ registry' = IF ok THEN Remove(registry, f.cur) ELSE registry
  /\ Goto(t, "stop", [f EXCEPT !.cur = None])
  /\ UNCHANGED <<connected, restart, opLock, clients>>

StopEnd(t) ==
  /\ pc[t] = "stop" /\ frame[t].todo = {}
  /\ Release(t) /\ Finish(t)
  /\ UNCHANGED <<connected, registry, restart, world, clients>>

-----------------------------------------------------------------------------
(* handle_restart_ready, of registered and unregistered panels alike, and   *)
(* _perform_restart for the last of them.                                   *)

\* Mutant: all_ready is computed before the panel is taken off the list.
HandleRestartReadyStale(t, p) ==
  /\ HubUp /\ pc[t] = "idle" /\ p \in acks
  /\ acks' = acks \ {p}
  /\ \/ /\ Fsm!PanelAcknowledged(p)
        /\ IF pending = {} THEN Goto(t, "restart_begin", IdleFrame)
                           ELSE UNCHANGED threads
     \/ state # "AWAITING_ACK" /\ UNCHANGED <<restart, threads>>
  /\ UNCHANGED <<connected, registry, world, opLock, blocked, answered>>

HandleRestartReady(t, p) ==
  /\ HubUp /\ pc[t] = "idle" /\ p \in acks
  /\ acks' = acks \ {p}
  /\ \/ /\ Fsm!PanelAcknowledged(p)
        /\ IF pending' = {} THEN Goto(t, "restart_begin", IdleFrame)
                            ELSE UNCHANGED threads
     \/ state # "AWAITING_ACK" /\ UNCHANGED <<restart, threads>>
  /\ UNCHANGED <<connected, registry, world, opLock, blocked, answered>>

RestartBegin(t) ==
  /\ pc[t] = "restart_begin"
  /\ \/ Fsm!BeginRestart /\ Goto(t, "restart_read", IdleFrame)
     \/ /\ ~(state = "AWAITING_ACK" /\ pending = {})
        /\ Finish(t) /\ UNCHANGED restart
  /\ UNCHANGED <<connected, registry, world, opLock, clients>>

\* killed_processes is read before _operation_lock is waited for.
RestartRead(t) ==
  /\ pc[t] = "restart_read"
  /\ Goto(t, "restart_lock", [IdleFrame EXCEPT !.todo = killed])
  /\ UNCHANGED <<connected, registry, restart, world, opLock, clients>>

RestartLock(t) ==
  /\ pc[t] = "restart_lock" /\ Acquire(t)
  /\ Goto(t, "restart", frame[t])
  /\ UNCHANGED <<connected, registry, restart, world, clients>>

RestartStop(t) ==
  LET f == frame[t] IN
  /\ pc[t] = "restart"
  /\ \E n \in f.todo, ok \in BOOLEAN :
       /\ ExecStop(n, TRUE, ok)
       /\ Goto(t, "restart_start", Working(f, n))
  /\ UNCHANGED <<connected, registry, restart, opLock, clients>>

RestartStart(t) ==
  LET f == frame[t] IN
  /\ pc[t] = "restart_start"
  /\ \E ok \in BOOLEAN :
       /\ ExecStart(f.cur, ok)
       /\ Goto(t, "restart_record", [f EXCEPT !.ok = ok])
  /\ UNCHANGED <<connected, registry, restart, opLock, clients>>

RestartRecord(t) ==
  LET f == frame[t]
      failed == IF f.ok THEN {} ELSE {f.cur}
  IN
  /\ pc[t] = "restart_record"
  /\ registry' = WithState(registry, f.cur, IF f.ok THEN "RUNNING" ELSE "FAILED")
  /\ Goto(t, "restart",
          [f EXCEPT !.cur = None, !.ok = TRUE, !.done = @ \cup failed])
  /\ UNCHANGED <<connected, restart, world, opLock, clients>>

RestartUnlock(t) ==
  /\ pc[t] = "restart" /\ frame[t].todo = {}
  /\ Release(t)
  /\ Goto(t, "restart_completed", frame[t])
  /\ UNCHANGED <<connected, registry, restart, world, clients>>

\* A refusal is ignored: the round may have timed out meanwhile.
RestartCompleted(t) ==
  /\ pc[t] = "restart_completed"
  /\ \/ Fsm!RestartCompleted(frame[t].done = {})
     \/ state # "RESTARTING" /\ UNCHANGED restart
  /\ Goto(t, "restart_snapshot", IdleFrame)
  /\ UNCHANGED <<connected, registry, world, opLock, clients>>

\* Mutant: the panels still pending are notified, not the notified ones.
RestartSnapshotPending(t) ==
  /\ pc[t] = "restart_snapshot"
  /\ Goto(t, "restart_reset", [IdleFrame EXCEPT !.targets = pending])
  /\ UNCHANGED <<connected, registry, restart, world, opLock, clients>>

RestartSnapshot(t) ==
  /\ pc[t] = "restart_snapshot"
  /\ Goto(t, "restart_reset", [IdleFrame EXCEPT !.targets = notified])
  /\ UNCHANGED <<connected, registry, restart, world, opLock, clients>>

RestartReset(t) ==
  /\ pc[t] = "restart_reset"
  /\ Fsm!ResetToIdle
  /\ Goto(t, "send_done", frame[t])
  /\ UNCHANGED <<connected, registry, world, opLock, clients>>

\* The server sends what the handler or the tick returned, after it returned.
SendDone(t) ==
  /\ pc[t] = "send_done"
  /\ blocked' = blocked \ frame[t].targets
  /\ Finish(t)
  /\ UNCHANGED <<connected, registry, restart, world, opLock, answered, acks>>

-----------------------------------------------------------------------------
(* tick.                                                                    *)

\* Mutant: the timeout is handled only while panels have not answered.
TickTimeoutUnanswered(t) ==
  /\ t = "main" /\ pc[t] = "idle"
  /\ Fsm!CheckTimeout
  /\ IF pending # {} THEN Goto(t, "timeout_snapshot", IdleFrame) ELSE UNCHANGED threads
  /\ UNCHANGED <<connected, registry, world, opLock, clients>>

TickTimeout(t) ==
  /\ t = "main" /\ pc[t] = "idle"
  /\ Fsm!CheckTimeout
  /\ Goto(t, "timeout_snapshot", IdleFrame)
  /\ UNCHANGED <<connected, registry, world, opLock, clients>>

\* _handle_restart_timeout: the killed processes are left as they are.
TimeoutSnapshot(t) ==
  /\ pc[t] = "timeout_snapshot"
  /\ Goto(t, "timeout_reset", [IdleFrame EXCEPT !.targets = notified])
  /\ UNCHANGED <<connected, registry, restart, world, opLock, clients>>

TimeoutReset(t) ==
  /\ pc[t] = "timeout_reset"
  /\ Fsm!ResetToIdle
  /\ Goto(t, "send_done", frame[t])
  /\ UNCHANGED <<connected, registry, world, opLock, clients>>

\* No round in progress, as far as the state read here tells.
TickActive(t) ==
  /\ t = "main" /\ pc[t] = "idle"
  /\ state \in {"IDLE", "DONE"} /\ ActiveProcesses(registry) # {}
  /\ Goto(t, "tick_health", [IdleFrame EXCEPT !.todo = ActiveProcesses(registry)])
  /\ UNCHANGED <<connected, registry, restart, world, opLock, clients>>

\* The health checker asks the executor for one process after the other.
TickHealth(t) ==
  LET f == frame[t] IN
  /\ pc[t] = "tick_health"
  /\ \E n \in f.todo :
       Goto(t, "tick_health",
            [Without(f, n) EXCEPT !.done = @ \cup ({n} \ running)])
  /\ UNCHANGED <<connected, registry, restart, world, opLock, clients>>

TickMarkDead(t) ==
  LET f == frame[t] IN
  /\ pc[t] = "tick_health" /\ f.todo = {}
  /\ registry' = MarkDead(registry, f.done)
  /\ Goto(t, "tick_affected", [f EXCEPT !.todo = f.done])
  /\ UNCHANGED <<connected, restart, world, opLock, clients>>

\* get_requesters, one process after the other.
TickAffected(t) ==
  LET f == frame[t] IN
  /\ pc[t] = "tick_affected"
  /\ \E n \in f.todo :
       Goto(t, "tick_affected",
            [Without(f, n) EXCEPT !.targets = @ \cup registry[n].users])
  /\ UNCHANGED <<connected, registry, restart, world, opLock, clients>>

\* No requesters, or no dead process in the first place.
TickIdle(t) ==
  /\ pc[t] = "tick_affected" /\ frame[t].todo = {} /\ frame[t].targets = {}
  /\ Finish(t)
  /\ UNCHANGED <<connected, registry, restart, world, opLock, clients>>

\* Refused when a round is not over, the processes being marked DEAD all the same.
TickDetect(t) ==
  LET f == frame[t] IN
  /\ pc[t] = "tick_affected" /\ f.todo = {} /\ f.targets # {}
  /\ \/ Fsm!DetectKilled(f.done, f.targets) /\ Goto(t, "tick_notify", f)
     \/ state # "IDLE" /\ Finish(t) /\ UNCHANGED restart
  /\ UNCHANGED <<connected, registry, world, opLock, clients>>

TickNotify(t) ==
  /\ pc[t] = "tick_notify"
  /\ \/ Fsm!NotificationsSent
     \/ state # "NOTIFYING" /\ UNCHANGED restart
  /\ Goto(t, "send_notify", frame[t])
  /\ UNCHANGED <<connected, registry, world, opLock, clients>>

SendNotify(t) ==
  LET told == frame[t].targets \cap Panels IN
  /\ pc[t] = "send_notify"
  /\ blocked' = blocked \cup told /\ answered' = answered \ told
  /\ Finish(t)
  /\ UNCHANGED <<connected, registry, restart, world, opLock, acks>>

\* timeout_seconds go by in the round in progress.
TimeElapses ==
  /\ RestartsMayTimeOut /\ Fsm!TimeElapses
  /\ UNCHANGED <<connected, registry, world, opLock, threads, clients>>

-----------------------------------------------------------------------------
(* reset, of the dashboard or by a fleet command.                           *)

ResetBegin(t) ==
  /\ t \in {"fleet", "admin"} /\ HubUp /\ pc[t] = "idle"
  /\ Goto(t, "reset_lock", [IdleFrame EXCEPT !.targets = connected])
  /\ UNCHANGED <<connected, registry, restart, world, opLock, clients>>

ResetLock(t) ==
  /\ pc[t] = "reset_lock" /\ Acquire(t)
  /\ Goto(t, "reset", [frame[t] EXCEPT !.todo = AllNames(registry)])
  /\ UNCHANGED <<connected, registry, restart, world, clients>>

ResetStop(t) ==
  LET f == frame[t] IN
  /\ pc[t] = "reset"
  /\ \E n \in f.todo, ok \in BOOLEAN :
       /\ ExecStop(n, TRUE, ok)
       /\ Goto(t, "reset", Without(f, n))
  /\ UNCHANGED <<connected, registry, restart, opLock, clients>>

ResetClear(t) ==
  /\ pc[t] = "reset" /\ frame[t].todo = {}
  /\ registry' = EmptyRegistry
  /\ Release(t)
  /\ Goto(t, "reset_connections", frame[t])
  /\ UNCHANGED <<connected, restart, world, clients>>

ResetConnections(t) ==
  /\ pc[t] = "reset_connections"
  /\ connected' = {}
  /\ Goto(t, "reset_fsm", frame[t])
  /\ UNCHANGED <<registry, restart, world, opLock, clients>>

ResetFsm(t) ==
  /\ pc[t] = "reset_fsm"
  /\ Fsm!ResetToIdle
  /\ Goto(t, "send_done", frame[t])     \* the reset notification releases panels
  /\ UNCHANGED <<connected, registry, world, opLock, clients>>

-----------------------------------------------------------------------------
(* The dashboard's callbacks start and stop with the executor itself, and   *)
(* tell the core afterwards: register_admin_process and its counterpart.    *)
(* The callbacks' executor is a SimpleExecutor, whose failed start and failed *)
(* stop change nothing, and the callback then tells the core nothing.       *)

AdminStart(t, n) ==
  /\ t = "admin" /\ HubUp /\ pc[t] = "idle"
  /\ ExecStart(n, TRUE)
  /\ Goto(t, "admin_register", [IdleFrame EXCEPT !.cur = n])
  /\ UNCHANGED <<connected, registry, restart, opLock, clients>>

\* Mutant: the dashboard's process is entered without _operation_lock.
RegisterAdminUnlocked(t) ==
  LET n == frame[t].cur IN
  /\ pc[t] = "admin_register"
  /\ registry' = IF registry[n].state \in {"RUNNING", "STARTING"} THEN registry
                 ELSE WithState(Register(registry, n, AdminPanel), n, "RUNNING")
  /\ Finish(t)
  /\ UNCHANGED <<connected, restart, world, opLock, clients>>

RegisterAdminProcess(t) ==
  LET n == frame[t].cur IN
  /\ pc[t] = "admin_register" /\ opLock = None
  /\ registry' = IF registry[n].state \in {"RUNNING", "STARTING"} THEN registry
                 ELSE WithState(Register(registry, n, AdminPanel), n, "RUNNING")
  /\ Finish(t)
  /\ UNCHANGED <<connected, restart, world, opLock, clients>>

AdminStop(t, n) ==
  /\ t = "admin" /\ HubUp /\ pc[t] = "idle"
  /\ Gone(n)
  /\ Goto(t, "admin_unregister", [IdleFrame EXCEPT !.cur = n])
  /\ UNCHANGED <<connected, registry, restart, opLock, clients>>

UnregisterAdminProcess(t) ==
  LET n == frame[t].cur
      reg == Unregister(registry, n, AdminPanel)
  IN
  /\ pc[t] = "admin_unregister" /\ opLock = None
  /\ registry' = IF CanStop(registry, n, AdminPanel)
                 THEN WithState(reg, n, "STOPPED") ELSE reg
  /\ Finish(t)
  /\ UNCHANGED <<connected, restart, world, opLock, clients>>

-----------------------------------------------------------------------------
(* The main loop ends: server.stop runs shutdown, which does not take        *)
(* _operation_lock, and stops the transport last.                           *)

ShutdownBegin(t) ==
  /\ MayShutDown /\ t = "main" /\ pc[t] = "idle"
  /\ Goto(t, "shutdown_read", [IdleFrame EXCEPT !.targets = connected])
  /\ UNCHANGED <<connected, registry, restart, world, opLock, clients>>

ShutdownRead(t) ==
  /\ pc[t] = "shutdown_read"
  /\ Goto(t, "shutdown", [frame[t] EXCEPT !.todo = AllNames(registry)])
  /\ UNCHANGED <<connected, registry, restart, world, opLock, clients>>

ShutdownStop(t) ==
  LET f == frame[t] IN
  /\ pc[t] = "shutdown"
  /\ \E n \in f.todo, ok \in BOOLEAN :
       /\ ExecStop(n, TRUE, ok)
       /\ Goto(t, "shutdown", Without(f, n))
  /\ UNCHANGED <<connected, registry, restart, opLock, clients>>

ShutdownClear(t) ==
  /\ pc[t] = "shutdown" /\ frame[t].todo = {}
  /\ registry' = EmptyRegistry
  /\ Goto(t, "shutdown_connections", frame[t])
  /\ UNCHANGED <<connected, restart, world, opLock, clients>>

ShutdownConnections(t) ==
  /\ pc[t] = "shutdown_connections"
  /\ connected' = {}
  /\ Goto(t, "shutdown_send", frame[t])
  /\ UNCHANGED <<registry, restart, world, opLock, clients>>

TransportStop(t) ==
  /\ pc[t] = "shutdown_send"
  /\ blocked' = blocked \ frame[t].targets
  /\ Goto(t, "down", IdleFrame)
  /\ UNCHANGED <<connected, registry, restart, world, opLock, answered, acks>>

-----------------------------------------------------------------------------
\* What thread t does without anybody asking it to: it goes on with its handler.
Continue(t) ==
  \/ UnregisterRelease(t) \/ UnregisterStop(t) \/ UnregisterRemove(t)
  \/ UnregisterEnd(t)
  \/ StartLock(t) \/ StartProcess(t) \/ StartRecord(t) \/ StartRollback(t)
  \/ StartEnd(t)
  \/ StopLock(t) \/ StopRelease(t) \/ StopExec(t) \/ StopEnd(t)
  \/ RestartBegin(t) \/ RestartRead(t) \/ RestartLock(t) \/ RestartStop(t)
  \/ RestartStart(t) \/ RestartRecord(t) \/ RestartUnlock(t)
  \/ RestartCompleted(t) \/ RestartSnapshot(t) \/ RestartReset(t) \/ SendDone(t)
  \/ TimeoutSnapshot(t) \/ TimeoutReset(t)
  \/ TickHealth(t) \/ TickMarkDead(t) \/ TickAffected(t) \/ TickIdle(t)
  \/ TickDetect(t) \/ TickNotify(t) \/ SendNotify(t)
  \/ ResetLock(t) \/ ResetStop(t) \/ ResetClear(t) \/ ResetConnections(t)
  \/ ResetFsm(t)
  \/ RegisterAdminProcess(t) \/ UnregisterAdminProcess(t)
  \/ ShutdownRead(t) \/ ShutdownStop(t) \/ ShutdownClear(t)
  \/ ShutdownConnections(t) \/ TransportStop(t)

Tick(t) == TickTimeout(t) \/ TickActive(t)

\* What reaches an idle thread from outside.
Request(t) ==
  \/ \E p \in Panels :
       /\ t = "transport"
       /\ HandleRegister(t, p) \/ HandleUnregister(t, p) \/ HandleRestartReady(t, p)
  \/ \E r \in Requesters, S \in (SUBSET Procs) \ {{}} :
       \/ RequestStart(t, r, S)
       \/ \E force \in BOOLEAN : RequestStop(t, r, S, force)
  \/ ResetBegin(t)
  \/ \E n \in Procs : AdminStart(t, n) \/ AdminStop(t, n)
  \/ ShutdownBegin(t)

Environment ==
  \/ \E n \in Procs : Crash(n)
  \/ \E p \in Panels : PanelReady(p)
  \/ TimeElapses

Next ==
  \/ \E t \in Threads : Continue(t) \/ Tick(t) \/ Request(t)
  \/ Environment

Spec == Init /\ [][Next]_vars

\* A handler that has begun goes on, the main loop ticks, and time passes.
FairSpec ==
  /\ Spec
  /\ \A t \in Threads : WF_vars(Continue(t)) /\ WF_vars(Tick(t))
  /\ WF_vars(TimeElapses)

-----------------------------------------------------------------------------
TypeOK ==
  /\ connected \in SUBSET Panels
  /\ registry \in Registries
  /\ Fsm!FsmTypeOK
  /\ running \in SUBSET Procs /\ leaked \in SUBSET Procs /\ survived \in SUBSET Procs
  /\ opLock \in Threads \cup {None}
  /\ pc \in [Threads -> Labels] /\ frame \in [Threads -> Frame]
  /\ blocked \in SUBSET Panels /\ answered \in SUBSET Panels
  /\ acks \in SUBSET Panels

\* _operation_lock is held exactly by the thread inside a section that took it.
LockDiscipline == \A t \in Threads : pc[t] \in LockedSections <=> opLock = t

\* Safe stopping (ADR-015): a stop request stops a process only when nobody else
\* requires it, whatever the other threads do between the decision and the stop.
NeededNotStopped ==
  \A t \in Threads :
    pc[t] = "stop_exec" /\ ~frame[t].force => registry[frame[t].cur].users = {}

\* A process in STARTING is being started by some thread: none is left behind
\* in it, where it would be refused to the dashboard forever.
StartingInProgress ==
  \A n \in Procs : registry[n].state = "STARTING" =>
    \E t \in Threads : pc[t] = "start_record" /\ frame[t].cur = n

\* A process in STOPPING is being stopped by some thread.  Only the executor that
\* tells of a failed stop leaves one behind in it, and nobody requires that one,
\* unless an instance has been lost with its handle.
StoppingInProgress ==
  \A n \in Procs : registry[n].state = "STOPPING" =>
    \/ \E t \in Threads : pc[t] = "stop_exec" /\ frame[t].cur = n
    \/ ~SimpleExecutor /\ (registry[n].users = {} \/ n \in leaked)

\* The two states of an entry that a handler passes through belong to a handler:
\* no failed start or stop, reset, restart or tick in between leaves one behind
\* that somebody is waiting for.
TransitionsInProgress == StartingInProgress /\ StoppingInProgress

\* A failed start request leaves of the processes it had started only those running
\* that have survived being killed: the rollback forgets none and leaves none to
\* decide for itself, though it does not look at what the executor answers.  What
\* UnixExecutor fails to kill is leaked, not running.
RollbackComplete ==
  \A t \in Threads : pc[t] = "start_rollback" =>
    (frame[t].done \ frame[t].todo) \cap running \subseteq survived

\* No orphaned requesters (ADR-015): whoever a process is kept for is registered,
\* is leaving right now, or is not a panel at all.
RequestersConnected ==
  \A n \in Procs : \A p \in registry[n].users \cap Panels :
    \/ p \in connected
    \/ \E t \in Threads : pc[t] = "unregister_release" /\ frame[t].who = p

\* No client is surprised by a restart: when the processes are restarted every
\* notified panel has answered the notification of this very round.
AnsweredBeforeRestart ==
  state = "RESTARTING" => notified \cap Panels \subseteq answered

\* Every panel that was told to get ready is remembered until it is told that
\* the restart is over: in the FSM, or in the messages a thread is about to send.
BlockedAccountedFor ==
  \A p \in blocked :
    \/ p \in notified
    \/ \E t \in Threads : pc[t] = "send_done" /\ p \in frame[t].targets

\* Every phase of a round that nobody is asked to leave has the one thread that
\* is going to leave it, and that thread is in no other phase: a round is never
\* left behind half way, and none is worked on by a thread it does not belong to.
Notifying == {"tick_notify"}
Restarting == {"restart_read", "restart_lock", "restart", "restart_start",
               "restart_record", "restart_completed"}
Ending == {"restart_snapshot", "restart_reset"}

PhaseOwned ==
  LET At(labels) == \E t \in Threads : pc[t] \in labels IN
  /\ state = "NOTIFYING" <=> At(Notifying)
  /\ state = "AWAITING_ACK" /\ pending = {} <=> At({"restart_begin"})
  /\ state = "RESTARTING" <=> At(Restarting)
  /\ state \in {"DONE", "FAILED"} <=> At(Ending)

\* Timeouts, resets and shutdown included, a round that waits for no panel is never
\* left alone: a thread is at work that will move it on, be it one whose own round
\* was cut off meanwhile.
TimedOut == {"timeout_snapshot", "timeout_reset"}

RoundsAttended ==
  LET At(labels) == \E t \in Threads : pc[t] \in labels IN
  /\ state = "NOTIFYING" => At(Notifying)
  /\ state = "AWAITING_ACK" /\ pending = {} => At({"restart_begin"})
  /\ state = "RESTARTING" => At(Restarting)
  /\ state \in {"DONE", "FAILED"} => At(Ending \cup TimedOut)

\* A restart round always comes to an end.
RoundsEnd == state # "IDLE" ~> state = "IDLE" \/ ~HubUp

\* Every handler and every tick returns, but for the unfairness of a lock that does not
\* queue: who waits for _operation_lock may see the others take it before him over and
\* over again.  No thread waits for a lock that nobody gives back.
AwaitingLock == {"start_lock", "stop_lock", "restart_lock", "reset_lock",
                 "admin_register", "admin_unregister"}

ThreadsReturn ==
  \A t \in Threads :
    \/ []<>(pc[t] \in {"idle", "down"})
    \/ <>[](pc[t] \in AwaitingLock) /\ []<>(opLock = None) /\ []<>(opLock # None)

-----------------------------------------------------------------------------
(* What the documentation says and the code does not do: each of these is    *)
(* refuted by a run of its own.                                              *)

\* "Only one instance of each process runs" (ADR-015, No duplicates).
NoDuplicates == leaked = {}

\* "Disconnecting panels auto-release their processes", no orphaned processes
\* (ADR-015, CONCEPT): between requests a process that runs is in the registry.
NoOrphans ==
  (\A t \in Threads : pc[t] = "idle") => \A n \in running : Exists(registry, n)

\* "Process stops only when no one needs it" (ADR-015, Safe stopping): the
\* rollback of a failed start stops no process that another panel uses.
RollbackSparesOthers ==
  \A t \in Threads : pc[t] = "start_rollback" =>
    \A n \in frame[t].done \ frame[t].todo : registry[n].users \subseteq {frame[t].who}

\* "Takes (process_name, force), returns success" (ProcessHubCore.__init__ of
\* process_stopper): a process that a stop request takes off the registry has
\* stopped.
StoppedWhenRemoved ==
  [][\A t \in Threads :
       LET n == frame[t].cur IN
       pc[t] = "stop_exec" /\ Exists(registry, n) /\ ~Exists(registry', n)
         => n \notin running']_vars

\* "Transition: DONE | FAILED -> IDLE" (RestartStateMachine.reset_to_idle): a
\* round is not wiped out before it is over.
ResetOnlyWhenOver ==
  [][state' = "IDLE" => state \in {"IDLE", "DONE", "FAILED"}]_restart

\* "Restart proceeds anyway to avoid deadlock" (Description, Timeout Handling):
\* a dead process that panels use does not stay dead.
DeadRecovered ==
  \A n \in Procs : registry[n].state = "DEAD" ~> registry[n].state # "DEAD"
=============================================================================
