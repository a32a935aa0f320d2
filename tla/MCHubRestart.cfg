CONSTANTS
  Panels = {a, b}
  Procs = {p, q}
  Threads = {"transport", "main"}
  None = None
  MaxRetry = 0
  SimpleExecutor = TRUE
  StartsMayFail = TRUE
  StopsMayFail = TRUE
  RestartsMayTimeOut = FALSE
  MayShutDown = FALSE
SPECIFICATION Spec
SYMMETRY Interchangeable
INVARIANT TypeOK
INVARIANT RequestersConnected
INVARIANT AnsweredBeforeRestart
INVARIANT BlockedAccountedFor
INVARIANT RollbackComplete
INVARIANT PhaseOwned
