CONSTANTS
  Panels = {a, b}
  Procs = {p}
  Threads = {"transport", "main"}
  None = None
  MaxRetry = 0
  SimpleExecutor = FALSE
  StartsMayFail = FALSE
  StopsMayFail = FALSE
  RestartsMayTimeOut = FALSE
  MayShutDown = FALSE
SPECIFICATION Spec
INVARIANT NoOrphans
