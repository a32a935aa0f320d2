CONSTANTS
  Panels = {a}
  Procs = {p}
  Threads = {"transport", "fleet", "admin"}
  None = None
  MaxRetry = 0
  SimpleExecutor = TRUE
  StartsMayFail = TRUE
  StopsMayFail = TRUE
  RestartsMayTimeOut = FALSE
  MayShutDown = FALSE
SPECIFICATION FairSpec
INVARIANT LockDiscipline
INVARIANT NeededNotStopped
PROPERTY ThreadsReturn
