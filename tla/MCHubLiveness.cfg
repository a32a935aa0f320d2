CONSTANTS
  Panels = {a}
  Procs = {p}
  Threads = {"transport", "main"}
  None = None
  MaxRetry = 0
  SimpleExecutor = FALSE
  StartsMayFail = TRUE
  StopsMayFail = TRUE
  RestartsMayTimeOut = TRUE
  MayShutDown = TRUE
SPECIFICATION FairSpec
INVARIANT RoundsAttended
INVARIANT TransitionsInProgress
PROPERTY RoundsEnd
CHECK_DEADLOCK FALSE
