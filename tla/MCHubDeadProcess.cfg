CONSTANTS
  Panels = {a}
  Procs = {p}
  Threads = {"transport", "main"}
  None = None
  MaxRetry = 0
  SimpleExecutor = TRUE
  StartsMayFail = FALSE
  StopsMayFail = FALSE
  RestartsMayTimeOut = TRUE
  MayShutDown = FALSE
SPECIFICATION FairSpec
PROPERTY DeadRecovered
