CONSTANTS
  Names = {p, q}
  MaxInstances = 2
  Requesters = {r}
  MaxInputs = 6
SPECIFICATION ManagerSpec
INVARIANT ManagerTyped
INVARIANT NoSecondInstance
INVARIANT DeadIsNotRunning
INVARIANT PortsDistinct
CHECK_DEADLOCK FALSE
