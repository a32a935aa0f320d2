\* One hub with one process: hubs share nothing but tick's list.  Two inputs are
\* enough for a start and a change with its undoing, a restart, a loss, a command or a
\* stop of the orchestrator.
SPECIFICATION FleetSpec
CONSTANTS
  Hubs = {h1}
  HubProcs = {p1}
  MaxQueue = 1
  MaxInputs = 2
INVARIANTS FleetTyped OutageIsTold
PROPERTIES  RunningHubsReturn ViewCatchesUp
