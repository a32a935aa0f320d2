CONSTANTS
  Panels = {a}
  Names = {p}
  Topics = {connection, process, local}
  ServerTopics = {connection, process}
  ExtraTopics = {local}
  ConnectionTopic = connection
  ProcessTopic = process
  MaxRuns = 2
  MaxInputs = 3
SPECIFICATION DashboardFairSpec
INVARIANT DashboardTyped
INVARIANT AdminProcessIsConfigured
INVARIANT ListedAreTold
INVARIANT TopicsHeard
PROPERTY ViewCatchesUp
PROPERTY SignalEndsRun
CHECK_DEADLOCK FALSE
