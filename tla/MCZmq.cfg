CONSTANTS
  Nodes = {hub}
  Hub = hub
  Topics = {t}
  MaxStarts = 2
  MaxInputs = 5
SPECIFICATION ZmqFairSpec
INVARIANT ZmqTyped
PROPERTY InOrder
INVARIANT RegisteredIsSubscribed
PROPERTY NoHandlerAfterStop
PROPERTY ScheduledIsRun
CHECK_DEADLOCK FALSE
