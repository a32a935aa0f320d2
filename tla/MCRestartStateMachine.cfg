CONSTANTS
  Panels = {a, b}
  Procs = {p, q}
  MaxRetry = 2
SPECIFICATION TimedSpec
INVARIANT ContextConsistent
PROPERTY RefinesCycle
PROPERTY EveryRoundEnds
