SPECIFICATION GraphSpec
CONSTANTS
  Graphs <- NarrowGraphs
INVARIANT
  ReadyLimitHolds
CHECK_DEADLOCK FALSE
