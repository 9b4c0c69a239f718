SPECIFICATION StoreSpec
CONSTANTS
  r = r
  w = w
  p = p
  a1 = a1
  a2 = a2
  None = None
  Steps = {w, p}
  Root = w
  Attempts = {a1, a2}
  Kind <- MCKind
  MaxAttempts <- MCMaxAttempts
  Retrying = {w}
  StaleTimers = {}
  MaxLeaseVersion = 1
SYMMETRY AttemptSymmetry
INVARIANTS
  TypeOK
  OneOwnerPerStep
  WaitsFollowSteps
  CancelledTaskIsQuiet
  ReviewedTaskIsComplete
  AttentionIsWarranted
  ReadyCanBeClaimed
PROPERTY
  DecisionsAreFinal
CHECK_DEADLOCK FALSE
