SPECIFICATION LongWorkSpec
CONSTANTS
  a1 = a1
  a2 = a2
  a3 = a3
  p1 = p1
  p2 = p2
  Steps = {1, 2}
  Root = 2
  Kind <- ModelThenWrite
  Attempts = {a1, a2}
  None = None
  MaxAttempts <- OneTry
  Retrying = {}
  StaleTimers = {}
  MaxLeaseVersion = 2
  Procs = {p1}
  Deps <- Chain
  Policy <- PlannedPolicy
  MaxReady = 16
  MaxParallel = 4
  MaxTries = 5
  Faults <- Lost
SYMMETRY AttemptSymmetry
INVARIANTS LiveRunIsFenced WriteOutcomeIsTrue
PROPERTIES ImplementsOwnedWork QuarantineEndsOnEvidence
CHECK_DEADLOCK FALSE
