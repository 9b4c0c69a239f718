SPECIFICATION LongWorkSpec
CONSTANTS
  a1 = a1
  a2 = a2
  a3 = a3
  p1 = p1
  p2 = p2
  Steps = {1}
  Root = 1
  Kind <- OneWrite
  Attempts = {a1}
  None = None
  MaxAttempts <- OneTry
  Retrying = {}
  StaleTimers = {}
  MaxLeaseVersion = 2
  Procs = {p1, p2}
  Deps <- Alone
  Policy <- PlannedPolicy
  MaxReady = 16
  MaxParallel = 4
  MaxTries = 5
  Faults <- TimedOut
INVARIANTS WriteOutcomeIsTrue
CHECK_DEADLOCK FALSE
