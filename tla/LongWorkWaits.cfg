SPECIFICATION LongWorkSpec
CONSTANTS
  a1 = a1
  a2 = a2
  a3 = a3
  p1 = p1
  p2 = p2
  Steps = {1, 2, 3, 4}
  Root = 4
  Kind <- Waits
  Attempts = {a1}
  None = None
  MaxAttempts <- OneTry
  Retrying = {}
  StaleTimers = {1}
  MaxLeaseVersion = 1
  Procs = {p1}
  Deps <- InTurn
  Policy <- InTurnPolicy
  MaxReady = 16
  MaxParallel = 4
  MaxTries = 5
  Faults <- Crashed
PROPERTIES CancelledRunSettles ClaimsAreDecided OwnerIsTold
CHECK_DEADLOCK FALSE
