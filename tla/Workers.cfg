CONSTANTS
  Steps = {w}
  Root = w
  Kind <- MCKind
  Attempts = {a1, a2}
  None = None
  MaxAttempts <- MCMaxAttempts
  Retrying = {}
  StaleTimers = {}
  MaxLeaseVersion = 2
  Activities = {p1, p2}
  Server = server
  MaxInstance = 2
  MaxMoves <- MCMaxMoves
SPECIFICATION WorkersSpec
INVARIANTS
  EveryWorkerHoldsTheWorkspace
  DecidedWorkerIsGone
  ReviewedWorkerFinished
SYMMETRY Alike
CONSTRAINT OneDisturbance
CHECK_DEADLOCK FALSE
