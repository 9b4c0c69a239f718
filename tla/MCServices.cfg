SPECIFICATION Spec
CONSTANTS
  x1 = x1
  x2 = x2
  Graphs <- MCGraphs
  ConvOf <- OneConversation
  Unfit = {2}
  Concurrency = 1
  Tries = 0
  RunFaults <- MCRunFaults
  MaxEvents = 3
  MaxDenials = 1
  MaxRestarts = 1
  End = 1
  MaxOccurrences = 2
  MaxMutations = 1
  TimerFaults = 1
  Advances = {x1, x2}
  Tasks = {1, 2, 3}
  NoTask = 0
  Plans <- MCPlans
  FailPolicies = {"review_parent"}
  MaxDepth = 2
  MaxLinks = 2
  MaxDenied = 1
  MaxAttempt = 2
  MaxChanges <- MCMaxChanges
  HerdrFaults = 1
  MaxRuns = 2
  MaxChangeOfOwner = 2
  TemporalFaults = 2
  u1 = u1
  u2 = u2
  d1 = d1
  d2 = d2
  Principals = {u1, u2}
  Sources = {d1, d2}
  Route <- MCRoute
  Gates = {}
  Beginnings <- MCBeginnings
  Agent = agent
  SourceRuns = {1, 2, 3}
  RoomOf <- OneRoom
  MaxApprovals = 1
  Statements = {s1, s2}
  Origins = {o1}
  MaxMemories = 2
  MaxCandidates = 2
  MaxVersion = 3
  MaxTime = 1
  MaxCalls = 4
INVARIANTS
  AdvanceKeepsItsLimits
  ExecutorEntersOnce
  DeliveryIsTrue
  NoticesAreTrue
  ChildIsAccountedFor
  ReviewRestsOnWork
  ContentIsTraceable
  LedgerCoversContent
PROPERTIES
  DependenciesDecide
  OccurrencesAreTrue
  CorrectionsAreCurrent
  NothingLeavesUnauthorized
  GraphsAreDecided
  MessagesAreAnswered
  TasksAreAnnounced
  TimersWake
  ParentsGoOn
  WorkersAreNoticed
  TasksAreDriven
CHECK_DEADLOCK FALSE
