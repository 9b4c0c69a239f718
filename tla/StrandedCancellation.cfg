SPECIFICATION ChildTasksSpec
CONSTANTS
  Tasks = {1, 2}
  NoTask = 0
  Plans <- OneChild
  FailPolicies = {"review_parent"}
  MaxDepth = 2
  MaxLinks = 2
  MaxDenied = 1
PROPERTY CancellationReachesChildren
CHECK_DEADLOCK FALSE
