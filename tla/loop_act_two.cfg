\* Two subtasks of a run that acts: decisions on one while the other is driven.
CONSTANTS
  N = 2
  Budget = 1
  Retries = 1
  Proposals = 1
  GateMode = "on"
  Acts = TRUE
  Ends = {"read", "infra"}
  Verdicts = {"pass", "blocked"}
  Unavailable = FALSE
  Shows = FALSE
  Diverges = FALSE
  Foreign = FALSE
  Conflicts = FALSE
  Removes = FALSE
  MaxKills = 0
  MaxInfra = 1
SPECIFICATION FairSpec
PROPERTY DeliverySpec
PROPERTY DecisionsTaken
CHECK_DEADLOCK FALSE
