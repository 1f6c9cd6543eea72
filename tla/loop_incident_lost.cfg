\* A kill between a session's end and the halt its incident calls for.
CONSTANTS
  N = 1
  Budget = 2
  Retries = 0
  Proposals = 1
  GateMode = "on"
  Acts = FALSE
  Ends = {"read"}
  Verdicts = {"pass"}
  Unavailable = FALSE
  Shows = TRUE
  Diverges = FALSE
  Foreign = FALSE
  Conflicts = FALSE
  Removes = FALSE
  MaxKills = 1
  MaxInfra = 0
SPECIFICATION Spec
INVARIANT ExposedNotMerged
CHECK_DEADLOCK FALSE
