\* A resume judges again what the killed process had already written or merged.
CONSTANTS
  N = 1
  Budget = 2
  Retries = 0
  Proposals = 2
  GateMode = "on"
  Acts = FALSE
  Ends = {"read"}
  Verdicts = {"pass", "fail"}
  Unavailable = FALSE
  Shows = FALSE
  Diverges = FALSE
  Foreign = FALSE
  Conflicts = FALSE
  Removes = FALSE
  MaxKills = 1
  MaxInfra = 0
SPECIFICATION Spec
INVARIANT WholeOrNotAtAll
CHECK_DEADLOCK FALSE
