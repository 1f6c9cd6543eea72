\* A run with no gate that acts: a decision after the integration call was skipped.
CONSTANTS
  N = 1
  Budget = 2
  Retries = 0
  Proposals = 1
  GateMode = "off"
  Acts = TRUE
  Ends = {"read"}
  Verdicts = {"pass", "blocked"}
  Unavailable = FALSE
  Shows = FALSE
  Diverges = FALSE
  Foreign = FALSE
  Conflicts = FALSE
  Removes = FALSE
  MaxKills = 0
  MaxInfra = 0
SPECIFICATION Spec
INVARIANT NeverRefused
CHECK_DEADLOCK FALSE
