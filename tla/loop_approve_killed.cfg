\* A run that acts, killed while an approve is being merged.
CONSTANTS
  N = 1
  Budget = 2
  Retries = 0
  Proposals = 1
  GateMode = "on"
  Acts = TRUE
  Ends = {"read"}
  Verdicts = {"pass", "blocked"}
  Unavailable = FALSE
  Shows = FALSE
  Diverges = FALSE
  Foreign = FALSE
  Conflicts = FALSE
  Removes = FALSE
  MaxKills = 1
  MaxInfra = 0
SPECIFICATION Spec
INVARIANT NeverRefused
CHECK_DEADLOCK FALSE
