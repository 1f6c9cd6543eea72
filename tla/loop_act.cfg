\* A run that acts on decisions: every verdict, every way to the queue and back.
CONSTANTS
  N = 1
  Budget = 2
  Retries = 1
  Proposals = 1
  GateMode = "on"
  Acts = TRUE
  Ends = {"read", "unread", "infra", "refused"}
  Verdicts = {"pass", "fail", "gaming", "blocked"}
  Unavailable = TRUE
  Shows = TRUE
  Diverges = TRUE
  Foreign = FALSE
  Conflicts = TRUE
  Removes = TRUE
  MaxKills = 1
  MaxInfra = 2
SPECIFICATION Spec
INVARIANTS TypeOK ItemsAsListed OverridesReviewOnly WorktreeKept
CHECK_DEADLOCK FALSE
