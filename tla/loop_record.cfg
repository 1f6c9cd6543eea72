\* A run that records decisions: sessions and gates that fail, a kill, a foreign line.
CONSTANTS
  N = 2
  Budget = 2
  Retries = 0
  Proposals = 1
  GateMode = "on"
  Acts = FALSE
  Ends = {"read", "infra"}
  Verdicts = {"pass"}
  Unavailable = FALSE
  Shows = FALSE
  Diverges = FALSE
  Foreign = TRUE
  Conflicts = FALSE
  Removes = FALSE
  MaxKills = 1
  MaxInfra = 1
SPECIFICATION FairSpec
INVARIANTS WriteOnce ForeignNeverAccounted WholeDesign NeverRefused
PROPERTY Settles
CHECK_DEADLOCK FALSE
