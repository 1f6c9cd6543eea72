CONSTANTS
  Item = {a, b}
  Decider = {p, q}
  Nobody = Nobody
  MaxInodes = 2
  MaxSpawns = 1
  Session = {a, b}
  Kid = {p, q}
  None = None
  Sweeps = 0
  StopFails = TRUE
  MaxKills = 1
  Hook = {p, q}
  NoHook = NoHook
  AppendsBeside = FALSE
  MaxWrites = 3
  MaxHookKills = 1
  Line = {x, y}
  Junk = Junk
  Record = {a, b}
  PerSession = 1
  MaxLines = 3
  MaxSessions = 2
  EmptyRounds = 2
  MaxPid = 4
  MaxRounds = 3
  Starter = {"menu"}
  MaxServers = 2
  MaxBuilds = 1
  MaxLaunches = 2
  MaxHeading = 3
SPECIFICATION PartsSpec
SYMMETRY Alike
INVARIANTS
  PartsTypeOK
  DecidedOnce
  AckKept
  SealsStand
  StillFound
  NoneBeside
  CommitSettled
  StopsItsOwn
  SecretsOff
  EndsReported
  PutBack
  AppendsKept
  LedgerFollows
  Conserved
  ListedSealed
  CleanUnlessHopping
  EveryServerHeld
  ShowsWhatRuns
  RecordKept
PROPERTIES
  DecidedSpec
CHECK_DEADLOCK FALSE
