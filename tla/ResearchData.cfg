CONSTANTS
  LastDay = 1
  MaxRevisions = 2
  MaxRuns = 2
  Portfolios <- Alone
SPECIFICATION Spec
CHECK_DEADLOCK FALSE
INVARIANTS
  ReplayIsPointInTime
  LaterReplayIsNoNewer
  FailureIsExplained
  AgreesWithContract
  NewestVintageWins
