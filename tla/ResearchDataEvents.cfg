CONSTANTS
  LastDay = 1
  MaxRevisions = 2
  MaxRuns = 2
  Portfolios <- Filing
SPECIFICATION Spec
CHECK_DEADLOCK FALSE
INVARIANT ReplayRequiresIngestion
