CONSTANTS
  Ids = {1, 2, 3}
  MaxReports = 3
  MaxFaults = 3
  MaxBundles = 1
SPECIFICATION Spec
INVARIANTS
  CompletedHasTrace
  OutcomesHold
  EvidenceComplete
CHECK_DEADLOCK FALSE
