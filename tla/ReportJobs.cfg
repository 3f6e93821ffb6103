CONSTANTS
  MaxJobs = 2
  MaxFaults = 4
SPECIFICATION LiveSpec
INVARIANTS
  SingleExecution
  AcceptedNotLost
  AttemptsMatchRecoveries
PROPERTIES
  ImplementsTasks
  AcceptedFinishes
  RecoveredFinishes
CHECK_DEADLOCK FALSE
