\* Three threads, two fingerprints, three calls, any two failures.
CONSTANTS
  Threads = {t1, t2, t3}
  Keys = {1, 2}
  Locks = {1, 2, 3}
  ReadMaxRetries = 1
  WriteMaxRetries = 1
  MaxRetries = 1
  MaxCalls = 3
  MaxFaults = 2
SPECIFICATION LiveSpec
INVARIANTS
  OneTurnPerKey
  RegistryIsExact
  AnsweredOnce
PROPERTIES
  EveryCallReturns
CHECK_DEADLOCK FALSE
