CONSTANTS
  Ids = {1, 2}
  MaxReports = 2
  MaxFaults = 0
  MaxBundles = 1
SPECIFICATION Spec
INVARIANT BundleIsConsistent
CHECK_DEADLOCK FALSE
