\* Two generations of a document with two versions, three failures anywhere.
CONSTANTS
  Ids = {1, 2, 3}
  MaxRuns = 2
  MaxVersions = 2
  MaxRows = 1
  MaxFaults = 3
SPECIFICATION Spec
INVARIANTS
  RowsAreCommitted
  IngestedDocumentIsWhole
  VectorsMatchChunks
CHECK_DEADLOCK FALSE
