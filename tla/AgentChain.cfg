\* The task ends, so that a state without a successor is no deadlock.
SPECIFICATION AssemblySpec
CHECK_DEADLOCK FALSE
CONSTANTS
  Analysts <- MCAnalysts
  Evidence <- MCEvidence
  Literals <- MCLiterals
  Ids <- MCIds
  Manifest <- MCManifest
  Tokens <- MCTokens
  Grounds <- MCGrounds
  Canonical <- MCCanonical
  SectorClaims <- MCSectorClaims
  Minimum <- MCMinimum
  Answers <- MCAnswers
  RepairSupported = TRUE
  GroupOf <- MCGroupOf
  Macro <- MCMacro
  Posts = {"post"}
  Aggregates = {"snapshot"}
  ChainClaims <- MCSectorClaims
  LaterClaims <- MCLaterClaims
INVARIANTS
  NumbersReachEvidence
  ProvenanceIsAccepted
  FailurePolicy
  AuditIsComplete
  ReportIsItsClaims
  FailedAnalystIsDisclosed
PROPERTY TaskEnds
