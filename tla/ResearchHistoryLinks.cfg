\* Two reports in the agent database: is every recovered link of the report's
\* own lineage?
SPECIFICATION GoldenSpec
CONSTANTS
    None = None
    r1 = r1
    r2 = r2
    Reports = {r1, r2}
    Roles <- MCRoles
    ShownClaims <- MCShownClaims
    ShownEvents <- MCShownEvents
    Contents <- MCContents
    Bundle <- MCBundle
    Context <- MCContext
    Summaries <- MCSummaries
    Provisions <- MCProvisions
    MaxSamples = 1
    MaxBuilds = 4
CHECK_DEADLOCK FALSE
INVARIANTS
    LinksAreExact
