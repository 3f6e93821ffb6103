\* Two reports share the agent database; artifacts of both may be combined.
SPECIFICATION GoldenSpec
CONSTANTS
    None = None
    r1 = r1
    r2 = r2
    Reports = {r1, r2}
    Roles <- MCRoles
    ShownClaims <- MCShownClaims
    ShownEvents <- MCShownEvents
    Contents <- MCContents
    Bundle <- MCBundle
    Context <- MCContext
    Summaries <- MCSummaries
    Provisions <- MCProvisions
    MaxSamples = 1
    MaxBuilds = 4
CHECK_DEADLOCK FALSE
INVARIANTS
    EpisodeIsOneExecution
    SampleIsClosed
    UseIsEvidenced
    IndexedSampleIsWhole
    GoldenIsOneRun
