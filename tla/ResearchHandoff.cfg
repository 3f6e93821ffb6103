CONSTANTS
    None = None
    ComponentName <- MCComponentName
    Rank <- MCRank
    Frozen <- MCFrozen
    Created <- MCCreated
    SectorContext <- MCSectorContext
    SelectionCalls <- MCSelectionCalls
    TimingCalls <- MCTimingCalls
    Memories <- MCMemories
    Clocks = {40, 50}
    MaxCalls = 5
    MaxBundles = 2
    MaxFiles = 1
SPECIFICATION HandoffSpec
CHECK_DEADLOCK FALSE
INVARIANTS
    BundleIsClosed
    PastDecides
    VelocityIsPerDay
    ManifestHasItsLines
