SPECIFICATION Spec
CONSTANTS
    None = None
    Dimensions <- MCDimensions
    Window5 = 1
    Window20 = 2
    Window60 = 3
    MinOverlap = 1
    Market = "M"
    MinBars = 2
    WideDispersion = 7
    WideDivergence = 35
    MaterialSurprise = 5
    MaterialChange = 3
    SevereChange = 9
    Correlated = {"X"}
    Rank <- MCRank
    Sectors <- MCSectors
    Scope <- MCScope
    Seed <- MCSeed
    CuratedVersion = "v2"
    Candidates <- MCCandidates
    Prices <- MCPrices
    Filings <- MCFilings
    Observations <- MCObservations
    Assets <- MCAssets
    Templates <- MCTemplates
    Clocks <- MCClocks
    FirstInstant = 8
    LastInstant = 9
    MaxStates = 1
    MaxMacros = 1
    MaxRadars = 1
INVARIANTS
    MandatoryEventsAreCited
    HighEventsReachRisk
    RadarIsProjected
CHECK_DEADLOCK FALSE
