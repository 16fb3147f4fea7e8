SPECIFICATION SiteSpec
CONSTANTS
    MaxCrawls = 2
    MaxTroubles = 0
    MaxRestarts = 0
INVARIANTS
    NeverPairsOtherRates
CHECK_DEADLOCK FALSE
