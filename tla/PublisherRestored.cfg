SPECIFICATION PubSpec
CONSTANTS
    MaxCrawls = 2
    MaxTroubles = 1
INVARIANT RestoredBeforeRebuild
CHECK_DEADLOCK FALSE
