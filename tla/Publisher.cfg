SPECIFICATION PubFairSpec
CONSTANTS
    MaxCrawls = 3
    MaxTroubles = 3
INVARIANTS
    FilesInOrder
PROPERTIES
    IndexNeverLost
    IndexHeals
CHECK_DEADLOCK FALSE
