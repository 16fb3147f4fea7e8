SPECIFICATION SiteFairSpec
CONSTANTS
    MaxCrawls = 2
    MaxTroubles = 1
    MaxRestarts = 1
INVARIANTS
    IndexCoversList
    TimeNeverAheadOfList
PROPERTIES
    ImplementsPromise
    PublishedIsServed
    SettlesCoherent
CHECK_DEADLOCK FALSE
