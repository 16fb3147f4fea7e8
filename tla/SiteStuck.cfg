SPECIFICATION SiteFairSpec
CONSTANTS
    MaxCrawls = 2
    MaxTroubles = 0
    MaxRestarts = 0
PROPERTIES
    PublishedIsServedAlways
CHECK_DEADLOCK FALSE
