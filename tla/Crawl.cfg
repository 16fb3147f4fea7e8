SPECIFICATION FairSpec
CONSTANTS
    Plan <- MCPlan
    Malformed <- MCMalformed
    InFull <- MCInFull
    Listing <- MCListing
    PageBudget <- MCPageBudget
    Catalogs = {5, 6}
    Batch = 2
    MinYield = 1
    Target = 100
    Floor = 80
    MaxPages = 0
    MaxRuns = 3
    MaxFailures = 1
    MaxFaults = 1
    MaxStops = 1
INVARIANTS
    DoneSlicesCollected
    FinalCheckpointKept
    PlanSound
PROPERTIES
    AbandonedOnlyWhenSpent
    CrawlEnds
CHECK_DEADLOCK FALSE
