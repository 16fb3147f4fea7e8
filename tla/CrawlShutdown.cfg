SPECIFICATION Spec
CONSTANTS
    Plan <- MCPlan
    Malformed <- MCMalformed
    InFull <- MCInFull
    Listing <- MCListing
    PageBudget <- MCPageBudget
    Catalogs = {5}
    Batch = 2
    MinYield = 1
    Target = 100
    Floor = 80
    MaxPages = 0
    MaxRuns = 2
    MaxFailures = 0
    MaxFaults = 0
    MaxStops = 2
PROPERTY ShutdownKeepsProgress
CHECK_DEADLOCK FALSE
