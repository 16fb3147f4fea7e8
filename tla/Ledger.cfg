SPECIFICATION Spec
CONSTANTS
    Assets = {a, b}
    OldStock = {a}
    ForgetAfter = 3
    MaxHistory = 2
    MaxCrawls = 5
    MaxFaults = 2
INVARIANT HistoryAddsUp
PROPERTY DatesKept
CHECK_DEADLOCK FALSE
