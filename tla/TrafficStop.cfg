SPECIFICATION TrafficSpec
CONSTANTS
    Requests = {r1, r2}
    DaysKept = 2
    MaxArrivals = 2
    MaxDay = 3
    MaxLives = 2
    MaxMishaps = 1
CHECK_DEADLOCK FALSE
INVARIANT CleanStopKeepsAll
