SPECIFICATION FetcherFairSpec
CONSTANTS
    Pages = {p1, p2, p3}
    MaxAttempts = 2
    Interval = 1
    Waits = {1, 3}
    Backoffs = {2}
INVARIANTS
    FetcherInv
    QueueBounded
PROPERTIES
    PauseNotProlonged
    BatchEnds
CHECK_DEADLOCK FALSE
