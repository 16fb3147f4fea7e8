SPECIFICATION FairFlight
CONSTANTS
    Callers = {c1, c2, c3}
    Closers = {k1, k2}
    MaxRefreshes = 2
    MaxPanics = 1
INVARIANTS
    OneRefresh
    ClosedForGood
    NoHandleLeaks
    AnswerNotOlder
PROPERTY NobodyWaitsForever
CHECK_DEADLOCK FALSE
