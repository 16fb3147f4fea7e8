SPECIFICATION FairSpec
CONSTANTS
    Requests = {r1, r2, r3}
    Keys = {k1, k2}
    MaxEntries = 1
    MaxDatasets = 2
    None = None
INVARIANTS
    HitCacheInv
    AnswerOfServed
    NoSearchOnClosed
PROPERTY EverybodyGetsOn
CHECK_DEADLOCK FALSE
