SPECIFICATION Spec
CONSTANTS
    Requests = {r1, r2}
    Addresses = {v4, v6a}
    V6 = {v6a}
    Subnet = net
    Rate = 1
    Burst = 2
    MaxBuckets = 2
    Quiet = 3
    MaxSkew = 1
    MaxTime = 4
INVARIANTS
    LimiterHolds
CHECK_DEADLOCK FALSE
