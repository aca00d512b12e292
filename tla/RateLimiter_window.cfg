\* Clocks half a second apart, every fault, two windows of two seconds.
CONSTANTS
    Identities <- JwtOnly
    Endpoints = {predict}
    JwtLimit = 1
    Window = 4
    TPS = 2
    ReqTimeout = 2
    Retries = 1
    MaxSkew = 1
    Procs = {p1, p2}
    MaxRequests = 3
    MaxTime = 6
    Faulty = TRUE
    None = None
SPECIFICATION Spec
SYMMETRY Symmetry
CHECK_DEADLOCK FALSE
INVARIANTS
    TypeOK
    OnTimeWithinLimit
    AtMostTwiceTheLimit
    RetryAfterEnough
    RejectedOnlyWhenFull
