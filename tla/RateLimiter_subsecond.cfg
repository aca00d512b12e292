\* A window of half a second, as PREDICT_RATE_WINDOW=500ms sets it.
CONSTANTS
    Identities <- JwtOnly
    Endpoints = {predict}
    JwtLimit = 1
    Window = 1
    TPS = 2
    ReqTimeout = 1
    Retries = 0
    MaxSkew = 0
    Procs = {p1, p2}
    MaxRequests = 3
    MaxTime = 2
    Faulty = FALSE
    None = None
SPECIFICATION Spec
SYMMETRY Symmetry
CHECK_DEADLOCK FALSE
INVARIANT OnTimeWithinLimit
