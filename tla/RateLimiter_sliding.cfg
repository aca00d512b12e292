\* README: "a sliding window algorithm".
CONSTANTS
    Identities <- JwtOnly
    Endpoints = {predict}
    JwtLimit = 1
    Window = 4
    TPS = 2
    ReqTimeout = 2
    Retries = 1
    MaxSkew = 0
    Procs = {p1, p2}
    MaxRequests = 4
    MaxTime = 6
    Faulty = FALSE
    None = None
SPECIFICATION Spec
SYMMETRY Symmetry
CHECK_DEADLOCK FALSE
INVARIANT SlidingWindow
