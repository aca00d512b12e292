\* A key of either rate that may be revoked at any time, two requests.
CONSTANTS
    Users = {1}
    Keys = {k1}
    BogusKey = bogus
    Ids = {1}
    Rates = {1, 2}
    Grace = 1
    ReqTimeout = 1
    Window = 2
    Procs = {p1, p2}
    MaxRequests = 2
    MaxTime = 3
    None = None
SPECIFICATION Spec
SYMMETRY Symmetry
CHECK_DEADLOCK FALSE
INVARIANTS
    NoLateScore
    ScoredWithinRate
    RowsOfPlaces
