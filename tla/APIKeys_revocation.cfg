\* One key and two users, two concurrent requests, every fault, the clock past every bound.
CONSTANTS
    Users = {u1, u2}
    Labels = {l1}
    Keys = {k1}
    BogusKey = bogus
    Ids = {i1}
    RateInputs = {0}
    DefaultRate = 1
    Procs = {p1, p2}
    TTL = 1
    ReqTimeout = 1
    MaxTime = 4
    Faulty = TRUE
    None = None
SPECIFICATION Spec
SYMMETRY Symmetry
INVARIANTS
    TypeOK
    AdmittedAsOwner
    StaleEntriesDie
    LiveKeyNeverRefused
PROPERTIES
    RevocationTakesHold
    ImplementsRegistry
