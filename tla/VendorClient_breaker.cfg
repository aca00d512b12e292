\* Three concurrent calls, a breaker that trips on the third failure in a row.
CONSTANTS
    Procs = {p1, p2, p3}
    MaxRequests = 1
    TripAfter = 2
    RetryCount = 1
SPECIFICATION Spec
INVARIANTS
    TypeOK
    ProbesBounded
PROPERTIES
    ProbeDecides
    Recovers
