\* The durations of thirdparty.go; the breaker trips on the second failure.
CONSTANTS
    Procs = {p1, p2}
    MaxRequests = 1
    TripAfter = 1
    RetryCount = 3
    Interval = 10
    Timeout = 5
    AttemptTimeout = 3
SPECIFICATION TimedSpec
PROPERTY FailingVendorTrips
