\* Two requests that may overlap, every fault.
CONSTANTS
    KeyIds = {k1}
    Amounts <- AmountSamples
    Precision = 8
    MaxExp = 3
    Procs = {p1, p2}
    MaxRequests = 2
    Faulty = TRUE
    None = None
SPECIFICATION Spec
SYMMETRY Symmetry
CHECK_DEADLOCK FALSE
INVARIANTS
    TypeOK
    LogNamesItsKey
    LoggedAsScored
    ServedIsLogged
    AmountWithinTwoCents
    AmountHasDecimals
