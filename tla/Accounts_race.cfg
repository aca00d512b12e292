\* Two sign-ups or sign-ins at a time, every fault, tokens that expire.
CONSTANTS
    Emails = {e1, e2}
    Passwords = {w1, w2, wlong}
    LongPasswords = {wlong}
    Bcrypt <- First72
    Ids = {i1, i2}
    Procs = {p1, p2}
    JwtTimeout = 1
    MaxTime = 2
    Faulty = TRUE
    None = None
SPECIFICATION Spec
SYMMETRY Symmetry
INVARIANTS
    TypeOK
    OneHolderPerEmail
    MeIsTokenHolder
    ConflictMeansTaken
    HolderRefusedOnlyByFailure
