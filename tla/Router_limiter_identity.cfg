\* The limiter without an identity.
CONSTANTS
    KeyOwner = keyOwner
    TokenUser = tokenUser
    None = None
SPECIFICATION Spec
CHECK_DEADLOCK FALSE
INVARIANT LimiterHasIdentity
