\* Every route with every pair of credentials.
CONSTANTS
    KeyOwner = keyOwner
    TokenUser = tokenUser
    None = None
SPECIFICATION Spec
CHECK_DEADLOCK FALSE
INVARIANTS
    ServedAsProved
    KeysManagedByUsersOnly
    CountedOnceAsServed
