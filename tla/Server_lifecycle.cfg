\* A connection and a probe, two migrations; ticks of five seconds.
CONSTANTS
    Conns = {c1}
    Migrations = 2
    WriteTimeout = 2
    ShutdownTimeout = 2
    NewGrace = 1
SPECIFICATION Spec
INVARIANTS
    TypeOK
    SecretsTakeEffect
    ServesOnlyMigrated
    PoolOutlivesHandlers
    ReadinessHonest
PROPERTIES
    CutOnlyUnanswerable
    StopsWhenTold
    StartsInTheEnd
