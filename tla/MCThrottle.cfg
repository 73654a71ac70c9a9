SPECIFICATION Spec
CONSTANTS
    Addresses = {a1}
    NoAddress = NoAddress
    Ips = {i1}
    Threads = {t1, t2}
    Ids = {r1, r2, r3}
    PairThreshold = 1
    WideThreshold = 2
    Window = 2
    BaseLock = 1
    MaxLock = 2
    MaxStep = 2
    Retention = 2
    MaxClock = 3
SYMMETRY Symmetry
INVARIANTS
    TypeOK
    RetryAfterIsHonest
    OnlyOvertakenGuessesSlipThrough
PROPERTY PruneChangesNoLock
CHECK_DEADLOCK FALSE
