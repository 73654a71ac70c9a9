SPECIFICATION FormSpec
CONSTANTS
    Addresses = {a1}
    NoAddress = NoAddress
    Ips = {i1}
    Threads = {t1}
    Ids = {1, 2, 3, 4, 5, 6, 7, 8}
    PairThreshold = 5
    WideThreshold = 20
    Window = 15
    BaseLock = 1
    MaxLock = 15
    MaxStep = 4
    Retention = 1440
    MaxClock = 0
    HasSession = FALSE
    MaxSubmits = 4
INVARIANT MistypingIsNotAWall
CHECK_DEADLOCK FALSE
