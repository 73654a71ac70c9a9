SPECIFICATION Spec
CONSTANTS
    Users = {u1}
    Sids = {s1, s2, s3, s4}
    Threads = {t1, t2}
    NoUser = NoUser
    NoSid = NoSid
    AccessTTL = 1
    IdleTTL = 2
    AbsoluteTTL = 2
    MaxClock = 2
    MaxChanges = 1
SYMMETRY Symmetry
INVARIANTS
    TypeOK
    OneLiveTokenPerLogin
    NoLoginOutlivesItsLimit
    ChangeKillsWhatWasOpen
    EndedTokenHasNoSuccessor
    ReuseNeedsASpentRelative
    ReplayIsOfASpentToken
    DeletedAccountHasNoSession
    RotationAndChangeNeverDeadlock
PROPERTY IsATokenLedger
CHECK_DEADLOCK FALSE
