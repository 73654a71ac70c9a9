SPECIFICATION FairSpec
CONSTANTS
    Users = {u1}
    Sids = {s1, s2, s3}
    Threads = {t1, t2}
    NoUser = NoUser
    NoSid = NoSid
    AccessTTL = 1
    IdleTTL = 1
    AbsoluteTTL = 2
    MaxClock = 1
    MaxChanges = 1
PROPERTY RequestsAreAnswered
CHECK_DEADLOCK FALSE
