SPECIFICATION Spec
CONSTANTS
    Users = {u1}
    Sids = {s1, s2, s3, s4}
    Threads = {t1, t2}
    NoUser = NoUser
    NoSid = NoSid
    AccessTTL = 1
    IdleTTL = 2
    AbsoluteTTL = 2
    MaxClock = 1
    MaxChanges = 1
SYMMETRY Symmetry
PROPERTY ReuseEndsTheFamily
CHECK_DEADLOCK FALSE
