SPECIFICATION Spec
CONSTANTS
    Tasks = {x1}
    NoTask = NoTask
    Users = {u1, u2}
    TabUser = u1
    Tabs = {b1}
    NoTab = NoTab
    Keys = {k1, k2}
    NoKey = NoKey
    TagValues = {v1}
    Threads = {t1, t2}
    NoThread = NoThread
    MaxEdits = 2
SYMMETRY Symmetry
INVARIANTS
    TypeOK
    LogAndTaskAgree
    OnePressOneCompletion
    SuccessIsLogged
    TagsAreThoseOfTheLastEdit
    NoScreenFallsBack
PROPERTIES
    OnlyItsOwnerChangesATask
    ImplementsTaskLife
CHECK_DEADLOCK FALSE
