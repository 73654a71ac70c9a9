SPECIFICATION StudySpec
CONSTANTS
    MaxDate = 3
    Reflections = {f1}
    PlanIds = {p1, p2}
    NoPlan = NoPlan
    Threads = {t1, t2}
    MaxEdits = 3
    Tasks = {1, 2}
    MaxDay = 3
    Observed = TRUE
    Estimate = 2
    Minutes = 3
    MaxLogs = 3
    MaxChanges = 2
    MaxMoves = 1
SYMMETRY Symmetry
INVARIANTS
    StudyTypeOK
    OnlyOvertakenEditsSkipAVersion
    OneNextPlan
    StudyKeepsItsOrder
    NoChangeAfterDayThree
    ReportsAgree
PROPERTY IsAPlanHistory
CHECK_DEADLOCK FALSE
