SPECIFICATION FairSpec
CONSTANTS
    b1 = b1
    b2 = b2
    Tabs <- MCTabs
    Calls <- MCCalls
    MaxFaults = 1
    MaxAges = 1
INVARIANTS
    TypeOK
    ReuseMeansLossOrRace
PROPERTIES
    NoSpareRotation
    SignedOutHasAReason
    CallsAreAnswered
CHECK_DEADLOCK FALSE
