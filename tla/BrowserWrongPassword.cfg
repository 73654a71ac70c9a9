SPECIFICATION Spec
CONSTANTS
    b1 = b1
    b2 = b2
    Tabs <- MCTabs
    Calls <- MCCalls
    MaxFaults = 0
    MaxAges = 1
INVARIANT SignedOutMeansGone
CHECK_DEADLOCK FALSE
