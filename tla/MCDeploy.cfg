SPECIFICATION FairSpec
CONSTANTS
    p1 = p1
    p2 = p2
    p3 = p3
    x1 = x1
    x2 = x2
    Plans <- MCPlans
    Tasks <- MCTasks
    PlanOf <- MCPlanOf
    Settings <- MCSettings
    MaxPushes = 2
    MaxCrashes = 2
INVARIANTS
    TypeOK
    ServesOwnedPlansOnly
PROPERTIES
    OnlyLeftoversAreDeleted
    IsAHandover
    CoveredDeploysSucceed
CHECK_DEADLOCK FALSE
