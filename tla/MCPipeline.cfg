SPECIFICATION Spec
CONSTANTS
    N = 5
    Size = 12
    Targets <- MCTargets
    BranchStage = 3
    MayStall <- MCMayStall
    SysCalls <- MCSysCalls
    Return <- MCReturn
    PathLength = 7
    InOrder = TRUE
    MaxStalls = 1
INVARIANTS
    TypeOK
PROPERTIES
    ImplementsSequential
    FlushTakesPlace
    StalledStays
    Progress
CHECK_DEADLOCK FALSE
