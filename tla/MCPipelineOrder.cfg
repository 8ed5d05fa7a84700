SPECIFICATION Spec
CONSTANTS
    N = 5
    Size = 12
    Targets <- MCTargets
    BranchStage = 3
    MayStall <- MCMayStall
    SysCalls <- MCSysCalls
    Return <- MCReturn
    PathLength = 7
    InOrder = FALSE
    MaxStalls = 1
PROPERTIES
    FlushTakesPlace
CHECK_DEADLOCK FALSE
