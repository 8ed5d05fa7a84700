SPECIFICATION Spec
CONSTANTS
    Processors = {"p1", "p2", "p3"}
    Addr = {0, 1, 2, 3}
    WordBytes = 2
    instr_batch_size = 1
    Setups <- MCSetups
INVARIANTS
    TypeOK
    RunningCount
PROPERTIES
    ImplementsShared
    SimulationEnds
CHECK_DEADLOCK FALSE
