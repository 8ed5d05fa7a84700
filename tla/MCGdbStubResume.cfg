SPECIFICATION Spec
CONSTANTS
    Address <- MCAddress
    Succ <- MCSucc
    Entry <- MCEntry
    Named <- MCNamed
    QuantMax = 2
    MaxCommands = 2
    MaxDamage = 0
    MaxInterrupts = 0
INVARIANT ContinueAtAddress
CHECK_DEADLOCK FALSE
