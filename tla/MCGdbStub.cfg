SPECIFICATION Spec
CONSTANTS
    Address <- MCAddress
    Succ <- MCSucc
    Entry <- MCEntry
    Named <- MCNamed
    QuantMax = 2
    MaxCommands = 4
    MaxDamage = 1
    MaxInterrupts = 1
INVARIANTS
    TypeOK
    NoMissedBreakpoint
    SingleStep
    ReplyMatches
    ViewAgrees
PROPERTIES
    NoSpuriousStop
    CommandAnswered
CHECK_DEADLOCK FALSE
