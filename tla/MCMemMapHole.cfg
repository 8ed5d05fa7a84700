SPECIFICATION Spec
CONSTANTS
    Word = 32
    MemSize = 14
    PageSize = 2
    Entry = 1
    ProgEnd = 2
    Hints <- MCHints
    Sizes <- MCSizes
INVARIANT UsedIsHeld
CHECK_DEADLOCK FALSE
