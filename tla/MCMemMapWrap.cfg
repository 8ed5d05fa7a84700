SPECIFICATION Spec
CONSTANTS
    Word = 32
    MemSize = 14
    PageSize = 2
    Entry = 1
    ProgEnd = 2
    Hints <- MCHints
    Sizes <- MCWrapSizes
INVARIANT GrantFits
CHECK_DEADLOCK FALSE
