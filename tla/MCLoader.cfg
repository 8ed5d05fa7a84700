SPECIFICATION LoaderSpec
CONSTANTS
    Word = 64
    MemSize = 24
    PageSize = 4
    Entry = 1
    ProgEnd = 3
    Hints <- MCHints
    Sizes <- MCSizes
    Programs <- MCPrograms
    LibraryName <- MCLibraryName
INVARIANTS
    TypeOK
    GrantsDisjoint
    GrantsBacked
    ListCanonical
    LoaderTypeOK
    ReferencesBound
    FunctionsInOrder
CHECK_DEADLOCK FALSE
