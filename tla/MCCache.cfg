SPECIFICATION MCSpec
CONSTANTS
    Sets = 2
    Assoc = 2
    BlockWords = 2
    Blocks = 6
    Val = {0, 1}
    Uninitialised = Uninitialised
    Part = {1}
    Merge <- MCMerge
    Policies = {"lru", "plrum", "fifo", "random"}
    Modes = {"back", "through"}
INVARIANTS
    TypeOK
    UniqueTags
    CleanMatches
    LruIsOrder
    RecentIsKept
PROPERTIES
    ImplementsFlat
