SPECIFICATION MCSpec
CONSTANTS
    INODE_COUNT = 3
    PAGE_COUNT = 9
    NUM_DIRECT_PAGES = 1
    NUM_PTRS = 1
    MaxBlocks = 3
    clear = clear
    dirty = dirty
    Data <- MCData
    Zero = clear
    MaxCalls = 6
    KillAt = {"copy", "grow"}
INVARIANTS
    TypeOK
    Private
PROPERTIES
    ImplementsFiles
    PagesReturned
