SPECIFICATION FairSpec
CONSTANTS
    PAGE = 2
    MaxBlocks = 3
    stale = stale
    Byte <- MCByte
    Stale = stale
    Requests <- MCRequests
    PastEnd = FALSE
INVARIANTS
    TypeOK
PROPERTIES
    ImplementsByteFile
    RequestsEnd
