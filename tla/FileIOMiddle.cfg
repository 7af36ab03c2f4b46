SPECIFICATION Spec
CONSTANTS
    PAGE = 2
    MaxBlocks = 3
    stale = stale
    Byte <- MCByte
    Stale = stale
    Requests <- MCRequests
    PastEnd = FALSE
PROPERTIES
    WriteKeepsRest
