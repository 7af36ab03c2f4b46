SPECIFICATION RoughSpec
CONSTANTS
    NumVersions = 3
    Limit = 100
    MaxVnum = 4
    none = none
    opA = opA
    opB = opB
    NoOp = none
    Rnum <- MCRnum
    Op <- MCOp
    Junk <- MCJunk
INVARIANTS
    VnumsSorted
PROPERTIES
    RootsKept
