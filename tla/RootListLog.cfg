SPECIFICATION Spec
CONSTANTS
    NumVersions = 3
    Limit = 100
    MaxVnum = 5
    none = none
    opA = opA
    opB = opB
    NoOp = none
    Rnum <- MCRnum
    Op <- MCOp
    Junk <- MCJunk
INVARIANTS
    TypeOK
    VnumsConsecutive
    GcLabelsWritten
PROPERTIES
    ImplementsLog
