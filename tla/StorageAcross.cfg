SPECIFICATION Spec
CONSTANTS
    NumVersions = 3
    Limit = 100
    MaxVnum = 7
    INODE_COUNT = 14
    one = one
    two = two
    sub = sub
    stale = stale
    NoPath = NoPath
    Spell <- MCSpell
    Other = Other
    Name <- MCName
    Byte <- MCByte
    Stale = stale
    Path <- MCPath
    Clip <- WholeLabel
    Calls <- AcrossCalls
    RenameOver = FALSE
    Spare = 4
    Rollbacks = FALSE
    KillAt = {}
PROPERTIES
    LinkVisible
CHECK_DEADLOCK FALSE
