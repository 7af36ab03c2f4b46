SPECIFICATION Spec
CONSTANTS
    NumVersions = 3
    Limit = 100
    MaxVnum = 7
    INODE_COUNT = 14
    one = one
    two = two
    sub = sub
    stale = stale
    NoPath = NoPath
    Spell <- MCSpell
    Other = Other
    Name <- MCName
    Byte <- MCByte
    Stale = stale
    Path <- WidePath
    Clip <- LabelPath
    Calls <- NameCalls
    RenameOver = FALSE
    Spare = 4
    Rollbacks = FALSE
    KillAt = {}
INVARIANTS
    NoDangling
    RefsCoverNames
PROPERTIES
    LinkVisible
    UnlinkExact
    RenameMoves
    RenameKeepsFiles
    CommitLocal
