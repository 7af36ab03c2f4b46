SPECIFICATION Spec
CONSTANTS
    NumVersions = 3
    Limit = 100
    MaxVnum = 7
    INODE_COUNT = 18
    one = one
    two = two
    sub = sub
    stale = stale
    NoPath = NoPath
    Spell <- MCSpell
    Other = Other
    Name <- MCName
    Byte <- MCByte
    Stale = stale
    Path <- MCPath
    Clip <- LabelPath
    Calls <- PlainCalls
    RenameOver = FALSE
    Spare = 4
    Rollbacks = FALSE
    KillAt = {}
INVARIANTS
    NoDangling
    NoLeak
PROPERTIES
    VersionsFrozen
    CommitAtomic
    CommitLocal
    ImplementsSnapshots
