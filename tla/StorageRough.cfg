SPECIFICATION Spec
CONSTANTS
    NumVersions = 3
    Limit = 100
    MaxVnum = 5
    INODE_COUNT = 8
    one = one
    two = two
    sub = sub
    stale = stale
    NoPath = NoPath
    Spell <- MCSpell
    Other = Other
    Name <- MCName
    Byte <- MCByte
    Stale = stale
    Path <- MCPath
    Clip <- WholeLabel
    Calls <- RoughCalls
    RenameOver = FALSE
    Spare = 0
    Rollbacks = FALSE
    KillAt = {"serve", "climb", "finish"}
INVARIANTS
    TypeOK
    NoDangling
PROPERTIES
    CopiesFirst
    VersionsFrozen
    CommitAtomic
