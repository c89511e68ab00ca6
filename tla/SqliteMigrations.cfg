SPECIFICATION FairSpec
CONSTANTS
    Opener = {p1, p2}
    Latest = 2
    MaxRows = 1
    MaxAside = 1
    None = None
CHECK_DEADLOCK FALSE
INVARIANTS
    TypeOK
    SchemaIsWhole
    MigratedOnce
    OpenedIsMigrated
    OldVersionKept
    NothingDeleted
PROPERTIES
    EveryOpenReturns
