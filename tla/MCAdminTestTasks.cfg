SPECIFICATION FairSpec
CONSTANTS
    MaxActive = 2
    MaxCount = 2
    MaxPayload = 3
    MaxCompletedBytes = 3
    MetaSize = 1
    Bodies = {1, 3}
    Overrun = TRUE
    MaxTasks = 3
INVARIANTS
    TypeOK
    StoreAccounted
    PendingIsBacked
PROPERTIES
    EvictsOnlyCompleted
    PendingEnds
    ShutdownEnds
