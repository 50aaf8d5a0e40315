SPECIFICATION ComposedLiveSpec
CONSTANTS
    t0 = t0
    Partitions <- OnePartition
    LogEnd = 2
    MaxRounds = 2
    MaxRestarts = 1
    InitFails = FALSE
    EarlyFetch = FALSE
    BatchSize = 2
INVARIANTS NothingSkipped CallbacksInOrder OneHandler
PROPERTIES AssignedIsDrained
CHECK_DEADLOCK FALSE
