SPECIFICATION Spec
CONSTANTS
    t0 = t0
    t1 = t1
    Partitions <- OnePartition
    LogEnd = 2
    MaxRounds = 1
    MaxRestarts = 0
    InitFails = FALSE
    EarlyFetch = TRUE
INVARIANT DroppedHaveNoImpact
CHECK_DEADLOCK FALSE
