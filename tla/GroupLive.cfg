SPECIFICATION LiveSpec
CONSTANTS
    t0 = t0
    t1 = t1
    Partitions <- OnePartition
    LogEnd = 3
    MaxRounds = 2
    MaxRestarts = 1
    InitFails = TRUE
    EarlyFetch = FALSE
PROPERTIES DeliversPartitions RevokeAnswered GroupStops
CHECK_DEADLOCK FALSE
