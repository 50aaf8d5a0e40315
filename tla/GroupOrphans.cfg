SPECIFICATION Spec
CONSTANTS
    t0 = t0
    t1 = t1
    Partitions <- TwoPartitions
    LogEnd = 0
    MaxRounds = 2
    MaxRestarts = 1
    InitFails = TRUE
    EarlyFetch = FALSE
INVARIANT PolledQueuesAreTaken
CHECK_DEADLOCK FALSE
