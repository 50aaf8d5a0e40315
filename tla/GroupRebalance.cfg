SPECIFICATION Spec
CONSTANTS
    t0 = t0
    t1 = t1
    Partitions <- TwoPartitions
    LogEnd = 0
    MaxRounds = 2
    MaxRestarts = 1
    InitFails = FALSE
    EarlyFetch = FALSE
INVARIANTS TypeOK RevokedAreActive PollsOwnQueue ConsumersEndFirst QueuesReturned BlamesCurrentConsumer
SYMMETRY Symmetry
CHECK_DEADLOCK FALSE
