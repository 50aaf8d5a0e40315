SPECIFICATION LiveSpec
CONSTANTS
    LogEnd = 3
    BatchSize = 2
    PollIdle = 1000
    TopicSettings <- BothModes
    Steps <- HalfSecond
INVARIANTS TypeOK OneToken NeverKilled PolledQueueIsLive
PROPERTIES DeliversInOrder Drains StopReturns
