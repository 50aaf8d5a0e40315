SPECIFICATION LiveSpec
CONSTANTS
    a = a
    b = b
    Clients <- TwoClients
    Interval <- Intervals
    MaxEvents = 2
    Steps <- OneTick
INVARIANTS TypeOK NoLostWakeup PollGap
PROPERTIES RemovedIsNotPolled Served Joins
CHECK_DEADLOCK FALSE
