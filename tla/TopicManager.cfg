SPECIFICATION LiveSpec
CONSTANTS
    p1 = p1
    p2 = p2
    p3 = p3
    t1 = t1
    t2 = t2
    Manager = manager
    Producers <- TwoProducers
    Names <- TwoNames
INVARIANTS TypeOK OneHandle NothingLeaks
PROPERTY CallsReturn
CHECK_DEADLOCK FALSE
