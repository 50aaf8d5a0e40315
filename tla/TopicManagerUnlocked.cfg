SPECIFICATION Spec
CONSTANTS
    p1 = p1
    p2 = p2
    p3 = p3
    t1 = t1
    t2 = t2
    Manager = manager
    Producers <- TwoProducers
    Names <- OneName
INVARIANT PartialProtectionIsSafe
CHECK_DEADLOCK FALSE
