SPECIFICATION LiveSpec
CONSTANTS
    m0 = m0
    m1 = m1
    m2 = m2
    Messages <- ThreeMessages
    Leftover <- OneLeft
    MaxBatch = 2
    MaxCrashes = 2
INVARIANTS TypeOK OneTimer OwnerFollows
PROPERTIES Keeps DiskDrains
CHECK_DEADLOCK FALSE
