SPECIFICATION LiveSpec
CONSTANTS
    a = a
    b = b
    p = p
    q = q
    Undefined = undefined
    Nil = nil
    Nobody = nobody
    Ids <- TwoIds
    Callers <- TwoCallers
    Environments <- AnyGlobalOptions
    Intensity = 1
    MaxDeaths = 3
INVARIANTS TypeOK OneClient
PROPERTIES CreatedIsKept Answered ComesBack
CHECK_DEADLOCK FALSE
