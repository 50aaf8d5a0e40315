SPECIFICATION Spec
CONSTANTS
    a = a
    b = b
    p = p
    q = q
    Undefined = undefined
    Nil = nil
    Nobody = nobody
    Ids <- OneId
    Callers <- OneCaller
    Environments <- AnyGlobalOptions
    Intensity = 1
    MaxDeaths = 3
INVARIANT GlobalOptionsWork
CHECK_DEADLOCK FALSE
