SPECIFICATION FairSpec
CONSTANTS
    h1 = h1
    h2 = h2
    s1 = s1
    Handshakes = {h1, h2}
    Setters = {s1}
    Cloners = {s1}
    Setups <- RotateSetups
    Rotation = 1
    Lifetime = 2
    MaxTime = 2
    MaxCalls = 3
    MaxAdmin = 1
    Nobody = Nobody
INVARIANTS TicketsStillOpen SetTakesEffect
PROPERTIES RotatesOncePerPeriod LockCallsReturn
CHECK_DEADLOCK FALSE
