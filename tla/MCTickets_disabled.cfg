SPECIFICATION FairSpec
CONSTANTS
    h1 = h1
    h2 = h2
    s1 = s1
    Handshakes = {h1}
    Setters = {s1}
    Cloners = {s1}
    Setups <- DisabledSetups
    Rotation = 2
    Lifetime = 3
    MaxTime = 4
    MaxCalls = 3
    MaxAdmin = 1
    Nobody = Nobody

PROPERTY SetReturns
CHECK_DEADLOCK FALSE
