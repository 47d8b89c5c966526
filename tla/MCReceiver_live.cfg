SPECIFICATION FairSpec
CONSTANTS
    k1 = k1
    k2 = k2
    c1 = c1
    c2 = c2
    Callers = {k1, k2}
    Conns = {c1}
    Requests <- AllRequests
    MaxBody = 2
    MaxStarts = 1
    MaxRequests = 1
    Nobody = Nobody
INVARIANT DispatchIsWhole
PROPERTY GoroutinesEnd
