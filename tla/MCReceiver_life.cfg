SPECIFICATION Spec
CONSTANTS
    k1 = k1
    k2 = k2
    c1 = c1
    c2 = c2
    Callers = {k1, k2}
    Conns = {c1}
    Requests <- GoodOnly
    MaxBody = 2
    MaxStarts = 2
    MaxRequests = 1
    Nobody = Nobody
SYMMETRY CallerSymmetry
VIEW Lasting
INVARIANTS StopLeavesNothing NoOrphanServer
PROPERTY NoAnswerAfterStop
