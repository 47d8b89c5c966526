SPECIFICATION FairSpec
CONSTANTS
    r1 = r1
    w1 = w1
    w2 = w2
    k1 = k1
    s1 = s1
    Readers = {r1}
    Writers = {w1, w2}
    Closers = {k1}
    Shutters = {}
    Records = 2
    MaxInbox = 1
    MaxUseless = 1
    Size = 2
    Free = Free
INVARIANT WritesNotInterleaved
PROPERTIES CloseReturns CallsReturn
