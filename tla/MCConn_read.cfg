SPECIFICATION Spec
CONSTANTS
    r1 = r1
    w1 = w1
    w2 = w2
    k1 = k1
    s1 = s1
    Readers = {r1}
    Writers = {w1}
    Closers = {k1}
    Shutters = {s1}
    Records = 1
    MaxInbox = 3
    MaxUseless = 1
    Size = 2
    Free = Free
INVARIANTS NothingAfterCloseNotify NoDataLost UselessBounded
