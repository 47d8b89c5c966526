SPECIFICATION Spec
CONSTANTS
    c1 = c1
    c2 = c2
    c3 = c3
    c4 = c4
    s1 = s1
    s2 = s2
    s3 = s3
    x1 = x1
    x2 = x2
    Conns = {c1, c2, c3, c4}
    Keys = {s1, s2, s3}
    Certs = {x1, x2}
    CertOf <- SharedCert
    Capacity = 2
    Nil = Nil
SYMMETRY ConnSymmetry
INVARIANTS DroppedStaysDropped NoCertificateLeak
PROPERTY ImplementsSessionCache
CHECK_DEADLOCK FALSE
