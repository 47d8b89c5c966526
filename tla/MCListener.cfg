SPECIFICATION FairSpec
CONSTANTS
    c1 = c1
    c2 = c2
    a1 = a1
    k1 = k1
    Conns = {c1, c2}
    GoTLS = {c1}
    Acceptors = {a1}
    Closers = {k1}
    NoConn = NoConn
    MaxTempErrs = 1
INVARIANTS HandedIsUsable CloseLeavesNothing EveryOpenConnOwned TerminalErrorIsFinal
           LogTellsPeerFailures
PROPERTIES ImplementsNetListener HandshakeTerminates ShutdownCompletes
