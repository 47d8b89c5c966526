SPECIFICATION Spec
CONSTANTS
    Imports <- OperatorPairs
    Leaves <- SANs
    Files = {"", "missing", "root", "ca"}
    Margins = {0, 1}
    Years = {0, 1}
    Prints <- Fingerprints
    Skew = 1
    MaxTime = 3
INVARIANTS CAJudgedExactly VerifiedDeviceHasIdentity
CHECK_DEADLOCK FALSE
