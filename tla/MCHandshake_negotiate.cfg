SPECIFICATION FairSpec
CONSTANTS
    Setups <- NegotiateSetups
    Owned = {}
    MaxDay = 1
    Lifetime = 2
    Rotation = 1
INVARIANTS OutcomeAsNegotiated RefusalIsTold
PROPERTY HandshakeEnds
