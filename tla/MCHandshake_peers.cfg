SPECIFICATION Spec
CONSTANTS
    Setups <- PeerSetups
    Owned = {"dPlain", "s256", "sRsa"}
    MaxDay = 5
    Lifetime = 3
    Rotation = 1
INVARIANTS Agreement CCMPeerVerified MessagesInOrder PeerHoldsItsKey
PROPERTY ResumptionIsFresh
