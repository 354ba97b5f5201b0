CONSTANTS
    A = "A"
    B = "B"
    Workers = {"A", "B"}
    Uuid <- MCUuid
    Bounds <- MCBounds
SPECIFICATION FairSpec
INVARIANTS
    NoAssertionFails
    PairsAgree
    OneEndpointPerSn
    LaneSwitchedWhenConnected
    SendOrder
PROPERTIES
    EverySendLeaves
CHECK_DEADLOCK FALSE
