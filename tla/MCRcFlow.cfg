CONSTANTS
    CreditMsgsA = 5
    CreditMsgsB = 4
    SharedMsgs1 = 2
    SharedMsgs2 = 1
    FcWnd = 3
    FcSoftThresh = 2
    FcHardThresh = 1
    TxMaxWr = 4
    TxModeration = 1
    TxCqLen = 7
    MaxReads = 1
    Eps <- MCEps
    Ifaces <- MCIfaces
    IfaceOf <- MCIfaceOf
    Peer <- MCPeer
    Bounds <- MCBounds
SPECIFICATION FairSpec
INVARIANTS
    
    PendingScheduled
    StuckHasSignal
    CqNeverOverflows
    KeepaliveArmed
PROPERTIES
    EveryRequestServed
CHECK_DEADLOCK FALSE
