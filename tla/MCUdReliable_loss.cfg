CONSTANTS
    EpA = "a"
    EpB = "b"
    PsnMod = 32
    InitialPsn = 31
    MinWindow = 2
    MaxWindow = 3
    ResendsPerAck = 4
    Kinds = {"short", "bcopy"}
    MsgsA = 2
    MsgsB = 0
    FlushesA = 0
    FlushesB = 0
    FailsA = 0
    FailsB = 0
    Closers = {}
    NetCap = 2
    Duplicates = TRUE
    Threads = {FALSE}
    TxQueueLen = 1
    OrderedSendComp = TRUE
    MsgBudget <- MCMsgBudget
    FlushBudget <- MCFlushBudget
    FailBudget <- MCFailBudget
SPECIFICATION Spec
INVARIANTS
    TypeOK
    InOrderDelivery
    WindowHoldsUnacked
    AckedWasReceived
CHECK_DEADLOCK FALSE
