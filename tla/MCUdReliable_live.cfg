CONSTANTS
    EpA = "a"
    EpB = "b"
    PsnMod = 65536
    InitialPsn = 1
    MinWindow = 2
    MaxWindow = 2
    ResendsPerAck = 4
    Kinds = {"bcopy"}
    MsgsA = 2
    MsgsB = 0
    FlushesA = 1
    FlushesB = 0
    FailsA = 0
    FailsB = 0
    Closers = {}
    NetCap = 1
    Duplicates = FALSE
    Threads = {FALSE}
    TxQueueLen = 1
    OrderedSendComp = TRUE
    MsgBudget <- MCMsgBudget
    FlushBudget <- MCFlushBudget
    FailBudget <- MCFailBudget
SPECIFICATION FairSpec
PROPERTIES
    EverythingSettles
CHECK_DEADLOCK FALSE
