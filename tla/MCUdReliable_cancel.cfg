CONSTANTS
    EpA = "a"
    EpB = "b"
    PsnMod = 65536
    InitialPsn = 1
    MinWindow = 2
    MaxWindow = 3
    ResendsPerAck = 4
    Kinds = {"zcopy"}
    MsgsA = 1
    MsgsB = 0
    FlushesA = 0
    FlushesB = 0
    FailsA = 0
    FailsB = 0
    Closers = {"a"}
    NetCap = 1
    Duplicates = TRUE
    Threads = {FALSE}
    TxQueueLen = 2
    OrderedSendComp = TRUE
    MsgBudget <- MCMsgBudget
    FlushBudget <- MCFlushBudget
    FailBudget <- MCFailBudget
SPECIFICATION Spec
PROPERTIES
    DisconnectCancels
CHECK_DEADLOCK FALSE
