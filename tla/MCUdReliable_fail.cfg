CONSTANTS
    EpA = "a"
    EpB = "b"
    PsnMod = 65536
    InitialPsn = 1
    MinWindow = 2
    MaxWindow = 3
    ResendsPerAck = 4
    Kinds = {"zcopy"}
    MsgsA = 2
    MsgsB = 0
    FlushesA = 1
    FlushesB = 0
    FailsA = 1
    FailsB = 0
    Closers = {"a"}
    NetCap = 1
    TxQueueLen = 2
    Duplicates = TRUE
    Threads = {FALSE}
    OrderedSendComp = FALSE
    MsgBudget <- MCMsgBudget
    FlushBudget <- MCFlushBudget
    FailBudget <- MCFailBudget
SPECIFICATION Spec
INVARIANTS
    IndInv
    ResendPosValid
    ResendAccounting
    TimerCoversUnacked
CHECK_DEADLOCK FALSE
