CONSTANTS
    EpA = "a"
    EpB = "b"
    PsnMod = 65536
    InitialPsn = 1
    MinWindow = 2
    MaxWindow = 3
    ResendsPerAck = 4
    Kinds = {"zcopy"}
    MsgsA = 2
    MsgsB = 0
    FlushesA = 1
    FlushesB = 0
    FailsA = 0
    FailsB = 0
    Closers = {}
    NetCap = 1
    TxQueueLen = 2
    Duplicates = TRUE
    Threads = {TRUE, FALSE}
    OrderedSendComp = TRUE
    MsgBudget <- MCMsgBudget
    FlushBudget <- MCFlushBudget
    FailBudget <- MCFailBudget
SPECIFICATION Spec
INVARIANTS
    CompletionsInOrder
PROPERTIES
    OkMeansReceived
    ImplementsChannel
CHECK_DEADLOCK FALSE
