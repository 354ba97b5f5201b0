SPECIFICATION FairSpec

CONSTANTS
    p1 = "p1"
    p2 = "p2"
    Msgs1 = 3
    Msgs2 = 1
    FifoSize = 2
    Release = 2
    Kinds = {"short"}
    MayKeep = FALSE
    MayArm = TRUE
    PurgeBudget = 1
    AttachFailures = 0
    SignalCap = 1
    Descs = {d1, d2, d3}
    NoDesc = NoDesc
    Senders <- MCSenders
    MsgBudget <- MCMsgBudget

INVARIANTS
    NoLostWakeup
    FifoOrder
    NoRoomWhilePending
    FlushCovers
    SlotExclusive

PROPERTIES
    AllDelivered

CHECK_DEADLOCK FALSE
