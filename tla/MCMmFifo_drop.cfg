SPECIFICATION Spec

CONSTANTS
    p1 = "p1"
    p2 = "p2"
    Msgs1 = 2
    Msgs2 = 0
    FifoSize = 2
    Release = 1
    Kinds = {"bcopy"}
    MayKeep = TRUE
    MayArm = FALSE
    PurgeBudget = 0
    AttachFailures = 0
    SignalCap = 1
    Descs = {d1, d2, d3}
    NoDesc = NoDesc
    Senders <- MCSenders
    MsgBudget <- MCMsgBudget

SYMMETRY DescSymmetry

PROPERTIES
    TakenIsDelivered

CHECK_DEADLOCK FALSE
