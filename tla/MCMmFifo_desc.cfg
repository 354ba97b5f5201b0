SPECIFICATION Spec

CONSTANTS
    p1 = "p1"
    p2 = "p2"
    Msgs1 = 2
    Msgs2 = 1
    FifoSize = 2
    Release = 1
    Kinds = {"short", "bcopy"}
    MayKeep = TRUE
    MayArm = FALSE
    PurgeBudget = 0
    AttachFailures = 1
    SignalCap = 1
    Descs = {d1, d2, d3, d4}
    NoDesc = NoDesc
    Senders <- MCSenders
    MsgBudget <- MCMsgBudget

SYMMETRY DescSymmetry

INVARIANTS
    DescOwnership

PROPERTIES
    HeldDataStable

CHECK_DEADLOCK FALSE
