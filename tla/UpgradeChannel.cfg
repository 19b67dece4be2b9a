SPECIFICATION FairSpec
CONSTANTS
    Nodes = {n1, n2}
    Conns = {c1, c2}
    None = None
    ResendSecs = 1
    MaxTime = 1
    MaxRequests = 2
INVARIANTS
    TypeOK
    SenderHasLoop
    WindowOnlyWithoutSender
    NoDoubleUpgrade
PROPERTIES
    TriggerArrives
CHECK_DEADLOCK FALSE
