SPECIFICATION Spec
CONSTANTS
    Nodes = {n1}
    Conns = {c1, c2}
    None = None
    ResendSecs = 1
    MaxTime = 1
    MaxRequests = 1
INVARIANTS
    LiveConnectionHasSender
CHECK_DEADLOCK FALSE
