SPECIFICATION Spec
CONSTANTS
    Nodes = {n1, n2}
    Keys = {k1, k2}
    Requests = {p1, p2}
    Conns = {c1}
    None = None
INVARIANTS
    KeySpentOnce
    ActiveByCurrentKey
PROPERTIES
    RevokedCutOff
CHECK_DEADLOCK FALSE
