SPECIFICATION SettingsSpec
CONSTANTS
    Forms = {f1, f2}
    Default = default
    Requests = {p1}
    Nodes = {n1}
    Conns = {c1}
    MaxCalls = 1
    MaxTroubles = 0
INVARIANTS
    IntervalCurrent
CHECK_DEADLOCK FALSE
