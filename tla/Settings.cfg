SPECIFICATION SettingsFairSpec
CONSTANTS
    Forms = {f1, f2}
    Default = default
    Requests = {p1, p2}
    Nodes = {n1}
    Conns = {c1, c2}
    MaxCalls = 2
    MaxTroubles = 2
INVARIANTS
    CopiesAgree
PROPERTIES
    AgentsFollow
CHECK_DEADLOCK FALSE
