SPECIFICATION RulesSpec
CONSTANTS
    Rules = {r1}
    Preset = {}
    Nodes = {n1}
    Offline = {}
    Duration <- MCDuration
    Confirm = 0
    Workers = {w1}
    Patrol = patrol
    Admins = {a1, a2}
    FlapWindow = 0
    FlapRefire = 0
    MaxTime = 0
    MaxEvents = 1
INVARIANTS
    CacheCurrent
    OrphanOnlyInWindow
CHECK_DEADLOCK FALSE
