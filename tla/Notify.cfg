SPECIFICATION MCSpec
CONSTANTS
    r1 = r1
    r2 = r2
    n1 = n1
    c1 = c1
    w1 = w1
    Rules = {r1, r2}
    Nodes = {n1}
    Severity <- MCSeverity
    Channels = {c1, c2}
    Workers = {w1, w2}
    Patrol = patrol
    None = None
    Dedup = 2
    KeepSecs = 3
    ThrottleLimit = 1
    SweepLimit = 1
    Intervals = {2}
    Durations = {2}
    MaxChannels = 2
    MaxSilences = 2
    MaxTime = 4
    MaxEvents = 2
    SilenceIds = {1}
    MaxCalls = 4
    SweepTime = 3
    MaxLag = 1
INVARIANTS
    SilenceRespected
    DueReminded
PROPERTIES
    ThrottleExact
CHECK_DEADLOCK FALSE
