SPECIFICATION FairSpec
CONSTANTS
    r1 = r1
    r2 = r2
    n1 = n1
    Rules = {r1, r2}
    Nodes = {n1}
    Offline = {r2}
    Duration <- MCDuration
    Confirm = 0
    Workers = {w1, w2}
    Patrol = patrol
    FlapWindow = 2
    FlapRefire = 1
    MaxTime = 1
    MaxEvents = 2
INVARIANTS
    TypeOK
    NoGhostEvent
    CellNamesOpenRow
    NoSilentAlert
    RecoveryFollowsAlert
    RecoveryAnnouncedOnce
PROPERTIES
    OrphansClose
CHECK_DEADLOCK FALSE
