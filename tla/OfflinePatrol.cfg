SPECIFICATION MCSpec
CONSTANTS
    Nodes = {n1}
    Period = 1
    MaxGap = 2
    Grace = 4
    Confirm = 1
    FlapWindow = 12
    FlapRefire = 7
    MaxTime = 13
    MaxMissed = 2
INVARIANTS
    TypeOK
    OutageDetected
PROPERTIES
    AlertsSpaced
    SilenceConfirmed
CHECK_DEADLOCK FALSE
