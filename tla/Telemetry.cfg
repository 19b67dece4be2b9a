SPECIFICATION MCSpec
CONSTANTS
    Nodes = {n1, n2}
    Instants <- MCInstants
    Reports <- MCReports
    ResetDays <- MCResetDays
    RetentionDays = {1}
    Interval = 5
    Skew = 300
    MaxBytes = 50
    MaxBps = 4
    MaxRate = 2
    MaxTotal = 100
    Views <- MCViews
    Years <- MCYears
    MaxPending = 2
    MaxSamples = 2
INVARIANTS
    CountedOnce
    PeriodClean
    PeriodStartRight
    HistoryComplete
    UsedWithinTotal
CHECK_DEADLOCK FALSE
