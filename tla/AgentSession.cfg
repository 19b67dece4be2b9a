SPECIFICATION FairSpec
CONSTANTS
    Conns = {c1, c2}
    None = None
    Capacity = 2
    Chunk = 2
    ChunkBytes = 2
    MaxMessage = 3
    MaxPoints = 3
    Large = {3}
    LargeSize = 3
    Interval = 1
    MaxBackoff = 2
    Skew = 1
    TsSkew = 2
    MaxAge = 2
    Bucket = 5
    MessageCost = 1
    RefillRate = 1
    MaxDelay = 1
    MaxTime = 3
    MaxSamples = 3
    MaxTroubles = 2
INVARIANTS
    BufferIsNewest
    NothingLostOnLink
    NotCutOff
PROPERTIES
    ImplementsLog
    Drains
CHECK_DEADLOCK FALSE
