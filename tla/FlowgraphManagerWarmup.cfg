\* A single session: warmup frames reach the statistics.
SPECIFICATION Spec
CONSTANTS
    WarmupFrames = 1
    QueueSize = 1
    DecodeDepth = 1
    MaxSessions = 1
    MaxOfficial = 2
    StartOverLive = FALSE
INVARIANTS
    WarmupsNotCounted
CHECK_DEADLOCK FALSE
