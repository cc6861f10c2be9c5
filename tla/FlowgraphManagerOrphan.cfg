\* A start() that fails half way, or a restart while stopped.
SPECIFICATION Spec
CONSTANTS
    WarmupFrames = 1
    QueueSize = 1
    DecodeDepth = 1
    MaxSessions = 2
    MaxOfficial = 0
    StartOverLive = TRUE
INVARIANTS
    NoOrphans
CHECK_DEADLOCK FALSE
