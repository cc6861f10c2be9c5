\* Two sessions of one warmup and one official frame, stopped, started and
\* restarted at any moment.
SPECIFICATION FairSpec
CONSTANTS
    WarmupFrames = 1
    QueueSize = 1
    DecodeDepth = 1
    MaxSessions = 2
    MaxOfficial = 1
    StartOverLive = FALSE
INVARIANTS
    TypeOK
    CountedWereDetected
    RunningIsLive
    NoOrphans
PROPERTIES
    MonitorsEnd
    OfficialStarts
CHECK_DEADLOCK FALSE
