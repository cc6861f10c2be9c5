\* One warmup and three official frames with burst dropout, against output
\* buffers shorter and longer than a frame; the stop comes at any moment.
SPECIFICATION FairSpec
CONSTANTS
    WarmupFrames = 1
    QueueSize = 1
    FrameChips = 2
    SymbolChips = 1
    Dropout = TRUE
    MaxRoom = 3
    MaxOfficial = 3
INVARIANTS
    TypeOK
    FramesConserved
    FramesInOnePiece
    OfficialInOrder
    AnnouncedAreQueued
    AtMostOneLate
PROPERTIES
    FeederEnds
    QueuedIsSent
CHECK_DEADLOCK FALSE
