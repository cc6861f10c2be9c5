SPECIFICATION Spec
CONSTANTS
    WarmupFrames = 0
    QueueSize = 2
    FrameChips = 4
    SymbolChips = 2
    Dropout = FALSE
    MaxRoom = 5
    MaxOfficial = 2
INVARIANTS
    FramesOnSymbolBoundary
CHECK_DEADLOCK FALSE
