\* Every signal with at most three strong offsets, every way of cutting it
\* into chunks.  Three whole frames fit into the stream, so that the queue
\* holds two while the worker has none or a third.  The stream ends when the
\* radio is stopped.
SPECIFICATION FairSpec
CONSTANTS
    PreLen = 2
    DataChips = 3
    Threshold = 2
    QueueSize = 2
    MaxChunk = 3
    StreamLen = 15
    Signals <- SparseSignals
INVARIANTS
    TypeOK
    FrameExtent
    FramesDisjoint
    NoPreambleLost
    BufferBounded
    DecodedInOrder
PROPERTIES
    DetectorSpec
    AcceptedIsDecoded
CHECK_DEADLOCK FALSE
