SPECIFICATION Spec
CONSTANTS
    ByteBits = 8
    Codecs <- DefaultCodecs
    Payloads <- DefaultPayloads
    Tails <- SmallTails
    Ids = {2}
    MaxFrames = 1
INVARIANT
    InvertedRecovered
CHECK_DEADLOCK FALSE
