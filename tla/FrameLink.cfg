SPECIFICATION Spec
CONSTANTS
    ByteBits = 4
    Codecs <- SmallCodecs
    Payloads <- SmallPayloads
    Tails <- SmallTails
    Ids = {2}
    MaxFrames = 3
INVARIANTS
    TypeOK
    ProfileRoundTrip
    OkIsRight
    SingleErrorHarmless
    CutFrameRejected
    LengthsAgree
    CountersNeverRepeat
    GeneratedRoundTrip
CHECK_DEADLOCK FALSE
