SPECIFICATION Spec
CONSTANTS
    Centre = 10
    Bandwidth = 4
    Spacing = 1
    Simulated = FALSE
    Hoppings <- SmallHoppings
    Lists <- SmallLists
    Seeds = {2}
    Draws <- SmallDraws
    Tiles = 2
    Period = 3
    MaxChunk = 3
    MaxSamples = 7
    MaxLag = 2
    MaxUpdates = 1
INVARIANTS
    TypeOK
    PhaseIsContinuous
    HopsCancel
CHECK_DEADLOCK FALSE
