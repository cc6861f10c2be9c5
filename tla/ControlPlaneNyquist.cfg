SPECIFICATION Spec
CONSTANTS
    ByteBits = 4
    Rolloff = 35
    InitialConfig <- SmallConfig
    RfValues <- SmallRfs
    HoppingValues <- SmallHoppings
    ModulationValues <- SmallModulations
    FrameValues <- SmallFrames
    TransitionTimes = {1, 2}
    AnomalyValues <- SmallAnomalies
    LogValues <- SmallLogs
    AnomalyLevels = {0, 2}
    Files = {"saved", "broken"}
    BadFiles = {"broken"}
    MaxChanges = 3
    MaxRecordings = 2
INVARIANT
    HoppingFits
CHECK_DEADLOCK FALSE
