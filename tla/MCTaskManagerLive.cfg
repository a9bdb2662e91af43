SPECIFICATION FairSpec
CONSTANTS
    MaxPid = 3
    Levels = 2
    BoostInterval = 3
    DefaultTimeSlice = 2
    SliceModulus = 16
    KeyboardBufferSize = 1
    Uninitialised <- MCUninitialised
PROPERTY ReadyTaskRuns
