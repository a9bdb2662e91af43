SPECIFICATION Spec
CONSTANTS
    MaxPid = 4
    Levels = 2
    BoostInterval = 2
    DefaultTimeSlice = 2
    SliceModulus = 16
    KeyboardBufferSize = 1
    Uninitialised <- MCUninitialised
INVARIANTS
    TypeOK
    QueueDiscipline
    RunnerIsRunning
    SliceNeverWraps
    KeyboardWakesReaders
    WaitersCanBeWoken
    NoDanglingTask
    FamilyIsLinked
PROPERTY LifecycleRespected
VIEW LiveState
