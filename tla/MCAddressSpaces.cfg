SPECIFICATION Spec
CONSTANTS
    Tasks = {init, child}
    task_init = init
    task_idle = idle
    FrameCount = 36
    BounceSlots = 4
    Programs <- MCPrograms
    FirstProgram <- MCFirstProgram
    ArgumentSizes = {"fit", "too_large"}
    HeapSteps = {1, 3}
    KernelHeapSteps = {1, 2}
    MaxCalls = 4
INVARIANTS
    FramesHaveOneOwner
    FramesAccounted
    RunsInItsOwnDirectory
    SlotsAreReturned
    SpaceMatchesBreak
CHECK_DEADLOCK FALSE
