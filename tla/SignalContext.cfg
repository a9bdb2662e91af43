SPECIFICATION Spec
CONSTANTS
    MaxDepth = 3
INVARIANTS RewindsOnlyToSyscall BusyOnlyAfterSignal LoopsOnlyAfterNestingOrFork
PROPERTY ExecutesRequestedCall
CHECK_DEADLOCK FALSE
