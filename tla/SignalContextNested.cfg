SPECIFICATION Spec
CONSTANTS
    MaxDepth = 2
INVARIANTS TrampolineNeverLoops
CHECK_DEADLOCK FALSE
