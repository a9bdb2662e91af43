CONSTANTS
    MaxPid = 5
    Blocks = 7
SPECIFICATION Spec
INVARIANTS WaitersAreWoken
CHECK_DEADLOCK FALSE
