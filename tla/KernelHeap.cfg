SPECIFICATION FairSpec
CONSTANTS
    HeaderSize = 2
    PageHeaders = 2
    MinimumHeaders = 4
    HeapStart = 8
    HeapEnd = 12
    WordHeaders = 32
    FrameCounts = {5, 7}
    Sizes = {1, 4, 7, 40, 60, 62, 63}
    MaxBlocks = 3
INVARIANTS
    RingIsOrdered
    BlocksTile
PROPERTIES AllocatorSpec CallsEnd
CHECK_DEADLOCK FALSE
