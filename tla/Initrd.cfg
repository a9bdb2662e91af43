CONSTANTS
    Names = {a, b, c}
    a = a
    b = b
    c = c
    Sizes = {0, 1, 3}
    PAGE_SIZE = 4
    TAR_BLOCK_SIZE = 2
    RAMFS_NODE_MAX_CHILDREN = 2
    MaxDepth = 2
    ModStarts = {4, 7}
    TarSizes = {1, 5}
    MaxDenied = 1
SPECIFICATION Spec
INVARIANTS TreeIsArchive
CHECK_DEADLOCK FALSE
SYMMETRY NameSymmetry
