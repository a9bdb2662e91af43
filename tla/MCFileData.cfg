CONSTANTS
    parent = parent
    child = child
    Tasks = {parent, child}
    task_init = parent
    Slots = {0}
    Resources = {1, 2}
    f = f
    g = g
    Files = {f, g}
    MaxLength = 2
    SizeModulus = 6
    Seeks = {1}
    HeapBytes = 3
    GrowthLimit = 4
    HeaderSize = 2
SPECIFICATION Spec
INVARIANTS BlocksAreOwned DescriptorsAreLive
PROPERTY FilesSpec
CHECK_DEADLOCK FALSE
VIEW MCView
SYMMETRY FileSymmetry
