SPECIFICATION Spec
CONSTANTS
    PageSize = 2
    SizeModulus = 32
    Regions <- MCRegions
    Modules <- MCModules
    FirstMegabyte = 2
    KernelStart = 2
    KernelEnd = 5
INVARIANTS
    TypeOK
    HintSound
    ReservedStaysSet
PROPERTY AllocatorSpec
