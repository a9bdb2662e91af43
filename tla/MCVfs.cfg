SPECIFICATION Spec
CONSTANTS
    Tasks = {1, 2}
    InitTask = 1
    MaxResources = 1
    Devices <- MCDevices
    Paths <- MCPaths
    MaxChildren = 2
    MaxInodes = 6
    MaxLost = 3
INVARIANTS
    NothingDangles
    OneNodePerFile
    CountsAreExact
    LinksAreExact
