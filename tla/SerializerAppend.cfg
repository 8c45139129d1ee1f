SPECIFICATION Spec
CONSTANTS
    Types <- MCTypes
    Roots <- AppendRoots
    OptionSet <- MCOptions
    InitialBytes = {0, 2}
    DebugAssertions = FALSE
    Max8 = 7
    Max16 = 30
    Max32 = 200
    MaxElements = 3
    MaxUnits = 4
    MaxCalls = 2
PROPERTIES
    PriorBytesKept
