SPECIFICATION Spec
CONSTANTS
    Types <- MCTypes
    Roots <- NestedTlvStruct
    OptionSet <- ExampleOptionsOnly
    InitialBytes = {0}
    DebugAssertions = TRUE
    Max8 = 7
    Max16 = 30
    Max32 = 200
    MaxElements = 3
    MaxUnits = 4
    MaxCalls = 1
INVARIANT
    ReservationSuffices
