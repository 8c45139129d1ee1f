SPECIFICATION Spec
CONSTANTS
    Types <- TypesWithProps
    Roots <- PropsInSequence
    OptionSet <- ExampleOptionsOnly
    Readers <- OneSlice
    DebugAssertions = TRUE
    MaxLength = 8
    Max8 = 7
    Max16 = 30
    Max32 = 200
INVARIANT
    ComputedSectionsSuffice
