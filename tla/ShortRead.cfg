SPECIFICATION Spec
CONSTANTS
    Types <- MCTypes
    Roots <- OneString
    OptionSet <- ExampleOptionsOnly
    Readers <- ShortStream
    DebugAssertions = TRUE
    MaxLength = 8
    Max8 = 7
    Max16 = 30
    Max32 = 200
PROPERTY
    EveryByteRead
