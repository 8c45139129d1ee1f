SPECIFICATION FairSpec
CONSTANTS
    Types <- MCTypes
    Roots <- Bytes
    OptionSet <- ExampleOptionsOnly
    Readers <- ShortStream
    DebugAssertions = TRUE
    MaxLength = 8
    Max8 = 7
    Max16 = 30
    Max32 = 200
PROPERTY
    Terminates
