SPECIFICATION RoundTripSpec
CONSTANTS
    Types <- MCTypes
    Roots <- MCRoots
    Versions <- MCVersions
    OptionSet <- MCOptions
    Readers <- MCReaders
    InitialBytes = {2}
    DebugAssertions = TRUE
    MaxElements = 2
    MaxUnits = 1
    MaxLength = 31
    Max8 = 7
    Max16 = 30
    Max32 = 200
INVARIANTS
    AtPart
    ReceivesWhatWasSent
PROPERTIES
    Arrives
