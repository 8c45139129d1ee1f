SPECIFICATION FairSpec
CONSTANTS
    Types <- MCTypes
    Roots <- MCRoots
    OptionSet <- MCOptions
    Readers <- MCReaders
    DebugAssertions = TRUE
    MaxLength = 8
    Max8 = 7
    Max16 = 30
    Max32 = 200
INVARIANTS
    TypeOK
    SectionsMatchFrames
    SectionsWithinReader
    AnnouncedSizeIsFresh
    InTlvMatchesEnclosing
    PropsScoped
    ComputedSectionsSuffice
PROPERTIES
    EveryByteRead
    Terminates
    ImplementsWindows
