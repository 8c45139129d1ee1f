SPECIFICATION Spec
CONSTANTS
    Types <- MCTypes
    Roots <- MCRoots
    OptionSet <- MCOptions
    InitialBytes = {2}
    DebugAssertions = TRUE
    Max8 = 7
    Max16 = 30
    Max32 = 200
    MaxElements = 3
    MaxUnits = 4
    MaxCalls = 1
INVARIANTS
    TypeOK
    SectionsMatchFrames
    SectionsNested
    PlaceholdersAreOpen
    TagsAnnounceLengthFields
    PropsScoped
PROPERTIES
    FailuresOnlyAppend
    ImplementsFraming
