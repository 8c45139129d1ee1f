SPECIFICATION Spec
CONSTANTS
    Texts <- MCTexts
    Garbage <- MCGarbage
    OptionSet <- MCOptions
    MaxSizes = {6, 20}
INVARIANTS
    TypeOK
    TextArrives
    CutTextIsPrefix
    AcceptedAsWritten
    EarlyEndIsReported
