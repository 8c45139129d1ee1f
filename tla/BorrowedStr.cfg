SPECIFICATION Spec
CONSTANTS
    Texts <- MCTexts
    Garbage <- NoGarbage
    OptionSet <- LittleOnly
    MaxSizes = {20}
INVARIANTS
    BorrowedIsSent
