SPECIFICATION FairSpec
CONSTANTS
    Declarations <- MCDeclarations
    NamedType <- MCNamedType
    Half <- MCHalf
    MaxU16 = 65535
    Max32 = 1000000
INVARIANTS
    TypeOK
    CompilesAsDocumented
    DerivesWhatIsDeclared
    AcceptedIsVerifiable
    IdsTellFieldsApart
    EnumsRoundTrip
PROPERTIES
    Ends
