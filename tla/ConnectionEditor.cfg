\* Connections of up to three items, edited without end.
SPECIFICATION Spec
CONSTANTS
    Connection <- SomeConnections
    Texts <- SomeTexts
    TooLong <- NoLongNames
INVARIANTS
    TypeOK
    SavedIsUsed
    DialogReadsSaved
    UntouchedIsUnchanged
    LastAcceptedWins
PROPERTIES
    KeepsUnknownKeys
