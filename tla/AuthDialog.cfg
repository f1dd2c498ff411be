\* Three settings, or fewer with continued and empty lines.
SPECIFICATION Spec
CONSTANTS
    Lines <- SomeLines
    MaxLines = 7
INVARIANTS
    TypeOK
    ReadsProtocol
    AnswersNeedSecrets
    NoNeedlessQuestion
\* The dialog ends.
CHECK_DEADLOCK FALSE
