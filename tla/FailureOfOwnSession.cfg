SPECIFICATION Spec
CONSTANTS
    MaxID = 2
    FailureThreshold = 3
    Requests <- PlainRequest
    Overlapping = FALSE
PROPERTY FailureOfOwnSession
CHECK_DEADLOCK FALSE
