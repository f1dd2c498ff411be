SPECIFICATION Spec
CONSTANTS
    MaxID = 2
    FailureThreshold = 3
    Requests <- PlainRequest
    Overlapping = FALSE
INVARIANT DisconnectStopsEngine
CHECK_DEADLOCK FALSE
