\* One activation that asks for its key and one Disconnect; two
\* failed polls in a row end a session.
SPECIFICATION FairSpec
CONSTANTS
    MaxID = 2
    FailureThreshold = 2
    Requests <- OneRequest
    Overlapping = FALSE
PROPERTIES
    ActivationEnds
    ConnectionReleased
    CancelledMonitorStops
    EngineLossNoticed
\* The bound on identities ends every behaviour.
CHECK_DEADLOCK FALSE
