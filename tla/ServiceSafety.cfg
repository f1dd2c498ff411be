\* Three calls that take an identity, so an old attempt or session, the
\* Disconnect that ends it and a new attempt meet; and calls may overlap.
SPECIFICATION Spec
CONSTANTS
    MaxID = 3
    FailureThreshold = 1
    Requests <- OneRequest
    Overlapping = TRUE
VIEW View
INVARIANTS
    ServiceTypeOK
    SlotExclusive
    ClientHeldOnce
    SessionMonitored
    PromptOfLiveAttempt
    SilentOnlyIfCancelled
    StoppingIsTransient
    OwnEngineDown
    FailedAttemptLeavesNoEngine
    ActiveDisconnectStopsEngine
PROPERTIES
    MonitorEndsOwnSession
    ImplementsSlot
\* The bound on identities ends every behaviour.
CHECK_DEADLOCK FALSE
