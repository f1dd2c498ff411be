\* Other clients switch, remove, bring up and stop at any time, and add nothing.
SPECIFICATION RaceSpec
CONSTANTS
    Name <- Names
    User <- Users
    InitialProfiles <- Distinct
    MaxKey = 4
    FeatureSets <- AllDaemons
    Others <- NoAdd
    Polite = FALSE
    Errors = FALSE
    Desires <- AllDesires
    ProcessUser = "root"
    MaxAttempts = 3
    LateCalls <- None
INVARIANTS
    UpAsLoggedIn
    NoDuplicates
PROPERTIES
    LeavesOnlyUnseen
    ReadyForDesired
\* The bound on activations ends every behaviour.
CHECK_DEADLOCK FALSE
