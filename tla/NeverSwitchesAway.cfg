\* One activation, and no other client that does anything meanwhile.
SPECIFICATION Spec
CONSTANTS
    Name <- Names
    User <- Users
    InitialProfiles <- Distinct
    MaxKey = 4
    FeatureSets <- ProfileDaemons
    Others <- None
    Polite = TRUE
    Errors = TRUE
    Desires <- TwoConnections
    ProcessUser = "root"
    MaxAttempts = 1
    LateCalls <- None
PROPERTY NeverSwitchesAway
\* The bound on activations ends every behaviour.
CHECK_DEADLOCK FALSE
