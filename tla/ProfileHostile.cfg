\* Other clients do what they like, and calls may be executed after they
\* have failed.
SPECIFICATION Spec
CONSTANTS
    Name <- Names
    User <- Users
    InitialProfiles <- Ambiguous
    MaxKey = 4
    FeatureSets <- ProfileDaemons
    Others <- AllOthers
    Polite = FALSE
    Errors = TRUE
    Desires <- TwoConnections
    ProcessUser = "root"
    MaxAttempts = 2
    LateCalls <- AllLate
INVARIANTS
    TypeOK
    UpIsDesired
    AskedByID
\* The bound on activations ends every behaviour.
CHECK_DEADLOCK FALSE
