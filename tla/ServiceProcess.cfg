\* One call, and a process that is replaced by another.
SPECIFICATION FairSpec
CONSTANTS
    Call = {c1}
    Process = {p1, p2}
    Nobody = Nobody
    OptionSets <- SomeOptions
    MaxStops = 1
INVARIANTS
    TypeOK
    OpenWasReady
    OwnerAnswers
    OneServer
PROPERTIES
    KeepsPromise
    NewClientEnds
    
\* Everything may have exited.
CHECK_DEADLOCK FALSE
