\* Three links let a leaked link, a closing one and their successor coexist;
\* two attempts let back-off be used up.
SPECIFICATION FairSpec
CONSTANTS
    Links = {l1, l2, l3}
    Calls = {c1}
    None = None
    MaxReconnectAttempts = 2
    MaxJobs = 2
    Modes <- AllModes
INVARIANTS
    TypeOK
    NoPendingOnDeadLink
    SingleFlight
    StateIsTrue
PROPERTIES
    CloseSettlesOwnCallsOnly
    CallsSettle
    BackoffEnds
