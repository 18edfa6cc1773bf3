\* Two upgrade requests for one place, and two frames of which a window
\* takes one; time enough for a second window.
SPECIFICATION Spec
CONSTANTS
    Conns = {c1, c2}
    Frames = {f1, f2}
    MaxConnections = 1
    MaxRequests = 1
    WindowMs = 1
    MaxNow = 1
    None = none
INVARIANTS
    TypeOK
    CapHolds
    AccountsBalance
    SerialQuota
    AnsweredUnlessGone
PROPERTIES
    ShutdownFinishes
CHECK_DEADLOCK FALSE
