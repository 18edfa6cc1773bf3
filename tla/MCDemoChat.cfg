SPECIFICATION ChatSpec
CONSTANTS
    Kinds = {"vanilla", "react", "vue"}
    Entries <- MCEntries
    LogLimit = 1
    MaxInputs = 4
    Limit = 2
INVARIANTS
    ChatTypeOK
    PanelsAreTrue
    GoneIsSilent
PROPERTY PageCatchesUp
CHECK_DEADLOCK FALSE
