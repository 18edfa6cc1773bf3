\* Two mutations reach the threshold, and one more leaves something to lose;
\* two flushes can be under way at once.
SPECIFICATION FairSpec
CONSTANTS
    Users = {u1}
    FlushThreshold = 2
    MaxEditions = 3
    MaxFlushes = 2
    MaxRestores = 1
INVARIANTS
    TypeOK
    SavedOrExcused
PROPERTIES
    PersistNeverRegresses
    DirtyGetsFlushed
CHECK_DEADLOCK FALSE
