\* Entries of 5 and 7 bytes in a ring of 12: one of each would fill it to the
\* brim, which must be refused, and prefix and payload both wrap around.
SPECIFICATION FairSpec
CONSTANTS
    NFrames = 5
    FrameSizes = {1, 3}
    Capacity = 12
INVARIANTS
    TypeOK
    RingSound
PROPERTY EveryFrameDelivered
CHECK_DEADLOCK FALSE
