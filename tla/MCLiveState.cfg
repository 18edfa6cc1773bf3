\* Two fields and three writes: merged batches, partial patches and a field
\* that goes and comes back; MaxBatch = 2 is reached by one call or by two.
SPECIFICATION FairSpec
CONSTANTS
    Fields = {f, g}
    Values = {v}
    Absent = Absent
    Clients = {c1}
    Calls = {k1, k2}
    MaxBatch = 2
    MaxChannels = 2
    MaxWrites = 3
    Modes <- Serial
INVARIANTS
    TypeOK
    PatchesAddUp
PROPERTIES
    Replicates
    MirrorsConverge
CHECK_DEADLOCK FALSE
