\* Two setState calls that overlap, and nothing else out of the ordinary.
SPECIFICATION Spec
CONSTANTS
    Fields = {f, g}
    Values = {v}
    Absent = Absent
    Clients = {c1}
    Calls = {k1, k2}
    MaxBatch = 2
    MaxChannels = 0
    MaxWrites = 2
    Modes <- Overlapping
INVARIANT MirrorsMatchWhenQuiet
CHECK_DEADLOCK FALSE
