\* A client whose identifier sorts before the server's and one whose does not;
\* three operations with clocks that tie, agree or differ.  Counters, registers
\* and maps each have their own initial states.
SPECIFICATION Spec
CONSTANTS
    Clients = {1, 3}
    Server = 2
    Backends = {"memory", "remote"}
    MaxTime = 2
    MaxOps = 3
INVARIANTS
    TypeOK
    ReplicasAgree
PROPERTY ReplicasGrow
CHECK_DEADLOCK FALSE
