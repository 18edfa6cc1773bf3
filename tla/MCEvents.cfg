\* Two servers; the relay and one more handler.
SPECIFICATION EventsSpec
CONSTANTS
    Servers = {s1, s2}
    Handlers = {Relay, log}
    Relay = Relay
    Backends = {"memory", "redis", "postgres"}
    MaxEvents = 2
    MaxChanges = 3
SYMMETRY Alike
INVARIANTS
    EventsTypeOK
    HeardInOrder
CHECK_DEADLOCK FALSE
