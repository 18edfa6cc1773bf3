\* One call to disconnect() by an orderly application of a direct client.
SPECIFICATION Spec
CONSTANTS
    Links = {l1, l2}
    Calls = {c1}
    None = None
    MaxReconnectAttempts = 2
    MaxJobs = 2
    Modes <- DirectReconnecting
INVARIANT DisconnectSticks
