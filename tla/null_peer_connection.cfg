SPECIFICATION Spec
CONSTANTS
    c1 = c1
    Clients = {c1}
    Server = server
    Null = null
    MaxIce = 1
    Faults = {"pc"}
INVARIANTS
    PeerConnectionFailureIsReported
CHECK_DEADLOCK FALSE
