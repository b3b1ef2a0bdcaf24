SPECIFICATION Spec
CONSTANTS
    c1 = c1
    Clients = {c1}
    Server = server
    Null = null
    MaxIce = 2
    Faults = {}
INVARIANTS
    HeldUntilConnected
    NoAbortBeforeConnected
    NoEarlyCandidate
CHECK_DEADLOCK FALSE
