SPECIFICATION Spec
CONSTANTS
    c1 = c1
    Clients = {c1}
    Server = server
    Null = null
    MaxIce = 1
    Faults = {"refused"}
INVARIANTS
    HeldUntilConnected
CHECK_DEADLOCK FALSE
