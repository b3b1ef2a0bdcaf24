SPECIFICATION Spec
CONSTANTS
    c1 = c1
    c2 = c2
    Clients = {c1, c2}
    Server = server
    Null = null
    MaxIce = 1
    Faults = {}
INVARIANTS
    HandleIsTheOfferers
CHECK_DEADLOCK FALSE
