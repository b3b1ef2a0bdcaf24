SPECIFICATION Spec
CONSTANTS
    c1 = c1
    Clients = {c1}
    Server = server
    Null = null
    MaxIce = 2
    Faults = {}
INVARIANTS
    EveryListedCandidateIsSent
CHECK_DEADLOCK FALSE
