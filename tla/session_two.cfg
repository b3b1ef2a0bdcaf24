SPECIFICATION SessionFairSpec
CONSTANTS
    c1 = c1
    c2 = c2
    Clients = {c1, c2}
    Server = server
    Null = null
    MaxIce = 1
    MaxMsgs = 0
    MaxBuffered = 1
    Faults = {"refused", "csd"}
INVARIANTS
    NullOnlyUnconnected
    StopsOnlyOnExit
PROPERTIES
    ExitStopsCleanly
    
CHECK_DEADLOCK FALSE
