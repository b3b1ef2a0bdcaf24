SPECIFICATION FairSpec
CONSTANTS
    c1 = c1
    Clients = {c1}
    Server = server
    Null = null
    MaxIce = 2
    Faults = {"refused", "kill", "csd"}
PROPERTIES
    EveryClientReleased
    EveryConnectionReleased
CHECK_DEADLOCK FALSE
