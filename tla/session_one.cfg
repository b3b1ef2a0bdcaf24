SPECIFICATION SessionFairSpec
CONSTANTS
    c1 = c1
    Clients = {c1}
    Server = server
    Null = null
    MaxIce = 1
    MaxMsgs = 4
    MaxBuffered = 2
    Faults = {"pc", "dc", "sdp", "ice", "csd", "refused", "kill"}
INVARIANTS
    SessionTypeOK
    NothingLost
PROPERTIES
    ImplementsEcho
    EveryLineEchoed
CHECK_DEADLOCK FALSE
