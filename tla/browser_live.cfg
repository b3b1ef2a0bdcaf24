SPECIFICATION BrowserFairSpec
CONSTANTS
    c1 = c1
    c2 = c2
    Clients = {c1, c2}
    Server = server
    Null = null
    MaxIce = 1
    MaxMsgs = 0
    MaxBuffered = 1
    Faults = {"refused", "kill"}
PROPERTY
    BrowserConnects
CHECK_DEADLOCK FALSE
