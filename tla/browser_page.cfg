SPECIFICATION BrowserSpec
CONSTANTS
    c1 = c1
    c2 = c2
    Clients = {c1, c2}
    Server = server
    Null = null
    MaxIce = 1
    MaxMsgs = 2
    MaxBuffered = 2
    Faults = {"pc", "csd", "expire"}
SYMMETRY SocketSymmetry
INVARIANTS
    AnswersMatch
    EchoesInOrder
CHECK_DEADLOCK FALSE
