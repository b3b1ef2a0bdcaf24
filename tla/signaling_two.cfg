SPECIFICATION Spec
CONSTANTS
    c1 = c1
    c2 = c2
    Clients = {c1, c2}
    Server = server
    Null = null
    MaxIce = 1
    Faults = {"pc", "dc", "sdp", "ice", "csd", "refused", "kill"}
SYMMETRY ClientSymmetry
INVARIANTS
    TypeOK
    NoNullDeref
    AbortNeedsCause
    OneAnswerPerOffer
CHECK_DEADLOCK FALSE
