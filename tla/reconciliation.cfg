SPECIFICATION Spec
CONSTANTS
    p1 = p1
    p2 = p2
    e1 = e1
    e2 = e2
    e3 = e3
    Peer = {p1, p2}
    Edit = {e1, e2, e3}
    Bit <- Bits
    MaxDepth = 2
    Threshold = 0
    Trees <- SpreadOrLate
    MaxConnections = 1
INVARIANTS
    PullIsComplete
PROPERTIES
    Settles
    LiveEditsArrive
CHECK_DEADLOCK FALSE
