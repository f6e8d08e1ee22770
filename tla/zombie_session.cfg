\* One client that leaves at once, and two io threads.
CONSTANTS
    c1 = c1
    w1 = w1
    w2 = w2
    Conns = {c1}
    Workers = {w1, w2}
    NoConn = NoConn
    IdSpace = 4
    FirstId = 2
    AcceptErrors = {}
    RentMayFail = FALSE
    MaxPackets = 1
SPECIFICATION Spec
INVARIANT DeadSessionsLeave
CHECK_DEADLOCK FALSE
