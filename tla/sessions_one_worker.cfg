\* The same server on a machine that gives it one io thread.
CONSTANTS
    c1 = c1
    c2 = c2
    w1 = w1
    Conns = {c1, c2}
    Workers = {w1}
    NoConn = NoConn
    IdSpace = 4
    FirstId = 2
    AcceptErrors <- AllErrors
    RentMayFail = TRUE
    MaxPackets = 2
SPECIFICATION Spec
SYMMETRY Symmetry
INVARIANTS
    DeadSessionsLeave
    OpenSocketServed
CHECK_DEADLOCK FALSE
