\* Two clients with two packets each, two io threads, every accept error, and a
\* pool that may refuse.
CONSTANTS
    c1 = c1
    c2 = c2
    w1 = w1
    w2 = w2
    Conns = {c1, c2}
    Workers = {w1, w2}
    NoConn = NoConn
    IdSpace = 4
    FirstId = 2
    AcceptErrors <- AllErrors
    RentMayFail = TRUE
    MaxPackets = 2
SPECIFICATION Spec
SYMMETRY Symmetry
INVARIANTS
    TypeOK
    OneReadInFlight
    RunningIffReading
    Framing
    SingleAccept
    SessionIdsUnique
    RunningSessionRegistered
    RequestsInOrder
    RequestsComplete
\* After close() nothing is left to do.
CHECK_DEADLOCK FALSE
