\* A counter with two values stands for the 2^32 of connection_id_counter: one
\* session outlives a whole round of them.
CONSTANTS
    c1 = c1
    c2 = c2
    c3 = c3
    w1 = w1
    Conns = {c1, c2, c3}
    Workers = {w1}
    NoConn = NoConn
    IdSpace = 2
    FirstId = 0
    AcceptErrors = {}
    RentMayFail = FALSE
    MaxPackets = 1
SPECIFICATION Spec
INVARIANT SessionIdsUnique
CHECK_DEADLOCK FALSE
