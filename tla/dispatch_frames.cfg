\* One client with three packets, two io threads, frames of at most two packets; no
\* symmetry, as progress is checked too.
CONSTANTS
    c1 = c1
    w1 = w1
    w2 = w2
    Conns = {c1}
    Workers = {w1, w2}
    NoConn = NoConn
    IdSpace = 2
    FirstId = 1
    AcceptErrors <- NoErrors
    RentMayFail = FALSE
    MaxPackets = 3
    MaxDispatch = 2
SPECIFICATION FairServerSpec
INVARIANTS
    DispatchTypeOK
    EveryPacketAccounted
    SemaphoreCounts
    ThreadOrderKept
PROPERTIES
    ImplementsDelivery
    PacketsDispatched
    LoopEnds
CHECK_DEADLOCK FALSE
