\* Two clients, one packet each, just as many ids, and two blocks, one of them still to
\* be allocated; the larger of the sizes is refused.
CONSTANTS
    c1 = c1
    c2 = c2
    w1 = w1
    w2 = w2
    b1 = b1
    b2 = b2
    Conns = {c1, c2}
    Workers = {w1, w2}
    NoConn = NoConn
    IdSpace = 2
    FirstId = 1
    AcceptErrors <- NoErrors
    RentMayFail = TRUE
    MaxPackets = 1
    MaxDispatch = 1
    Blocks = {b1, b2}
    NoBlock = NoBlock
    BlockSize <- OneSize
    Count <- OneBlock
    Sizes <- AskedSizes
SYMMETRY Symmetry
SPECIFICATION MemorySpec
INVARIANTS
    PacketsOwnMemory
    MemoryFollowsTraffic
    SessionIdNamesSender
    EveryPacketAccounted
CHECK_DEADLOCK FALSE
