\* Progress under fairness: no symmetry, no severe accept error.
CONSTANTS
    c1 = c1
    c2 = c2
    w1 = w1
    w2 = w2
    Conns = {c1, c2}
    Workers = {w1, w2}
    NoConn = NoConn
    IdSpace = 4
    FirstId = 2
    AcceptErrors <- MildErrors
    RentMayFail = FALSE
    MaxPackets = 1
SPECIFICATION FairSpec
INVARIANTS
    OpenSocketServed
    KeepsAccepting
PROPERTIES
    BacklogDrains
    DeadPeersClosed
    PacketsQueued
    StopCompletes
CHECK_DEADLOCK FALSE
