\* Two starts with two threads each, under fairness: no symmetry.
CONSTANTS
    t1 = t1
    t2 = t2
    t3 = t3
    t4 = t4
    b1 = b1
    b2 = b2
    Threads = {t1, t2, t3, t4}
    ThreadCount = 2
    Blocks = {b1, b2}
    Restarts = TRUE
    SevereErrors = TRUE
    MaxSessions = 2
SPECIFICATION FairSpec
INVARIANTS
    TypeOK
    ThreadsGoneFirst
PROPERTIES
    StopEndsProcess
CHECK_DEADLOCK FALSE
