\* Stopped with a packet in the queue or a payload read outstanding.
CONSTANTS
    t1 = t1
    t2 = t2
    b1 = b1
    b2 = b2
    Threads = {t1, t2}
    ThreadCount = 2
    Blocks = {b1, b2}
    Restarts = FALSE
    SevereErrors = FALSE
    MaxSessions = 2
SYMMETRY Symmetry
SPECIFICATION Spec
INVARIANTS
    BlocksComeBackInTime
CHECK_DEADLOCK FALSE
