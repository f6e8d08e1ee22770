\* Started, stopped and started again.
CONSTANTS
    t1 = t1
    t2 = t2
    t3 = t3
    t4 = t4
    b1 = b1
    Threads = {t1, t2, t3, t4}
    ThreadCount = 2
    Blocks = {b1}
    Restarts = TRUE
    SevereErrors = FALSE
    MaxSessions = 1
SYMMETRY Symmetry
SPECIFICATION Spec
INVARIANTS
    StartedServerAccepts
CHECK_DEADLOCK FALSE
