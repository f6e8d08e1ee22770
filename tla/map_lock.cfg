\* Three threads on one key with two values; no symmetry, as progress is checked too.
CONSTANTS
    t1 = t1
    t2 = t2
    t3 = t3
    k1 = k1
    v1 = v1
    v2 = v2
    Threads = {t1, t2, t3}
    Keys = {k1}
    Values = {v1, v2}
    Null = Null
    Absent = Absent
    NoThread = NoThread
SPECIFICATION FairSpec
INVARIANT TypeOK
PROPERTIES
    ImplementsAtomicMap
    LockReleased
