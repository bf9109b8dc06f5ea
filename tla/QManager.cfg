CONSTANTS
    Paths = {q1, q2}
    Streams = {f1, f2, f3}
    Inodes = {i1, i2, i3}
    Stores = {p1, p2}
    Msgs = {m1, m2}
    Sessions = {s1, s2}
    Purger = Purger
    MaxOpen = 1
    CacheSize = 1
    OpenMayFail = TRUE
    None = None
SPECIFICATION QMSpec
SYMMETRY ManagerSymmetry
INVARIANTS
    UtilizationExact
    OpenQueueLives
    ConfigCurrent
    StreamInUse
    RecordInOwnFile
