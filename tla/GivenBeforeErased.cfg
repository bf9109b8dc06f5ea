CONSTANTS
    m1 = m1
    m2 = m2
    m3 = m3
    Msgs = {m1, m2, m3}
    MaxFaults = 1
SPECIFICATION RecordSpec
INVARIANTS
    GivenBeforeErased
