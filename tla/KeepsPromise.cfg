CONSTANTS
    m1 = m1
    m2 = m2
    m3 = m3
    idA = idA
    Sessions = {s1, s2}
    CursorSendFails = FALSE
    Msgs = {m1, m2}
    Priority <- OnePriority
    Ids = {idA}
    ReciptID <- OneId
    TTLMsgs = {}
    FileLimit = 3
    MaxFile = 0
    MaxHandle = 1
    End = End
    Invalid = Invalid
    Tied = Tied
    Closed = Closed
SPECIFICATION ServerSpec
SYMMETRY Symmetry
INVARIANTS
    PendingOnMessage
    HandlesUnshared
PROPERTIES
    KeepsPromise
    UsesQStorage
