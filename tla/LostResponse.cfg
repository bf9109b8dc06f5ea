CONSTANTS
    m1 = m1
    m2 = m2
    m3 = m3
    idA = idA
    Sessions = {s1, s2}
    CursorSendFails = TRUE
    Msgs = {m1}
    Priority <- OnePriority
    Ids = {idA}
    ReciptID <- OneId
    TTLMsgs = {m1}
    FileLimit = 3
    MaxFile = 0
    MaxHandle = 1
    End = End
    Invalid = Invalid
    Tied = Tied
    Closed = Closed
SPECIFICATION ServerSpec
SYMMETRY Symmetry
PROPERTY
    KeepsPromise
