CONSTANTS
    m1 = m1
    m2 = m2
    m3 = m3
    idA = idA
    Sessions = {s1, s2}
    CursorSendFails = FALSE
    Msgs = {m1, m2}
    Priority <- TwoPriorities
    Ids = {idA}
    ReciptID <- OneId
    TTLMsgs = {}
    FileLimit = 3
    MaxFile = 0
    MaxHandle = 2
    End = End
    Invalid = Invalid
    Tied = Tied
    Closed = Closed
SPECIFICATION ServerSpec
INVARIANT PendingOnMessage
