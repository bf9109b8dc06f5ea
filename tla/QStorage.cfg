CONSTANTS
    m1 = m1
    m2 = m2
    m3 = m3
    idA = idA
    idB = idB
    Msgs = {m1, m2, m3}
    Priority <- TwoPriorities
    Ids = {idA, idB}
    ReciptID <- TwoIds
    TTLMsgs = {m1}
    FileLimit = 1
    MaxFile = 1
    MaxHandle = 1
    End = End
    Invalid = Invalid
    Tied = Tied
    Closed = Closed
SPECIFICATION Spec
INVARIANTS
    TypeOK
    UtilizationExact
    EntryHasRecord
    RecordHasEntry
    PriorityFifo
    NoDanglingCursor
PROPERTIES
    OwnCursorStable
    FileGoesWithLast
