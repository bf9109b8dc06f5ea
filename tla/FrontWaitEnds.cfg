CONSTANTS
    Threads = {t1}
    Msgs = {m1}
    m1 = m1
    m2 = m2
    idA = idA
    idB = idB
    Ids = {idA, idB}
    ReciptID <- TwoIds
    AnyMessage = AnyMessage
SPECIFICATION WaitSpec
PROPERTY FrontWaitEnds
