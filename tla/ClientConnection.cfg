CONSTANTS
    Msgs = {m1, m2}
    Priority <- OnePriority
    TTLMsgs = {}
    Sessions = {s1, s2}
    MaxHandle = 1
    None = None
SPECIFICATION ConnSpec
SYMMETRY ClientSymmetry
INVARIANTS
    ViewsAgree
    PromiseKept
    OwnedOnce
    Isolation
