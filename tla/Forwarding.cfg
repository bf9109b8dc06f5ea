CONSTANTS
    Msgs = {m1, m2, m3}
    Priority <- OnePriority
    TTLMsgs = {}
    Sessions = {c1, f1, f2}
    Forwarders = {f1, f2}
    Replying = {m1}
    Unroutable = {m3}
    None = None
    MaxFaults = 2
SPECIFICATION ForwardSpec
CHECK_DEADLOCK FALSE
INVARIANTS
    Accounted
    AtMostOnce
PROPERTY
    Forwarded
