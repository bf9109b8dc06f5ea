CONSTANTS
    Forwarders <- TwoForwarders
    Sessions = {"s1"}
    Signals = {"SIGINT"}
SPECIFICATION LifeSpec
CHECK_DEADLOCK FALSE
INVARIANT NeverCrashes
