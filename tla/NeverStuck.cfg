CONSTANTS
    Forwarders <- OneForwarder
    Sessions = {"s1"}
    Signals = {"SIGINT", "SIGTERM"}
SPECIFICATION LifeSpec
CHECK_DEADLOCK FALSE
INVARIANT NeverStuck
