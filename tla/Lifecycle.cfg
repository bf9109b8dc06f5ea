CONSTANTS
    Forwarders <- OneForwarder
    Sessions = {"s1"}
    Signals = {"SIGINT"}
SPECIFICATION LifeSpec
CHECK_DEADLOCK FALSE
INVARIANT
    FreedUnused
PROPERTY
    StopEnds
