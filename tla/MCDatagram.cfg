SPECIFICATION Spec
CONSTANTS
    PeerCount = 2
    Sessions = 2
    Failing = {{}, {1, 2}}
    MaxConnections = 3
    MaxPasses = 2
    MaxDatagrams = 1
INVARIANTS
    Understood
    Authentic
CHECK_DEADLOCK FALSE
