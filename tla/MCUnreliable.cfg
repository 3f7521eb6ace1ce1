SPECIFICATION Spec
CONSTANTS
    WindowSize = 1
    Windows = 6
    FreeWindows = 3
    UnsequencedWindowSize = 2
    FreeUnsequencedWindows = 2
    GroupLifetime = 4
    MaxGroup = 20
    Kinds = {"reliable", "unreliable", "fragments", "unsequenced"}
    MaxPackets = 5
    Fragments = 2
    UnreliableLimit = 2
    MaximumWaitingData = 4
    Lifetime = 4
    Backlog = 5
    Starts = {0, 4}
INVARIANTS
    WaitingExact
    OwnFragments
    AcceptedOnce
PROPERTIES
    ImplementsSequenced
CHECK_DEADLOCK FALSE
