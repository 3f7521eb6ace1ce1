SPECIFICATION Spec
CONSTANTS
    WindowSize = 2
    Windows = 6
    FreeWindows = 3
    FragmentCounts = {0, 3}
    MaxCommands = 6
    InTransitLimit = 3
    MaximumWaitingData = 3
    Lifetime = 6
    Losses = FALSE
INVARIANTS
    WaitingAccounting
    InOrderExactlyOnce
    AcknowledgedIsStored
CHECK_DEADLOCK FALSE
