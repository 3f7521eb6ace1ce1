SPECIFICATION FairSpec
CONSTANTS
    WindowSize = 2
    Windows = 6
    FreeWindows = 3
    FragmentCounts = {3}
    MaxCommands = 3
    InTransitLimit = 2
    MaximumWaitingData = 100
    Lifetime = 6
    Losses = TRUE
PROPERTIES
    AllDelivered
CHECK_DEADLOCK FALSE
