SPECIFICATION Spec
CONSTANTS
    WindowSize = 2
    Windows = 6
    FreeWindows = 3
    FragmentCounts = {2}
    MaxCommands = 14
    InTransitLimit = 2
    MaximumWaitingData = 3
    Lifetime = 4
    Losses = FALSE
INVARIANTS
    SenderTypeOK
    CountersExact
    NumbersUnambiguous
    PacketsExact
    ListSound
PROPERTIES
    ImplementsDelivery
CHECK_DEADLOCK FALSE
