SPECIFICATION Spec
CONSTANTS
    p1 = p1
    p2 = p2
    Peers = {p1, p2}
    Channels = {0, 1}
    Kinds = {"reliable", "unreliable", "fragments", "unsequenced"}
    MaxCommands = 3
    Capacity = 2
    Fragments = 2
    ThrottleScale = 4
    ThrottleCounter = 3
    ThrottleStep = 4
    SendWindow = 2
    WindowSize = 1
    Windows = 4
    FreeWindows = 2
INVARIANTS
    ReferencesExact
    LimitsExact
    ExpiredFirst
    FragmentsWhole
PROPERTIES
    LaterLosesNothing
    AllSettled
CHECK_DEADLOCK FALSE
