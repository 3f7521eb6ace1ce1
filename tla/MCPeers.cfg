SPECIFICATION Spec
CONSTANTS
    p1 = p1
    p2 = p2
    Peers = {p1, p2}
    MaxWaiting = 2
    MaxLinks = 1
    NullEvents = TRUE
    StaleAcks = FALSE
    LateDisconnects = FALSE
INVARIANTS
    CountedWhileConnected
    
    EventsReported
    WaitingEnds
    FreeIsClean
PROPERTIES
    
    NoWayBack
SYMMETRY Interchangeable
CHECK_DEADLOCK FALSE
