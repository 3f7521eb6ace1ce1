SPECIFICATION Spec
CONSTANTS
    p1 = p1
    p2 = p2
    Peers = {p1, p2}
    MaxWaiting = 1
    MaxLinks = 1
    NullEvents = TRUE
    StaleAcks = FALSE
    LateDisconnects = FALSE
INVARIANTS
    QueuedOnce
SYMMETRY Interchangeable
CHECK_DEADLOCK FALSE
