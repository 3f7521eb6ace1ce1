SPECIFICATION Spec
CONSTANTS
    p1 = p1
    p2 = p2
    p3 = p3
    Peers = {p1, p2, p3}
    HostBandwidths = {0, 120}
    Incoming = {0, 6, 38}
    Outgoing = {20, 100}
    Data = {0, 64}
    Acceleration = 2
    Deceleration = 2
    Interval = 10
    Elapsed = {15}
    Word = 8192
    LateDispatch = FALSE
    MaxChanges = 2
INVARIANTS
    OutgoingFits
    IncomingFits
SYMMETRY Interchangeable
CHECK_DEADLOCK FALSE
