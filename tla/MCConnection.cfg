SPECIFICATION Spec
CONSTANTS
    a = a
    b = b
    Hosts = {a, b}
    Clients = {a}
    PeerCount <- PeerCounts
    ChannelLimit = 1
    AskedChannels = 2
    Mtu <- Mtus
    Incoming <- Incomings
    Outgoing <- Outgoings
    MaxWindow = 4
    DuplicatePeers = 2
    Sessions = 4
    MaxUses = 4
    Lifetime = 4
INVARIANTS
    EndsAgree
    LastConnectionRefused
    ConnectedOnce
PROPERTIES
    Settles
CHECK_DEADLOCK FALSE
