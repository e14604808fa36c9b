SPECIFICATION MCSpec
CONSTANTS
    a = a
    b = b
    Clients <- MCClients
    Requesters <- MCRequesters
    Early <- MCEarly
    Conns <- MCConns
    MaxRetries = 1
    WaitAttempts = 1
    NoInfo = NoInfo
    Servers = 2
    Addresses <- MCAddresses
    Ports = {1, 2}
    Octets = {1, 2}
INVARIANTS
    GenuineIntroductions
    NeverFlatters
    RangesAreExact
    OneInitiator
PROPERTIES
    EventuallyAnnounced
    EventuallyIntroduced
CHECK_DEADLOCK FALSE
