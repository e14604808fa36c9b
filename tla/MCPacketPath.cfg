SPECIFICATION MCSpec
CONSTANTS
    a = a
    b = b
    x = x
    y = y
    Clients <- MCClients
    Gateways <- MCGateways
    Server = Server
    Bufs <- MCBufs
    NoBuf = NoBuf
    Modes <- MCModes
    Sizes <- MCSizes
    Isolations = {TRUE, FALSE}
    QueueSize = 1
    PoolBound = 1
INVARIANTS
    OneOwner
    SentIntact
    SearchIsComplete
    NeverSegmented
PROPERTIES
    FullQueueDoesNotBlock
    StopEndsPath
CHECK_DEADLOCK FALSE
