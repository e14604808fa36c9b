SPECIFICATION MCSpec
CONSTANTS
    a = a
    b = b
    x = x
    y = y
    Clients <- MCClients
    Gateways <- MCGateways
    Server = Server
    Bufs <- MCBufs
    NoBuf = NoBuf
    Modes <- MCModes
    Sizes = {1400}
    Isolations = {TRUE, FALSE}
    QueueSize = 1
    PoolBound = 2
INVARIANTS
    EveryBufferOneOwner
CHECK_DEADLOCK FALSE
