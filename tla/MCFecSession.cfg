SPECIFICATION Spec
CONSTANTS
    D = 3
    P = 2
    MinShard = 2
    Peers = {a}
    MaxPackets = 2
    IdSpace = 2
    Size <- EqualSizes
    MaxCleanups = 1
    None = None
INVARIANTS OneLossRecovered DeliveredOnce DecodeIsExact
PROPERTIES ChannelRefinement
CHECK_DEADLOCK FALSE
