SPECIFICATION FairSpec
CONSTANTS
    Addrs = {"pub", "loc"}
    NoAddr = NoAddr
    Paths = {{}, {"pub"}}
    NATs = {"unknown", "symmetric"}
    Infos <- BothAddresses
    Objs = {o1, o2}
    NoPeer = NoPeer
    NoConn = NoConn
    KeepalivePeriod = 1
    QualityPeriod = 1
    StaleTimeout = 0
    InitialTimeout = 0
    MaxBackoff = 2
    InitialBackoff = 1
    IntWidth = 3
    MaxPending = 1
INVARIANTS TablesAgree NothingSurvivesRemoval BackoffCapped
CHECK_DEADLOCK FALSE
PROPERTIES RouteFollows NeverGivesUp
