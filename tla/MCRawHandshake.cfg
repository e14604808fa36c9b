SPECIFICATION FairSpec
CONSTANTS
    Keys = {k1}
    MaxConns = 2
    NoPkt = NoPkt
    MaxRetries = 1
    MaxDials = 2
    AcceptCap = 1
    QueueCap = 1
INVARIANTS OpenIsMapped AcceptedOnce
PROPERTIES StaleEntriesGo
CHECK_DEADLOCK FALSE
