SPECIFICATION FairSpec
CONSTANTS
    Conns = {c1, c2}
    IPs = {ip1, ip2}
    Routes = {r1}
    MaxClients = 1
    MultiClient = TRUE
    P2PEnabled = TRUE
    NoIP = NoIP
    NoConn = NoConn
INVARIANTS LiveOwnerReachable CleanedHasNoRoutes
PROPERTIES TableRefinement StoppedIsTornDown
CHECK_DEADLOCK FALSE
