SPECIFICATION FairSpec
CONSTANTS
    Conn = {k1, k2, k3}
    NoConn = NoConn
    Free = Free
    Goroutines = {"reader", "writer"}
INVARIANTS OnlyCurrentIsOpen
PROPERTIES SlotRefinement LinkRecovers StopEndsGoroutines
CHECK_DEADLOCK FALSE
