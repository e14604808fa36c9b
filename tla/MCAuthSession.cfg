SPECIFICATION FairAuthSpec
CONSTANTS
    Reliable = FALSE
    MaxRetries = 3
    MaxConns = 3
    Empty = Empty
INVARIANTS OkIsEarned
PROPERTIES AuthEnds
CHECK_DEADLOCK FALSE
