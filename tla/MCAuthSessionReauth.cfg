SPECIFICATION FairAuthSpec
CONSTANTS
    Reliable = TRUE
    MaxRetries = 3
    MaxConns = 2
    Empty = Empty
PROPERTIES ReauthSucceeds
CHECK_DEADLOCK FALSE
