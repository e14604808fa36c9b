SPECIFICATION FairSpec
CONSTANTS
    Clients = {a, b}
    Server = Server
    NoKey = NoKey
    MaxKeys = 2
    MaxInFlight = 1
    Lossy = FALSE
    MaxReconnects = 0
    MaxRestarts = 0
    WriteFails = FALSE
    Timely = TRUE
PROPERTIES EventuallySynchronised
CHECK_DEADLOCK FALSE
