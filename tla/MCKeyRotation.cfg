SPECIFICATION Spec
CONSTANTS
    Clients = {a}
    Server = Server
    NoKey = NoKey
    MaxKeys = 3
    MaxInFlight = 1
    Lossy = TRUE
    MaxReconnects = 1
    MaxRestarts = 1
    WriteFails = TRUE
    Timely = FALSE
INVARIANTS ClientNeverAhead
PROPERTIES PrevGoesForCause
CHECK_DEADLOCK FALSE
