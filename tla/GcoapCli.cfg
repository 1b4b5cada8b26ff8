\* One path that fits always, one only without a proxy, one never.
SPECIFICATION CliSpec
CONSTANTS
    Transfer <- MCTransfer
    PathLen <- MCPathLen
    PrefixLen = 20
    _LAST_REQ_PATH_MAX = 64
    LastBlock = 2
    PutValue = {65535, 70000}
    MaxPuts = 1
    MaxPings = 1
    Liberties = {}
    None = None
    short = short
    edge = edge
    long = long
INVARIANTS
    TypeOK
    AsksNext
    TooLongStops
    ObserverLags
CHECK_DEADLOCK FALSE
