SPECIFICATION FairSpec
CONSTANTS
    Plugins = {g1}
    Callers = {c1, c2}
    Ports = {p1}
    Ops = {"create", "delete", "nf", "devices", "vfs"}
    NoPort = NoPort
    LocalDevices = FALSE
    IdempotentCreate = FALSE
    MaxCalls = 2
    MaxBridgeFaults = 1
INVARIANTS FlagIsRight ClientOutlivesCreate PortOnBridge
PROPERTIES DeletedIsGone CloseEnds
CHECK_DEADLOCK FALSE
