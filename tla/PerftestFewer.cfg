CONSTANTS
    NumClients = 4
    NULL = NULL
    LingerDrops = FALSE
    Protocols = {"eager", "rndv"}
    ForceDiscards = FALSE
    ServerSize = 4
    NumConnections = 3
    NumIters = 2
    ClientSize = 4
    Faults = {}
SPECIFICATION Spec
INVARIANTS
    MisconfiguredMovesNothing
CHECK_DEADLOCK FALSE
