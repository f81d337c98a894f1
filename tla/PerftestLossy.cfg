CONSTANTS
    NumClients = 3
    NULL = NULL
    LingerDrops = TRUE
    Protocols = {"eager", "rndv"}
    ForceDiscards = TRUE
    ServerSize = 4
    NumConnections = 3
    NumIters = 2
    ClientSize = 4
    Faults = {"client"}
SPECIFICATION FairSpec
INVARIANTS
    NothingElseBlocks
    StuckMeansSettled
PROPERTIES
    EverybodySettles
CHECK_DEADLOCK FALSE
