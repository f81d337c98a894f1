CONSTANTS
    NumClients = 3
    NULL = NULL
    LingerDrops = TRUE
    Protocols = {"eager", "rndv"}
    ForceDiscards = TRUE
    ServerSize = 4
    NumConnections = 3
    NumIters = 2
    ClientSize = 4
    Faults = {"server", "client"}
SPECIFICATION Spec
INVARIANTS
    TypeOK
    ProtocolNeverThrows
    OneTransferPerIteration
    NoStalePeer
    LargeSendsAreHeld
    DoneMeansAllServed
    IInv
PROPERTIES
    EveryStepCounts
    EverySendIsTaken
    ClosedByItsClient
    ImplementsService
CHECK_DEADLOCK FALSE
