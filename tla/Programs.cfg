CONSTANTS
    NULL = NULL
    MaxTransfers = 3
    Sizes = {0, 1, 2, 3}
    MAX_BUFFER_SIZE = 2
    MaxConnections = 2
SPECIFICATION ProgramFairSpec
INVARIANTS
    TypeOK
    NoMisuse
    TransferLeavesNothing
    PostedKeepsMemory
    OwnershipInv
    AccessesFit
    UnsizedServerNeverServes
    NoLeftover
    GoingOnTakesNoMore
    NeverWaitsForItself
PROPERTIES
    EveryStepLeadsOn
    ProgramSettles
