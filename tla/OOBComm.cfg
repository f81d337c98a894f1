CONSTANTS
    NumClients = 2
    NULL = NULL
    LingerDrops = TRUE
SPECIFICATION OOBSpec
INVARIANTS
    OneConversation
PROPERTIES
    Converses
CHECK_DEADLOCK FALSE
