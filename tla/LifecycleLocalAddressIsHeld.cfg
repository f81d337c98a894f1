CONSTANTS
    NULL = NULL
    MaxTransfers = 1
SPECIFICATION Spec
INVARIANT LocalAddressIsHeld
