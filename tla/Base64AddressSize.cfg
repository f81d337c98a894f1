CONSTANTS
    Bytes = {0, 255}
    MaxAddr = 4
    Chars = {65}
    MaxText = 0
    SizeMod = 65536
SPECIFICATION Spec
INVARIANT AddressSizeIsDecodedSize
