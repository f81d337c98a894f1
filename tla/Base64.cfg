CONSTANTS
    Bytes = {0, 75, 180, 255}
    MaxAddr = 5
    Chars = {65, 47, 61, 42}
    MaxText = 8
    SizeMod = 65536
SPECIFICATION Spec
INVARIANTS
    InBounds
    EncodesRfc4648
    RoundTrip
    DecodesRfc4648
    LenientTexts
    CodecInv
