SPECIFICATION Spec
CONSTANTS
    Block = 5
    LengthBytes = 2
    Radix = 16
    Period = 2
    Bytes = {1, 2}
    MaxSize = 12
    Offsets <- MCOffsets
INVARIANTS
    DigestOfPadded
