SPECIFICATION FairSpec
CONSTANTS
    InitSize = 3
    MaxSize = 16
    Word = 64
    Headers <- MCHeaders
    Lengths <- MCLengths
    Extra = {0, 2}
INVARIANTS
    TypeOK
    BufferSafe
    ZeroRecvOnlyWhenFull
    FramingSound
    
PROPERTY RequestEnds
