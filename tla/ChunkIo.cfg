SPECIFICATION Spec
CONSTANTS
    w1 = w1
    w2 = w2
    r1 = r1
    Client <- MCClient
    Byte = {0, 1}
    Stride = 2
    ReadChunk = 2
    WriteChunk = 2
    Program <- MCProgram
    Providers = {"c", "go", "python"}
INVARIANTS
    TypeOK
    AckedChunksStored
    StoredMismatchMeansOverlap
    ReadAfterWrite
PROPERTY
    RejectedWriteLeavesFile
