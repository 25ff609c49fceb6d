SPECIFICATION FairSpec
CONSTANTS
    w1 = w1
    w2 = w2
    r1 = r1
    Client <- MCRivals
    Byte = {0, 1}
    Stride = 2
    ReadChunk = 2
    WriteChunk = 2
    Program <- MCRivalProgram
    Providers = {"c", "go", "python"}
PROPERTIES
    ImplementsFile
    CallReturns
