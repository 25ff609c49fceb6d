SPECIFICATION Spec
CONSTANTS
    c1 = c1
    c2 = c2
    c3 = c3
    Client <- MCClient
    Name = {"a", "b", "c", "d", "x"}
    Providers = {"c", "go", "python"}
    Program <- MCProgram
    InitTree <- MCTree
    MaxListed = 1
SYMMETRY Symmetry
INVARIANTS
    TypeOK
    TreeSound
    CreateExclusive
    ResultHonest
    ListComplete
    ListFailsOnlyIfMissing
PROPERTIES
    OnlyWhatIsAsked
