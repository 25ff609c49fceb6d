SPECIFICATION FairSpec
CONSTANTS
    N = 2
    Fd = {f1}
    PipeCap = 1
    MaxEvents = 2
    RequestPieces = 1
    NoFd = NoFd
    Notifier = Notifier
PROPERTIES
    WorkersStop
    ShutdownCompletes
    ImplementsService
