SPECIFICATION FairSpec
CONSTANTS
    N = 1
    Fd = {f1, f2}
    PipeCap = 1
    MaxEvents = 1
    RequestPieces = 2
    NoFd = NoFd
    Notifier = Notifier
PROPERTIES
    QueueServed
    RequestServed
    ImplementsService
