SPECIFICATION FairSpec
CONSTANTS
    N = 1
    Fd = {f1}
    PipeCap = 1
    MaxEvents = 1
    RequestPieces = 1
    NoFd = NoFd
    Notifier = Notifier
PROPERTY SignalLeadsToExit
