SPECIFICATION Spec
CONSTANTS
    N = 2
    Fd = {f1, f2}
    PipeCap = 1
    MaxEvents = 2
    RequestPieces = 1
    NoFd = NoFd
    Notifier = Notifier
SYMMETRY FdSymmetry
VIEW SafetyView
INVARIANTS
    TypeOK
    NoLostWakeup
    FdOwnership
    NoDanglingEvent
    WorkerLifetime
    NoOrphanAtReturn
