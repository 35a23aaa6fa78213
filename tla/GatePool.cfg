SPECIFICATION GateSpec
CONSTANTS
    FDs = {f1, f2, f3}
    NoFd = NoFd
    Objs = {o1, o2, o3}
    MaxConnect = 2
    Events <- SockEvents
    MaxPlayer = 2
    Null = Null
    OwnerKicks = FALSE
INVARIANTS PoolEmptyMeansFull
