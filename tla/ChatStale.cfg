SPECIFICATION ChatSpec
CONSTANTS
    FDs = {f1, f2}
    NoFd = NoFd
    Objs = {o1, o2}
    MaxConnect = 2
    Events <- SockEvents
    MaxPlayer = 2
    Null = Null
    OwnerKicks = FALSE
    NodeServers = {1, 2}
    ChatServers = {2}
    NodeFDs = {n1}
    MaxLinks = 1
    MaxAsks = 1
INVARIANTS SocketInfoIsThere
CHECK_DEADLOCK FALSE
