SPECIFICATION ChatFairSpec
CONSTANTS
    FDs = {f1, f2}
    NoFd = NoFd
    Objs = {o1, o2}
    MaxConnect = 2
    Events <- MixedEvents
    MaxPlayer = 2
    Null = Null
    OwnerKicks = FALSE
    NodeServers = {1, 2, 3}
    ChatServers = {2, 3}
    NodeFDs = {n1, n2}
    MaxLinks = 2
    MaxAsks = 1
INVARIANTS ChatTypeOK
PROPERTIES AnswersGoToNewest FirstChatServerGetsIt AskerIsAnswered
CHECK_DEADLOCK FALSE
