SPECIFICATION ClientFairSpec
CONSTANTS
    Ids = {0, 1, 2}
    NodeCount = 2
    Hash <- MCHash
    NoNode = NoNode
    Master = 0
    Types = {"MASTER", "GATE"}
    TypeOf <- MCType
    Keys = {0, 2, 5, 7}
    Interval = 3
    Wirings <- MCWirings
    Lists = {{1}, {1, 2}}
    FDs = {3, 4, 5}
    NoFd = NoFd
    LowestFirst = TRUE
INVARIANT ClientTypeOK
INVARIANT SuitLeadsToNormal
INVARIANT SockLeadsToItsServer
PROPERTY LostIsRedialled
