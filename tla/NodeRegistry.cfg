SPECIFICATION RegFairSpec
CONSTANTS
    FDs = {f1, f2, f3}
    NoFd = NoFd
    Objs = {o1, o2, o3}
    MaxConnect = 2
    Events <- McEvents
    ServerIds = {1, 2}
    NoServer = NoServer
INVARIANTS RegTypeOK RegistryLeadsToReporter RegisteredKnowEachOther
PROPERTIES EntryChangesForAReason DeadNodeIsForgotten RegistryIsMembership
CHECK_DEADLOCK FALSE
