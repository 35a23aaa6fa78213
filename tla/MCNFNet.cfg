SPECIFICATION NetFairSpec
CONSTANTS
    FDs = {f1, f2, f3}
    NoFd = NoFd
    Objs = {o1, o2, o3}
    MaxConnect = 2
    Events <- McEvents
INVARIANTS NetTypeOK TableMatchesHeap RemovalsMatchMarks WithinMaxConnect
PROPERTIES FreedOnlyIfMarked HungUpIsFreed
