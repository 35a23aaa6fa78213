SPECIFICATION FairSpec
CONSTANTS
    Workers = {w1, w2}
    Producers = {p1, p2, p3}
    Tasks = {t1, t2, t3, t4}
    NoTask = NoTask
    MaxQueueSize = 1
INVARIANTS TypeOK SleepersHaveReason
PROPERTIES KeepsPromise WaitingTaskIsExecuted
CHECK_DEADLOCK FALSE
