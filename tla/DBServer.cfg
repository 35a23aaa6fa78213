SPECIFICATION DBFairSpec
CONSTANTS
    m_ConnNum = 3
    MaxSqls = 2
INVARIANTS ThreadsTypeOK NobodyUsesDeleted
PROPERTIES StopCompletes
CHECK_DEADLOCK FALSE
