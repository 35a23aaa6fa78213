SPECIFICATION HttpSpec
CONSTANTS
  Requests = {r1, r2, r3}
  Types = {get}
  Paths = {a, b}
  Shapes = {"whole", "unreadable"}
  PoolGrowth = 1
  NoRequest = NoRequest
INVARIANTS HttpTypeOK ObjectsAreNotShared
PROPERTIES AnsweredExactlyOnce
CHECK_DEADLOCK FALSE
