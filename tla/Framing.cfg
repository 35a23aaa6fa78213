SPECIFICATION FramingFairSpec
CONSTANTS
    MsgIds = {1, 4, 6}
    BodyLengths = {0, 1, 2}
    IdSpan = 4
    SizeSpan = 32
    MaxInt = 15
    MaxSends = 3
INVARIANTS FramingTypeOK
PROPERTIES FramingImplementsChannel CompleteFramesArrive
CHECK_DEADLOCK FALSE
