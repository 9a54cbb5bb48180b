CONSTANTS
    Configs <- AllCalls
    MaxPieces = 3
    AvgLine = 2
    MaxLine = 2
    Rotations = {"rename", "remove"}
    EarlyRotation = TRUE
    Stops = TRUE
SPECIFICATION Spec
INVARIANTS
    TypeOK
    SentInOrder
    OldFileSent
    FindsLastLines
PROPERTIES
    CatchesUp
    StopEnds
CHECK_DEADLOCK FALSE
