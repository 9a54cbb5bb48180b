CONSTANTS
    Configs <- Following
    MaxPieces = 1
    AvgLine = 1
    MaxLine = 2
    Rotations = {"remove"}
    EarlyRotation = FALSE
    Stops = FALSE
SPECIFICATION Spec
PROPERTIES
    ReOpensFile
CHECK_DEADLOCK FALSE
