CONSTANTS
    ShutdownOnExit = TRUE
    PipeSize = 2
    MaxLines = 2
    MaxStreams = 1
    LongLines = TRUE
    Signals = TRUE
    MmdsFaults = TRUE
    RetryMax = 2
    MaxCrashes = 1
SPECIFICATION BootSpec
INVARIANTS
    StateKeepsUp
    BootTypeOK
PROPERTIES
    NeverBlocked
    GoesInTheEnd
CHECK_DEADLOCK FALSE
