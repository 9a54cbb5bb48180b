CONSTANTS
    Follow = {TRUE, FALSE}
    Window = 2
    MaxLines = 4
SPECIFICATION Spec
INVARIANTS
    OkMeansAll
PROPERTIES
    CommandEnds
    KeepsStream
    HandlersEnd
    DrainEnds
CHECK_DEADLOCK FALSE
