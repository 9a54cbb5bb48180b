CONSTANTS
    p1 = p1
    p2 = p2
    c1 = c1
    c2 = c2
    Pools = {p1, p2}
    Calls = {c1, c2}
    WithMetrics = TRUE
    Faults = {"listen", "pool", "serve", "leak"}
SPECIFICATION Spec
INVARIANTS
    ReturnsClean
    ClosedAfterPools
PROPERTIES
    Terminates
CHECK_DEADLOCK FALSE
