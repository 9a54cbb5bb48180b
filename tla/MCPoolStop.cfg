CONSTANTS
    r1 = r1
    r2 = r2
    Runner = {r1, r2}
    Replicas = {1}
    MaxSetters = 0
    Faults <- SeenFaults
    Shutdown = TRUE
SPECIFICATION UncalledSpec
INVARIANTS
    PoolInv
    LeaseIsOwned
    StopDrainsSettled
PROPERTIES
    StopCompletes
CHECK_DEADLOCK FALSE
