CONSTANTS
    r1 = r1
    r2 = r2
    Runner = {r1, r2}
    Replicas = {1}
    MaxSetters = 1
    Faults = {"start", "stop", "reply", "timeout"}
    Shutdown = TRUE
SPECIFICATION Spec
SYMMETRY Symmetry
CONSTRAINT CallsReturned
INVARIANTS
    LiveHoldsLease
PROPERTIES
    KeepsLifecycle
