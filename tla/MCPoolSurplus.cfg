CONSTANTS
    r1 = r1
    r2 = r2
    Runner = {r1, r2}
    Replicas = {1}
    MaxSetters = 0
    Faults = {}
    Shutdown = FALSE
SPECIFICATION Spec
SYMMETRY Symmetry
INVARIANTS
    RemovesOnlySurplus
