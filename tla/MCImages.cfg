CONSTANTS
    c1 = c1
    c2 = c2
    c3 = c3
    a = a
    b = b
    n = n
    Creator = {c1, c2, c3}
    Pool = {a, b, n}
    PoolOf <- ThreePools
    Policy <- ThreePolicies
    MaxVersion = 2
    Faults = TRUE
    NoCreator = NoCreator
    CIDs = 5
    MaxMade = 3
SPECIFICATION CreationSpec
INVARIANTS
    WaitsForPull
    CIDsDistinct
PROPERTIES
    NoRollback
    EnsureEnds
CHECK_DEADLOCK FALSE
