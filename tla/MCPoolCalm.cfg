CONSTANTS
    r1 = r1
    r2 = r2
    Runner = {r1, r2}
    Replicas <- Targets
    MaxSetters = 1
    Faults = {}
    Shutdown = FALSE
    MaxExits = 1
SPECIFICATION CalmSpec
INVARIANTS
    NoTargetLost
    RunnerIsOwned
    RunningIsListed
PROPERTIES
    Converges
    ExitedIsReaped
