CONSTANTS
    PoolName = {1, 2, 3}
    MachineName = {11, 12, 13, 14}
    HalfRange = 4
    Client = {1, 2}
    Plans <- MCPlans
    Pool = {1, 2}
    Machine = {11, 12, 13}
    PoolOf <- MCPoolOf
    Listings = {{11, 13}, {11, 12, 13}}
    Changes = 2
SPECIFICATION Spec
INVARIANTS
    TypeOK
    ViewIsFresh
    ListingIsExact
    StatesAreFresh
    GaugeSettles
PROPERTIES
    CommandsEnd
CHECK_DEADLOCK FALSE
