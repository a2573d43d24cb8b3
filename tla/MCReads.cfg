SPECIFICATION Spec
CONSTANTS
    Products = {1, 2, 3}
    Machines = {11, 12, 13}
    Created = {2, 12}
    Clients = {c}
    Price <- MCPrice
    Stock = 1
    Coins = 5
    Limits = {0, 1, 3}
    DefaultPageSize = 3
    MaxPageSize = 2
    Tops = {0, 1, 4}
    DefaultTopMachines = 3
    MaxTopMachines = 3
    MaxTime = 1
INVARIANTS
    TypeOK
    WalkMissesNothing
    OverviewBalanced
    LeaderboardNotBehind
CHECK_DEADLOCK FALSE
