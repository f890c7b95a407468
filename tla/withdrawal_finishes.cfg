\* The operator repeats what failed; appends may land twice.
SPECIFICATION FairSpec
CONSTANTS
    r1 = r1  r2 = r2  k1 = k1  k2 = k2  alice = alice
    Runs = {r1}
    Keys = {k1, k2}
    Investors = {alice}
    RequestsOf <- Ample
    Navs <- MCNavs
    NumLots = 2
    MaxShares = 3
    InitialOpen <- MCInitialOpen
    CostPerShare <- MCCostPerShare
    SalePrice = 5
    InitialUnits <- AmpleUnits
    TransportRetries = TRUE
    LockMayExpire = FALSE
    FillsDuringCommit = FALSE
    MaxFaults = 2
    MaxFills = 0
    MaxContributions = 1
    NoRun = NoRun  NoKey = NoKey  NoPlan = NoPlan
CHECK_DEADLOCK FALSE
PROPERTY PlannedIsFinished
PROPERTY LockIsFreed
