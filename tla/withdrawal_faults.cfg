\* Crashes, failed and lost writes, retries, fills between attempts.
SPECIFICATION Spec
CONSTANTS
    r1 = r1  r2 = r2  k1 = k1  k2 = k2  alice = alice
    Runs = {r1, r2}
    Keys = {k1, k2}
    Investors = {alice}
    RequestsOf <- OneSeller
    Navs <- MCNavs
    NumLots = 2
    MaxShares = 3
    InitialOpen <- MCInitialOpen
    CostPerShare <- MCCostPerShare
    SalePrice = 5
    InitialUnits <- MCInitialUnits
    TransportRetries = FALSE
    LockMayExpire = FALSE
    FillsDuringCommit = FALSE
    MaxFaults = 2
    MaxFills = 1
    MaxContributions = 0
    NoRun = NoRun  NoKey = NoKey  NoPlan = NoPlan
SYMMETRY RunSymmetry
CHECK_DEADLOCK FALSE
INVARIANT PlanBeforeMoney
INVARIANT BookedAtMostOnce
INVARIANT LotsConserved
PROPERTY KeepsPromise
PROPERTY OnlyReplaysOverdraw
