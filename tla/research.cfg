\* Runs with one mishap and a second NAV row; 54 days per agent narrowed.
SPECIFICATION MCRunSpec
CONSTANTS
    Runs <- MCRuns
    Kind <- MCKind
    Agents = 1
    Navs = {80, 100}
    MaxRows = 2
    Totals = {50}
    MaxStarted = 2
    MaxMishaps = 1
    NoRun = NoRun
    s1 = s1
    h1 = h1
    c1 = c1
    l1 = l1
    Cases <- MCCases
    SlateSize = 4
    ReviewBudget = 2
    Exploration = 2
    Cooldown = 14
    ScanLimit = 5
    MicroCap = 3
    MicroFloor = 3
    VolumeFloor = 10
    CapFloor = 3
    RecordYears = 3
    PeerRelativeMin = 8
    PeersNeeded = 6
INVARIANTS GreenIsClean OneTerminalRecord SlateIsSound
PROPERTIES MarkRatchet RunSettles
CHECK_DEADLOCK FALSE
