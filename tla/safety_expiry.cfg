\* Four records retained, a weekend, no fault.
SPECIFICATION MCLongSpec
CONSTANTS
    o1 = o1
    o2 = o2
    r1 = r1
    Slots <- MCSlots
    Weekday <- MCLongWeek
    Trading <- MCLongTrading
    Live = {"holdings-sync", "intraday-monitor"}
    Backdrop <- MCBackdrop
    ResearchRuns = {r1}
    Observers = {o1}
    Retention = 4
    MaxDays = 4
    MaxTries <- MCNoTries
    MaxCalls = 4
    MaxFaults = 0
INVARIANT OnlyFaultsStopTheObserver
CHECK_DEADLOCK FALSE
