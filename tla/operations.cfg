\* Three days of the safety window; the checks, restarts and findings of the system loop.
SPECIFICATION OpsSpec
CONSTANTS
    o1 = o1
    o2 = o2
    r1 = r1
    t1 = t1
    t2 = t2
    Slots <- MCSlots
    Weekday <- MCWeekday
    Trading <- MCTrading
    Live = {"holdings-sync", "intraday-monitor"}
    Backdrop <- MCBackdrop
    ResearchRuns = {r1}
    Observers = {o1, o2}
    Retention = 9
    MaxDays = 9
    MaxTries <- MCTries
    MaxCalls = 3
    MaxFaults = 1
    Anomalies <- MCAnomalies
    Runners = {t1, t2}
    Kinds = {"triage", "weekly"}
    MaxAttempts = 2
    PageLimit = 1
    MaxDate = 2
    MaxSlips = 1
    Sentinels = {"s1"}
    MaxStarts = 4
    MaxHitches = 1
    MaxWorse = 2
    MaxWrong = 2
INVARIANTS SnapshotsHaveProvenance UnreadIsVisible TroubleIsReported
PROPERTIES DayRecordImmutable CleanDayEarned WorseIsNeverBetter MarkerMeansWork
SYMMETRY OpsSymmetry
CHECK_DEADLOCK FALSE
