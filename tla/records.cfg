\* Deposits and their NAV rows, a closure by hand, research history, the shadow and its comparison.
CONSTANTS
  k1 = k1
  k2 = k2
  p1 = p1
  p2 = p2
  o1 = o1
  NoProc = NoProc
  LastDay = 3
  Deposits = {k1, k2}
  Arriving = {k1}
  AmountOf <- MCAmountOf
  Seed = 4
  Tolerance = 1
  Gains <- MCGains
  MaxCapital = 6
  Procs = {p1, p2}
  MaxRows = 3
  MaxFaults = 1
  Closers = {p1, p2}
  Orders = {o1}
  MaxShares = 2
  MaxSlips = 2
  Refreshes = {p1, p2}
  Names = {"n"}
  LastTime = 3
  MaxAge = 1
  MaxMishaps = 2
  Scribes = {p1, p2}
  q1 = q1
  q2 = q2
  Proposals = {q1, q2}
  Tables = {"positions", "accounting_snapshot"}
  MaxValue = 2
  MaxWrites = 2
  MaxLosses = 1
SPECIFICATION MCSpec
SYMMETRY MCSymmetric
CHECK_DEADLOCK FALSE
INVARIANTS NavRowsAreSound CreditedWithinInflow ClosureIsOnRecord EvidenceBeforeEffect PublishedIsDurable OneLineInTime VerdictIsTrue
