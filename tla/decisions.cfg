\* The spend of two processes over a month's end, a review, a mandate's gates.
SPECIFICATION MCSpec
CONSTANTS
  r1 = r1
  r2 = r2
  c1 = c1
  c2 = c2
  NoId = NoId
  Runs = {r1, r2}
  Calls = {c1, c2}
  LastMonth = 2
  Cap = 3
  Protected = 1
  RunMax <- MCRunMax
  MaxReserve = 2
  Requests <- MCRequests
  MaxFaults = 1
  LeaseMayRunOut = TRUE
  Contexts <- MCContexts
  Candidates <- MCCandidates
  Replies <- MCReplies
  MaxReviews = 2
  ProposalCap = 18
  Slots = 2
  MaxSlips = 1
  m1 = m1
  m2 = m2
  m3 = m3
  None = None
  Metrics <- MCMetrics
  Points <- MCPoints
  Special <- MCSpecial
  Policies <- MCPolicies
  Records <- MCRecords
  MetricCases <- MCMetricCases
  FirstCases <- MCFirstCases
  AsOf <- MCAsOf
  ProposedAddId = "add-1"
  MaxChanges = 2
SYMMETRY Symmetric
CHECK_DEADLOCK FALSE
INVARIANTS LedgerCovers WithinCap PricedRunWithinMax QueuedIsSound PositionIsBounded
PROPERTIES JudgementIsTheModels UnreadableNeverHelps
