\* A sale its agent cannot cover, and the executor repeating /record-trade.
SPECIFICATION Spec
CONSTANTS
    p1 = p1  p2 = p2  a1 = a1  a2 = a2  o1 = o1  o2 = o2  o3 = o3
    post1 = post1  client1 = client1
    Posts = {post1}
    Sync = Sync
    Clients = {}
    Proposals = {p2}
    Agents = {a1, a2}
    Unattributed = Unattributed
    AgentOf <- Agent1First
    Orders = {o1}
    OrderOf <- ShortSale
    InitialLots <- MCLots
    EnforceOwnership = TRUE
    LockMayExpire = FALSE
    MaxFaults = 0
    MaxReports = 1
    NoOrder = NoOrder  NoProposal = NoProposal  NoOne = NoOne
CHECK_DEADLOCK FALSE
INVARIANT OpenUntilRepaired
