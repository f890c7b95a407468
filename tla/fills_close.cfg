\* Two orders for one proposal, the executor repeating, readers interfering.
SPECIFICATION FairSpec
CONSTANTS
    p1 = p1  p2 = p2  a1 = a1  a2 = a2  o1 = o1  o2 = o2  o3 = o3
    post1 = post1  client1 = client1
    Posts = {post1}
    Sync = Sync
    Clients = {client1}
    Proposals = {p1}
    Agents = {a1, a2}
    Unattributed = Unattributed
    AgentOf <- Agent1First
    Orders = {o1, o2}
    OrderOf <- TwiceBought
    InitialLots <- MCLots
    EnforceOwnership = TRUE
    LockMayExpire = FALSE
    MaxFaults = 1
    MaxReports = 1
    NoOrder = NoOrder  NoProposal = NoProposal  NoOne = NoOne
CHECK_DEADLOCK FALSE
PROPERTY ClosedStaysClosed
PROPERTY DecidedNeverExpires
PROPERTY PostedIsFulfilled
