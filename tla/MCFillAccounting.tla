------------------------- MODULE MCFillAccounting --------------------------
(* Small instances: two agents with one proposal each, three lots of one    *)
(* ticker, one posting executor, the holdings sync, one proposal reader.    *)
EXTENDS FillAccounting, TLC

CONSTANTS p1, p2, a1, a2, o1, o2, o3, post1, client1

Agent1First == [p \in Proposals |-> IF p = p1 THEN a1 ELSE a2]

Order(p, side, n, ref) ==
    [prop |-> p, side |-> side, shares |-> n, fits |-> p # NoProposal, ref |-> ref]

\* ref is what fill-processing.js accepts; robinhood-sync.py never sets it.
\* A purchase; a sale of all its agent owns; a manual sale that takes the
\* oldest lot, and so leaves the agent's sale short when it is booked first.
MixedOrders == [o \in Orders |-> IF o = o1 THEN Order(p1, "BUY", 1, FALSE)
                                 ELSE IF o = o2 THEN Order(p2, "SELL", 2, TRUE)
                                 ELSE Order(NoProposal, "SELL", 1, FALSE)]
\* Two purchases for one proposal.
TwiceBought == [o \in Orders |-> Order(p1, "BUY", 1, o = o1)]
\* One sale of more than its agent owns.
ShortSale   == [o \in Orders |-> Order(p2, "SELL", 3, TRUE)]

\* The oldest lot is the second agent's.
MCLots == <<[owner |-> a2, open |-> 1], [owner |-> a1, open |-> 1],
            [owner |-> a2, open |-> 1]>>
=============================================================================
