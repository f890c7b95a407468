---------------------------- MODULE MCReviewChain ----------------------------
(* Instances of ReviewChain: limits of the shape config/agents gives the   *)
(* three agents, three candidates and the answers that take every branch.  *)
EXTENDS ReviewChain

A1 == [maxPos |-> 15, maxSector |-> 75, redCap |-> 10, conviction |-> TRUE, dualRedBlocks |-> TRUE,
       noAveragingDown |-> TRUE, reserve |-> 5, starter |-> FALSE, floors |-> FALSE]
A2 == [A1 EXCEPT !.maxPos = 12, !.maxSector = 60, !.redCap = 8, !.conviction = FALSE, !.floors = TRUE]
A3 == [A2 EXCEPT !.maxPos = 15, !.redCap = 100, !.dualRedBlocks = FALSE, !.noAveragingDown = FALSE,
       !.reserve = 0]
Small == [A1 EXCEPT !.starter = TRUE]
MCAgents == {A1, A2, A3, Small}

Unheld == [ticker |-> "new", gate |-> "ok", held |-> 0, weight |-> 0, owned |-> 0, atLoss |-> FALSE,
          sector |-> 45, strong |-> 2, catalyst |-> TRUE, floorsMet |-> TRUE]
Losing == [Unheld EXCEPT !.ticker = "held", !.held = 10, !.weight = 20, !.owned = 6, !.atLoss = TRUE,
           !.strong = 1]
Bare == [Unheld EXCEPT !.ticker = "thin", !.strong = 0, !.floorsMet = FALSE]
MCCandidates == {Unheld, Losing, Bare, [Bare EXCEPT !.gate = "stale"], [Bare EXCEPT !.gate = "missing"]}

Buy == [NoAnswer EXCEPT !.action = "BUY", !.weight = 20]
MCReplies == {Buy, [Buy EXCEPT !.weight = 6], [Buy EXCEPT !.cited = FALSE], [Buy EXCEPT !.family = FALSE],
              [NoAnswer EXCEPT !.action = "SELL"], [Buy EXCEPT !.flaw = TRUE],
              NoAnswer, [NoAnswer EXCEPT !.cashTalk = TRUE], [NoAnswer EXCEPT !.broken = TRUE]}
Found == [red |-> 0, tier |-> "NONE", positions |-> 0, mandateGate |-> FALSE, sold |-> {},
          budget |-> 40, open |-> {}, agent |-> A1]
Circumstances ==
  {Found, [Found EXCEPT !.red = 1], [Found EXCEPT !.red = 2], [Found EXCEPT !.red = 1, !.tier = "REDUCE"],
   [Found EXCEPT !.tier = "NO_NEW_BUYS"], [Found EXCEPT !.tier = "HALT"],
   [Found EXCEPT !.positions = 1], [Found EXCEPT !.mandateGate = TRUE],
   [Found EXCEPT !.sold = {"held"}, !.budget = 12], [Found EXCEPT !.budget = 0],
   [Found EXCEPT !.open = {[ticker |-> "held", side |-> "SELL"]}],
   [Found EXCEPT !.open = {[ticker |-> "new", side |-> "BUY"]}, !.budget = 12]}
MCContexts == {[f EXCEPT !.agent = a] : f \in Circumstances, a \in MCAgents}
==============================================================================
