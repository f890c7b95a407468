------------------------------ MODULE MCResearch ------------------------------
(* The runs of the research scan, and the cases its slate may meet.  Either *)
(* a behaviour narrows one case, or it runs scans: the two share no state,  *)
(* so a behaviour of one leaves the other at its start.                     *)
EXTENDS ResearchRun, ResearchSlate, TLC

CONSTANTS s1, h1, c1, l1
MCRuns == {s1, c1, l1}
MCKind == s1 :> "scheduled" @@ c1 :> "cli" @@ l1 :> "lab"

Fact(cap, volume, years, change) == [cap |-> cap, volume |-> volume, years |-> years, change |-> change]
Big == Fact(90, 50, 9, 2)
Small == Fact(2, 4, 5, 7)
Young == Fact(20, 30, 1, 9)
Blank == Fact(Missing, 30, Missing, 1)
Lot(n, agent, ticker, shares) == [id |-> n, agent |-> agent, ticker |-> ticker, shares |-> shares]
Plenty == [industry |-> 9, sector |-> 12]
Thin == [industry |-> 3, sector |-> 5]
Day == [agent |-> "agent-1", mode |-> "catalog", bus |-> TRUE, day |-> 20,
        catalog |-> 1 :> Big @@ 2 :> Small @@ 3 :> Young @@ 4 :> Blank @@ 5 :> Big,
        holdings |-> 1 :> 5, lots |-> {Lot(1, "agent-1", 1, 5)}, movers |-> <<3, 4>>, watchlist |-> <<2, 5>>,
        ledger |-> 2 :> 15 @@ 5 :> 1, noData |-> {}, unscored |-> {}, score |-> <<10, 50, 50, 20, 70>>,
        peers |-> 1 :> Plenty @@ 2 :> Plenty @@ 3 :> Plenty @@ 4 :> Thin @@ 5 :> Plenty]
Crowded == [Day EXCEPT !.holdings = 1 :> 5 @@ 2 :> 1 @@ 4 :> 2,
                       !.lots = {Lot(1, "agent-1", 1, 2), Lot(2, "agent-1", 1, 3), Lot(3, "agent-1", 2, 1),
                                 Lot(4, "agent-1", 4, 2)}]
Shared == [Crowded EXCEPT !.lots = {Lot(1, "agent-2", 1, 2), Lot(2, "agent-3", 1, 3), Lot(3, "agent-1", 2, 1),
                                    Lot(4, "agent-3", 4, 2)}]
Days == {Day, Crowded, Shared, [Day EXCEPT !.lots = {Lot(1, "agent-1", 1, 4)}],
         [Crowded EXCEPT !.peers = 1 :> Thin @@ 2 :> Thin @@ 3 :> Plenty @@ 5 :> Plenty],
         [Crowded EXCEPT !.noData = {1, 3}], [Crowded EXCEPT !.unscored = {2, 5}], [Day EXCEPT !.bus = FALSE],
         [Crowded EXCEPT !.catalog = 1 :> Blank @@ 2 :> Blank @@ 3 :> Blank @@ 4 :> Blank @@ 5 :> Blank]}
MCCases == {[d EXCEPT !.agent = a, !.mode = m, !.day = k] :
               d \in Days, a \in {"agent-1", "agent-2", "agent-3"},
               m \in {"catalog", "watchlist", "rollback"}, k \in {20, 21}}

RunStart == run = [r \in Runs |-> Idle] /\ Len(rows) = 1 /\ crashes = 0 /\ up /\ repairs = 0
SlateStart == pick = Nothing /\ case = Day
MCInit == Init /\ SlateInit
(* Rows are read at the start of a run only: they change around it.  A     *)
(* second row matters to the breaker alone: it is followed without other   *)
(* mishaps, and without a Lab request.                                     *)
RowsAround ==
    /\ rows' # rows => /\ \A r \in Runs : run[r].pc \in Settled \cup {"assess"}
                      /\ \E r \in Runs : run[r].pc # "idle"
    /\ Len(rows') > 1 => /\ run'[l1].pc = "idle" /\ crashes' = 0 /\ lost' = {}
                         /\ \A r \in Runs : run'[r].failed = 0 /\ ~ run'[r].aborted
MCNext == \/ SlateStart /\ RunNext /\ RowsAround /\ UNCHANGED slateVars
          \/ RunStart /\ SlateNext /\ UNCHANGED vars
MCSpec == MCInit /\ [][MCNext]_<<vars, slateVars>>
MCRunSpec == MCSpec /\ Fairness
===============================================================================
