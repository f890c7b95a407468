------------------------------- MODULE MCRecords -------------------------------
(***************************************************************************)
(* What is written down about money and research, part by part in one run: *)
(* deposits and the NAV row they reach, the closure of a lot by hand, the  *)
(* durable history of two refreshes, and the shadow of the books with its  *)
(* daily comparison.  A behaviour moves one part, and the same two         *)
(* processes act in each.                                                  *)
(***************************************************************************)
EXTENDS MCCapitalNav, LotClosure, ResearchHistory, ShadowParity

CONSTANTS o1, q1, q2
MCSymmetric == Symmetric \cup Permutations(Proposals)
VARIABLE part
mcVars == <<part, vars, closureVars, historyVars, parityVars>>

MCInit ==
    /\ part \in {"capital", "closure", "evidence", "history", "parity"}
    /\ Init /\ ClosureInit /\ HistoryInit /\ ParityInit
    /\ part # "closure" => atBroker = [shares |-> 0, fresh |-> FALSE]
\* a sale, and a third NAV row, are followed without mishaps
Sold == capital > Seed + Credits([k \in Deposits |-> IF arrived[k] > 0 THEN AmountOf[k] ELSE 0])
Apart == Sold' \/ Len(perf') > 2 => faults' = 0
\* contents and quote snapshots are only told apart, so the first is 1
FirstIsOne ==
    /\ \A x \in Objects : books[x] = Nil => books'[x] \in {Nil, 1}
    /\ quotes.left = Nil => quotes.left' \in {Nil, 1}
MCNext ==
    /\ UNCHANGED part
    /\ \/ part = "capital" /\ Next /\ Apart /\ UNCHANGED <<closureVars, historyVars, parityVars>>
       \/ /\ part \in {"closure", "evidence"}
          /\ IF part = "closure" THEN UNCHANGED <<queue, approval>> ELSE UNCHANGED <<lot, script, sync>>
          /\ ClosureNext
          /\ UNCHANGED <<vars, historyVars, parityVars>>
       \/ part = "history" /\ HistoryNext /\ UNCHANGED <<vars, closureVars, parityVars>>
       \/ part = "parity" /\ ParityNext /\ FirstIsOne /\ UNCHANGED <<vars, closureVars, historyVars>>
MCSpec == MCInit /\ [][MCNext]_mcVars
================================================================================
