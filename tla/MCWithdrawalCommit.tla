------------------------ MODULE MCWithdrawalCommit ------------------------
(* A small instance of the withdrawal: two overlapping invocations, two    *)
(* keys, one investor, two lots of different cost.                         *)
EXTENDS WithdrawalCommit, TLC

CONSTANTS r1, r2, k1, k2, alice

\* A sale across both lots, a cash-funded withdrawal, everything (--full).
SellTwo  == [investor |-> alice, amount |-> 4, sell |-> 2]
CashOnly == [investor |-> alice, amount |-> 4, sell |-> 0]
FullCash == [investor |-> alice, amount |-> 0, sell |-> 0]

MCInitialOpen  == <<1, 3>>
MCCostPerShare == <<1, 3>>
MCInitialUnits == [i \in Investors |-> 6]
AmpleUnits     == [i \in Investors |-> 8]
\* Only k1 sells shares; k2 competes for the same units.
OneSeller      == [k \in Keys |-> IF k = k1 THEN {SellTwo, FullCash} ELSE {FullCash}]
\* k1 sells, k2 takes cash; the units suffice for both.
Ample          == [k \in Keys |-> IF k = k1 THEN {SellTwo} ELSE {CashOnly}]
MCNavs         == {1, 2}
RunSymmetry    == Permutations(Runs)
=============================================================================
