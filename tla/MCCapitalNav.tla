----------------------------- MODULE MCCapitalNav -----------------------------
(***************************************************************************)
(* Two deposits, three days, two drain processes, sales at a gain or loss. *)
(***************************************************************************)
EXTENDS CapitalNav, TLC
CONSTANTS k1, k2, p1, p2
MCAmountOf == (k1 :> 2) @@ (k2 :> 2)
MCGains == {2}
Symmetric == Permutations(Procs)
=============================================================================
