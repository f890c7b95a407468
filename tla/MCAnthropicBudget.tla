--------------------------- MODULE MCAnthropicBudget ---------------------------
(***************************************************************************)
(* Two processes, one with large discovery calls and one with small        *)
(* protected ones, a month's end, and a ceiling a large and a small call   *)
(* fill exactly.                                                           *)
(***************************************************************************)
EXTENDS AnthropicBudget, TLC
CONSTANTS r1, r2, c1, c2
Ask(n, pool) == [bound |-> n, reserve |-> n, protected |-> pool]
MCRunMax == (r1 :> 2) @@ (r2 :> 1)
MCRequests == (r1 :> {Ask(2, FALSE)}) @@ (r2 :> {Ask(1, TRUE)})
Symmetric == Permutations(Calls)
=============================================================================
