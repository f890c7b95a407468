-------------------------------- MODULE Totals --------------------------------
(***************************************************************************)
(* Sums of naturals, of shares, units or dollars, over a finite set.  A    *)
(* sum is the number of its units, one pair for each of them, so that a    *)
(* fact about a sum is one about the cardinality of a finite set.          *)
(***************************************************************************)
EXTENDS Integers, FiniteSets

Units(f, S) == UNION {{c} \X (1 .. f[c]) : c \in S}

\* The sum of f over S.
Total(f, S) == Cardinality(Units(f, S))
===============================================================================
