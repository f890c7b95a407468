--------------------------- MODULE CircuitBreaker ---------------------------
(***************************************************************************)
(* The portfolio's drawdown breaker: the NAV basis derived from the signed *)
(* Performance rows, the ratchet that reconciles it with the stored high   *)
(* water mark, and the tier a drawdown earns.                              *)
(*                                                                         *)
(* A row is [day, nav]; an amount is a natural number, None one the code   *)
(* cannot read.  A row with no units or no NAV never reaches Usable.       *)
(***************************************************************************)
EXTENDS Integers, Sequences, FiniteSets, FiniteSetsExt

None == -1
Higher(a, b) == IF a > b THEN a ELSE b
Unseen == [value |-> None, basis |-> "none", rows |-> None, ledger |-> None, alert |-> <<>>]

(* The last row of a day is the only one that may set the mark.            *)
DeriveDailyNavBreakerBasis(rows) ==
    LET days == {rows[i].day : i \in DOMAIN rows}
        last(d) == rows[Max({i \in DOMAIN rows : rows[i].day = d})].nav
    IN  IF rows = <<>> THEN [current |-> None, mark |-> None, rows |-> 0]
        ELSE [current |-> last(Max(days)), mark |-> Max({last(d) : d \in days}),
              rows |-> Cardinality(days)]

(* The stored mark and the stored row count are ratchets: what the ledger  *)
(* shows may raise them and is reported when it is lower.                  *)
OnNav(stored, field) == IF stored.basis = "navPerUnit" THEN field ELSE None
(* A plausible slip: the ledger's own mark wins over the stored one.       *)
ReconcileLedgerWins(daily, stored) ==
    [mark |-> daily.mark, rows |-> daily.rows, ledger |-> daily.mark, key |-> <<>>, shouldAlert |-> FALSE]
ReconcileNavHighWaterMark(daily, stored) ==
    LET mark == daily.mark rows == daily.rows
        value == OnNav(stored, stored.value) count == OnNav(stored, stored.rows)
        lower(now, before) == now # None /\ before # None /\ now < before
        issues == {i \in {"mark", "rows"} : IF i = "mark" THEN lower(mark, value) ELSE lower(rows, count)}
        key == IF issues = {} THEN <<>> ELSE <<issues, value, mark, count, rows>>
    IN  [mark |-> Higher(value, mark), rows |-> Higher(count, rows), ledger |-> mark,
         key |-> key, shouldAlert |-> key # <<>> /\ key # stored.alert]

Drawdown(current, mark) == ((mark - current) * 100) \div mark
TierOf(d) == CASE d >= 20 -> "HALT" [] d >= 15 /\ d < 20 -> "EXITS_ONLY"
               [] d >= 12 /\ d < 15 -> "NO_NEW_BUYS" [] d >= 8 /\ d < 12 -> "REDUCE" [] OTHER -> "NONE"
AssessCircuitBreaker(current, prior) ==
    IF current = None THEN [tier |-> "UNKNOWN", mark |-> prior]
    ELSE LET mark == Higher(current, prior) IN [tier |-> TierOf(Drawdown(current, mark)), mark |-> mark]

(* What a run concludes from the rows it could read (none of them when the *)
(* tab was unreadable), the stored record and the cached total value, and  *)
(* the record it writes back; no record when there is no mark at all.      *)
OnNavBasis(daily, stored) == daily.current # None \/ stored.basis = "navPerUnit"
ResolveCircuitBreaker(daily, nav, stored, total) ==
    LET onNav  == OnNavBasis(daily, stored)
        basis  == IF onNav THEN "navPerUnit" ELSE IF total # None THEN "totalValue" ELSE "none"
        prior  == IF onNav THEN nav.mark ELSE IF stored.basis = basis THEN stored.value ELSE None
        verdict == AssessCircuitBreaker(IF onNav THEN daily.current ELSE total, prior)
    IN  [tier |-> verdict.tier, writes |-> verdict.mark # None /\ basis # "none",
         alerts |-> onNav /\ nav.shouldAlert,
         record |-> [value |-> verdict.mark, basis |-> basis,
                     rows |-> IF onNav THEN nav.rows ELSE None,
                     ledger |-> IF onNav THEN nav.ledger ELSE None,
                     alert |-> IF onNav /\ nav.key # <<>> THEN stored.alert ELSE <<>>]]
=============================================================================
