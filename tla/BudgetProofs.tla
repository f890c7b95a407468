----------------------------- MODULE BudgetProofs -----------------------------
(***************************************************************************)
(* The monthly ledger covers what its calls cost, the calls of a month     *)
(* stay under the ceiling and out of the protected pool, nothing is        *)
(* charged twice and a poisoned month stays closed, for any number of      *)
(* processes and calls and any failures (AnthropicBudget).                 *)
(***************************************************************************)
EXTENDS AnthropicBudget, TotalsProofs, TLAPS

-------------------------------------------------------------------------------
(* What a set of calls adds up to (TotalsProofs)                           *)

Amounts == [Calls -> 0 .. MaxReserve]

LEMMA AmountsAreNaturals ==
  ASSUME NEW f \in Amounts, NEW S \in SUBSET Calls
  PROVE  IsFiniteSet(S) /\ \A c \in S : f[c] \in Nat
  <1>1. IsFiniteSet(S)
    BY FS_Subset, BudgetAssumption
  <1>2. \A c \in S : f[c] \in Nat
    BY BudgetAssumption DEF Amounts
  <1> QED BY <1>1, <1>2

LEMMA SpendType ==
  ASSUME NEW f \in Amounts, NEW S \in SUBSET Calls
  PROVE  Total(f, S) \in Nat
  BY AmountsAreNaturals, TotalType

\* A sum grows with its amounts and its calls.
LEMMA SpendGrows ==
  ASSUME NEW f \in Amounts, NEW g \in Amounts,
         NEW T \in SUBSET Calls, NEW S \in SUBSET T,
         \A c \in S : f[c] <= g[c]
  PROVE  Total(f, S) <= Total(g, T)
  <1>1. /\ IsFiniteSet(T) /\ \A c \in T : g[c] \in Nat
        /\ \A c \in S : f[c] \in Nat
    BY AmountsAreNaturals
  <1> QED BY <1>1, TotalGrows

LEMMA SpendSame ==
  ASSUME NEW f \in Amounts, NEW g \in Amounts, NEW S \in SUBSET Calls,
         \A c \in S : f[c] = g[c]
  PROVE  Total(f, S) = Total(g, S)
  BY TotalSame

\* The sum of two sets of calls that have none in common.
LEMMA SpendSplits ==
  ASSUME NEW f \in Amounts, NEW S \in SUBSET Calls, NEW T \in SUBSET Calls,
         S \cap T = {}
  PROVE  Total(f, S \cup T) = Total(f, S) + Total(f, T)
  <1>1. IsFiniteSet(S) /\ IsFiniteSet(T)
    BY AmountsAreNaturals
  <1>2. \A c \in S \cup T : f[c] \in Nat
    BY AmountsAreNaturals
  <1> QED BY <1>1, <1>2, TotalSplits

\* One call costs its amount.
LEMMA SpendOfOne ==
  ASSUME NEW f \in Amounts, NEW c \in Calls
  PROVE  Total(f, {c}) = f[c]
  <1>1. f[c] \in Nat
    BY BudgetAssumption DEF Amounts
  <1> QED BY <1>1, TotalOfOne

\* Taking calls away, or adding some.
LEMMA SpendWithout ==
  ASSUME NEW f \in Amounts, NEW S \in SUBSET Calls, NEW D \in SUBSET S
  PROVE  Total(f, S) = Total(f, S \ D) + Total(f, D)
  BY AmountsAreNaturals, TotalWithout

-------------------------------------------------------------------------------
(* Types                                                                   *)

\* The reservation covers what the call may cost; what nobody asked for has
\* no value; what the provider refused costs nothing.
BoundedCost == \A c \in Calls : call[c].cost <= call[c].reserve
UnusedIsBlank == \A c \in Unused : call[c] = NoCall
RejectedIsFree == \A r \in Runs : run[r].answer = "rejected" =>
  run[r].pc = "settle" /\ call[run[r].id].cost = 0

TypeInv == TypeOK /\ BoundedCost /\ UnusedIsBlank /\ RejectedIsFree

\* The two amounts of the calls, as functions the lemmas on sums take.
LEMMA AmountsType == ASSUME TypeInv
  PROVE /\ Reserve \in Amounts /\ Cost \in Amounts
        /\ \A c \in Calls : Reserve[c] = call[c].reserve /\ Cost[c] = call[c].cost
        /\ \A c \in Calls : Cost[c] <= Reserve[c]
  BY DEF TypeInv, TypeOK, BoundedCost, CallState, Reserve, Cost, Amounts

LEMMA CallStateType ==
  ASSUME NEW m \in Months \cup {0}, NEW p \in BOOLEAN, NEW a \in 0 .. MaxReserve,
         NEW b \in 0 .. MaxReserve, NEW q \in BOOLEAN, NEW d \in BOOLEAN
  PROVE  [month |-> m, protected |-> p, reserve |-> a, cost |-> b,
          priced |-> q, due |-> d] \in CallState
  BY DEF CallState

\* A subtraction that stops at zero.
LEMMA WithoutType ==
  \A a, b \in Nat : Without(a, b) \in Nat /\ (b <= a => Without(a, b) = a - b)
  BY DEF Without, Larger

\* What the sweep of the expired leases leaves.
LEMMA SweptIs ==
  ASSUME TypeInv, NEW L \in Ledger
  PROVE  /\ Swept(L) \in Ledger
         /\ Swept(L).leases = L.leases \ Due(L)
         /\ Swept(L).reserved = Without(L.reserved, Total(Reserve, Due(L)))
         /\ Swept(L).spent = L.spent + Total(Reserve, Due(L))
         /\ Swept(L).poisoned = L.poisoned
  <1> DEFINE H == L.leases \ Due(L)
             v == Without(L.reserved, Total(Reserve, Due(L)))
             s == L.spent + Total(Reserve, Due(L))
  <1>1. L.spent \in Nat /\ L.reserved \in Nat /\ L.leases \subseteq Calls
    BY DEF Ledger
  <1>2. Total(Reserve, Due(L)) \in Nat
    BY <1>1, AmountsType, SpendType DEF Due
  <1>3. H \in SUBSET Calls /\ v \in Nat /\ s \in Nat
    <2>1. v \in Nat
      BY <1>1, <1>2, WithoutType
    <2> QED BY <1>1, <1>2, <2>1
  <1>4. Swept(L) = [L EXCEPT !.leases = H, !.reserved = v, !.spent = s]
    BY DEF Swept
  <1> HIDE DEF H, v, s
  <1>5. /\ Swept(L) \in Ledger /\ Swept(L).poisoned = L.poisoned
        /\ Swept(L).leases = H /\ Swept(L).reserved = v /\ Swept(L).spent = s
    BY <1>3, <1>4 DEF Ledger
  <1> QED BY <1>5 DEF H, v, s

\* What a verdict leaves, without the sweep's own amounts.
LEMMA ScriptIs ==
  ASSUME TypeInv, NEW r \in Runs, NEW c \in Calls, NEW L \in Ledger
  PROVE  LET N == AuthorizeScript(L, r, c) IN
         /\ N \in Ledger /\ N.poisoned = L.poisoned
         /\ Spent(L, r) \in Nat /\ Spent(L, r) >= Swept(L).spent
         /\ Verdict(L, r) = "POISONED" =>
              /\ N.leases = L.leases \ Due(L)
              /\ N.reserved = L.reserved /\ N.spent = L.spent
         /\ Verdict(L, r) = "EXHAUSTED" =>
              /\ N.leases = L.leases \ Due(L)
              /\ N.reserved = Swept(L).reserved /\ N.spent = Spent(L, r)
         /\ Verdict(L, r) = "AUTHORIZED" =>
              /\ N.leases = (L.leases \ Due(L)) \cup {c}
              /\ N.reserved = Swept(L).reserved + run[r].request.reserve
              /\ N.spent = Spent(L, r)
  <1>1. /\ L.spent \in Nat /\ L.reserved \in Nat /\ L.leases \subseteq Calls
    BY DEF Ledger
  <1>2. run[r].request.reserve \in Nat /\ run[r].seen \in Nat \cup {-1}
    BY BudgetAssumption
    DEF TypeInv, TypeOK, RunState, Request, NotLoaded, BudgetAssumption
  <1>3. /\ Swept(L) \in Ledger /\ Swept(L).leases = L.leases \ Due(L)
        /\ Swept(L).poisoned = L.poisoned
    BY SweptIs
  <1>4. Swept(L).spent \in Nat /\ Swept(L).reserved \in Nat
    BY <1>3 DEF Ledger
  <1>5. Spent(L, r) \in Nat /\ Spent(L, r) >= Swept(L).spent
    BY <1>2, <1>4 DEF Spent, Larger
  <1>6. CASE Verdict(L, r) = "POISONED"
    <2>1. AuthorizeScript(L, r, c) = [L EXCEPT !.leases = L.leases \ Due(L)]
      BY <1>6 DEF AuthorizeScript
    <2> QED BY <1>1, <1>5, <1>6, <2>1 DEF Ledger
  <1>7. CASE Verdict(L, r) = "EXHAUSTED"
    <2>1. AuthorizeScript(L, r, c) = [Swept(L) EXCEPT !.spent = Spent(L, r)]
      BY <1>7 DEF AuthorizeScript
    <2> QED BY <1>3, <1>5, <1>7, <2>1 DEF Ledger
  <1>8. CASE Verdict(L, r) = "AUTHORIZED"
    <2>1. AuthorizeScript(L, r, c) =
            [Swept(L) EXCEPT !.leases = Swept(L).leases \cup {c},
                             !.reserved = Swept(L).reserved + run[r].request.reserve,
                             !.spent = Spent(L, r)]
      BY <1>8 DEF AuthorizeScript
    <2>2. /\ Swept(L).leases \cup {c} \in SUBSET Calls
          /\ Swept(L).reserved + run[r].request.reserve \in Nat
      BY <1>1, <1>2, <1>3, <1>4
    <2> QED BY <1>3, <1>5, <1>8, <2>1, <2>2 DEF Ledger
  <1>9. Verdict(L, r) \in {"POISONED", "EXHAUSTED", "AUTHORIZED"}
    BY DEF Verdict
  <1> QED BY <1>6, <1>7, <1>8, <1>9

\* What an authorization leaves of the leases, and that it clears no poison.
LEMMA ScriptType ==
  ASSUME TypeInv, NEW r \in Runs, NEW c \in Calls, NEW L \in Ledger
  PROVE  /\ AuthorizeScript(L, r, c) \in Ledger
         /\ AuthorizeScript(L, r, c).leases \subseteq L.leases \cup {c}
         /\ AuthorizeScript(L, r, c).poisoned = L.poisoned
  <1>1. Verdict(L, r) \in {"POISONED", "EXHAUSTED", "AUTHORIZED"}
    BY DEF Verdict
  <1> QED BY <1>1, ScriptIs

\* What a settlement leaves.
LEMMA SettleIs ==
  ASSUME TypeInv, NEW r \in Runs, run[r].pc \in Sent, NEW L \in Ledger
  PROVE  LET N == SettleScript(L, r) IN
         /\ run[r].id \in Calls /\ Charge(r) \in Nat
         /\ call[run[r].id].reserve \in Nat
         /\ N \in Ledger /\ N.poisoned = L.poisoned
         /\ run[r].id \notin L.leases => N = L
         /\ run[r].id \in L.leases =>
              /\ N.leases = L.leases \ {run[r].id}
              /\ N.reserved = Without(L.reserved, call[run[r].id].reserve)
              /\ N.spent = L.spent + Charge(r)
  <1>1. run[r].id \in Calls
    BY DEF TypeInv, TypeOK, CallsOf
  <1>2. call[run[r].id].cost \in Nat /\ call[run[r].id].reserve \in Nat
    BY <1>1, BudgetAssumption DEF TypeInv, TypeOK, CallState, BudgetAssumption
  <1>3. Charge(r) \in Nat
    BY <1>2 DEF Charge
  <1>4. L.spent \in Nat /\ L.reserved \in Nat /\ L.leases \subseteq Calls
    BY DEF Ledger
  <1>5. CASE run[r].id \in L.leases
    <2> DEFINE H == L.leases \ {run[r].id}
               v == Without(L.reserved, call[run[r].id].reserve)
               s == L.spent + Charge(r)
    <2>1. SettleScript(L, r) = [L EXCEPT !.leases = H, !.reserved = v, !.spent = s]
      BY <1>5 DEF SettleScript
    <2>2. H \in SUBSET Calls /\ v \in Nat /\ s \in Nat
      <3>1. v \in Nat
        BY <1>2, <1>4, WithoutType
      <3> QED BY <1>3, <1>4, <3>1
    <2> HIDE DEF H, v, s
    <2>3. /\ SettleScript(L, r) \in Ledger /\ SettleScript(L, r).poisoned = L.poisoned
          /\ SettleScript(L, r).leases = H /\ SettleScript(L, r).reserved = v
          /\ SettleScript(L, r).spent = s
      BY <2>1, <2>2 DEF Ledger
    <2> QED BY <1>1, <1>2, <1>3, <1>5, <2>3 DEF H, v, s
  <1>6. CASE run[r].id \notin L.leases
    BY <1>1, <1>2, <1>3, <1>6 DEF SettleScript
  <1> QED BY <1>5, <1>6

\* Counting a fault keeps the count within its bound.
LEMMA FaultsType ==
  ASSUME faults \in 0 .. MaxFaults, NEW o, CountFault(o)
  PROVE  faults' \in 0 .. MaxFaults
  BY BudgetAssumption DEF CountFault, BudgetAssumption

\* The state a run starts its next call from.
LEMMA EndedType ==
  ASSUME TypeInv, NEW r \in Runs
  PROVE  /\ Ended(r) \in RunState /\ Failed(r) \in RunState /\ NewRun \in RunState
         /\ Ended(r).pc = "idle" /\ Failed(r).pc = "idle" /\ NewRun.pc = "idle"
         /\ Ended(r).answer = "none" /\ Failed(r).answer = "none" /\ NewRun.answer = "none"
         /\ Ended(r).made = run[r].made /\ Failed(r).made = run[r].made
  <1>1. run[r] \in RunState
    BY DEF TypeInv, TypeOK
  <1>2. NoRequest \in Request /\ 1 \in Months /\ NotLoaded \in Nat \cup {NotLoaded}
    BY BudgetAssumption DEF Request, NoRequest, Months, BudgetAssumption
  <1>3. NewRun \in RunState
    BY <1>2 DEF NewRun, RunState, PCs, Answers
  <1> QED BY <1>1, <1>3 DEF Ended, Failed, NewRun, RunState

\* A call once made keeps its month, pool and reservation; its cost only falls.
CallsKept == \A c \in Calls : call[c].month # 0 =>
  /\ call'[c].month = call[c].month /\ call'[c].protected = call[c].protected
  /\ call'[c].reserve = call[c].reserve /\ call'[c].cost <= call[c].cost

\* A step of one run keeps the types when its own new state has them.
LEMMA RunStepType ==
  ASSUME TypeInv, NEW r \in Runs, NEW v \in RunState, run' = [run EXCEPT ![r] = v],
         month' = month, ledger' \in [Months -> Ledger], usage' \in [Months -> Nat],
         call' \in [Calls -> CallState], CallsKept, BoundedCost', UnusedIsBlank',
         repeated' \subseteq Months, faults' \in 0 .. MaxFaults,
         \A m \in Months : ledger'[m].leases \subseteq CallsOf(m)',
         v.pc \in Sent => v.id \in Calls /\ call'[v.id].month = v.at,
         v.answer = "rejected" => v.pc = "settle" /\ call'[v.id].cost = 0
  PROVE  TypeInv'
  <1>1. \A s \in Runs : run'[s] = IF s = r THEN v ELSE run[s]
    BY DEF TypeInv, TypeOK
  <1>2. run' \in [Runs -> RunState]
    BY DEF TypeInv, TypeOK
  <1>3. ASSUME NEW s \in Runs, run'[s].pc \in Sent
        PROVE  run'[s].id \in Calls /\ call'[run'[s].id].month = run'[s].at
    <2>1. CASE s = r
      BY <1>1, <1>3, <2>1
    <2>2. CASE s # r
      <3>1. run'[s] = run[s] /\ run[s].id \in CallsOf(run[s].at)
        BY <1>1, <1>3, <2>2 DEF TypeInv, TypeOK
      <3>2. run[s].at \in Months /\ run[s].at # 0
        BY DEF TypeInv, TypeOK, RunState, Months
      <3> QED BY <3>1, <3>2 DEF CallsOf, CallsKept
    <2> QED BY <2>1, <2>2
  <1>4. ASSUME NEW s \in Runs, run'[s].answer = "rejected"
        PROVE  run'[s].pc = "settle" /\ call'[run'[s].id].cost = 0
    <2>1. CASE s = r
      BY <1>1, <1>4, <2>1
    <2>2. CASE s # r
      <3>1. /\ run'[s] = run[s] /\ run[s].id \in CallsOf(run[s].at)
            /\ run[s].pc = "settle" /\ call[run[s].id].cost = 0
        BY <1>1, <1>4, <2>2 DEF TypeInv, TypeOK, RejectedIsFree, Sent
      <3>2. run[s].at # 0 /\ run[s].id \in Calls /\ call[run[s].id].month # 0
        BY <3>1 DEF TypeInv, TypeOK, RunState, Months, CallsOf
      <3>3. call'[run[s].id].cost <= 0 /\ call'[run[s].id].cost \in 0 .. MaxReserve
        BY <3>1, <3>2 DEF CallsKept, CallState
      <3> QED BY <3>1, <3>3, BudgetAssumption DEF BudgetAssumption
    <2> QED BY <2>1, <2>2
  <1>5. TypeOK'
    <2>1. \A s \in Runs : run'[s].pc \in Sent =>
            run'[s].id \in {c \in Calls : call'[c].month = run'[s].at}
      BY <1>3
    <2> QED BY <1>2, <2>1 DEF TypeOK, TypeInv, CallsOf
  <1>6. RejectedIsFree'
    BY <1>4 DEF RejectedIsFree
  <1> QED BY <1>5, <1>6 DEF TypeInv

\* A step that leaves the calls and the ledger alone.
LEMMA QuietType ==
  ASSUME TypeInv, UNCHANGED <<call, ledger>>
  PROVE  /\ call' \in [Calls -> CallState] /\ CallsKept /\ BoundedCost' /\ UnusedIsBlank'
         /\ ledger' \in [Months -> Ledger]
         /\ \A m : CallsOf(m)' = CallsOf(m)
         /\ \A m \in Months : ledger'[m].leases \subseteq CallsOf(m)'
  <1>1. \A c \in Calls : call[c].cost \in Nat
    BY BudgetAssumption DEF TypeInv, TypeOK, CallState, BudgetAssumption
  <1> QED BY <1>1 DEF TypeInv, TypeOK, BoundedCost, UnusedIsBlank, Unused, CallsOf, CallsKept

\* What a run and its call look like while the call is under way.
LEMMA SentType ==
  ASSUME TypeInv, NEW r \in Runs
  PROVE  /\ run[r] \in RunState /\ run[r].at \in Months
         /\ run[r].pc \in Sent =>
              /\ run[r].id \in Calls /\ call[run[r].id] \in CallState
              /\ call[run[r].id].month = run[r].at /\ run[r].at # 0
              /\ call[run[r].id].cost \in Nat /\ call[run[r].id].reserve \in Nat
              /\ call[run[r].id].cost <= call[run[r].id].reserve
  BY BudgetAssumption
  DEF TypeInv, TypeOK, RunState, CallState, CallsOf, BoundedCost, Months, BudgetAssumption

\* A call under way whose own record changes, in cost, pricing or lease.
LEMMA CallStepType ==
  ASSUME TypeInv, NEW c \in Calls, call[c].month # 0, NEW v \in CallState,
         v.month = call[c].month, v.protected = call[c].protected,
         v.reserve = call[c].reserve, v.cost <= call[c].cost,
         call' = [call EXCEPT ![c] = v], UNCHANGED ledger
  PROVE  /\ call' \in [Calls -> CallState] /\ CallsKept /\ BoundedCost' /\ UnusedIsBlank'
         /\ ledger' \in [Months -> Ledger] /\ call'[c] = v
         /\ \A m : CallsOf(m)' = CallsOf(m)
         /\ \A m \in Months : ledger'[m].leases \subseteq CallsOf(m)'
  <1>1. \A d \in Calls : call'[d] = IF d = c THEN v ELSE call[d]
    BY DEF TypeInv, TypeOK
  <1>2. \A d \in Calls : /\ call[d].cost \in Nat /\ call[d].reserve \in Nat
                         /\ call[d].cost <= call[d].reserve
    BY BudgetAssumption DEF TypeInv, TypeOK, CallState, BoundedCost, BudgetAssumption
  <1>3. v.cost \in Nat
    BY BudgetAssumption DEF CallState, BudgetAssumption
  <1>4. call' \in [Calls -> CallState]
    BY DEF TypeInv, TypeOK
  <1>5. CallsKept
    BY <1>1, <1>2 DEF CallsKept
  <1>6. BoundedCost'
    BY <1>1, <1>2, <1>3 DEF BoundedCost
  <1>7. \A m : CallsOf(m)' = CallsOf(m)
    BY <1>1 DEF CallsOf
  <1>8. UnusedIsBlank'
    BY <1>1 DEF TypeInv, UnusedIsBlank, Unused
  <1> QED BY <1>1, <1>4, <1>5, <1>6, <1>7, <1>8 DEF TypeInv, TypeOK

\* The steps of a run that leave the calls and the ledger alone.
LEMMA BeginType ==
  ASSUME TypeInv, NEW r \in Runs, NEW q \in Requests[r], Begin(r, q)
  PROVE  TypeInv'
  <1> DEFINE v == [run[r] EXCEPT
        !.pc = IF run[r].seen = NotLoaded THEN "load" ELSE "authorize",
        !.at = month, !.request = q]
  <1>1. run' = [run EXCEPT ![r] = v] /\ UNCHANGED <<month, ledger, usage, call, repeated, faults>>
    BY DEF Begin
  <1>2. q \in Request
    BY BudgetAssumption DEF BudgetAssumption
  <1>3. v \in RunState /\ v.pc \notin Sent
    BY ZenonT(30), <1>2, SentType DEF TypeInv, TypeOK, RunState, PCs, Sent
  <1>4. v.answer # "rejected"
    BY DEF Begin, TypeInv, TypeOK, RunState, RejectedIsFree
  <1> HIDE DEF v
  <1> QED BY <1>1, <1>3, <1>4, QuietType, RunStepType DEF TypeInv, TypeOK, Sent

LEMMA LoadReportType ==
  ASSUME TypeInv, NEW r \in Runs, NEW o, LoadReport(r, o)
  PROVE  TypeInv'
  <1> DEFINE m == run[r].at
             v == IF o = "failed" \/ ledger[m].poisoned THEN Failed(r)
                  ELSE [run[r] EXCEPT !.pc = "authorize",
                                      !.seen = Larger(usage[m], ledger[m].spent)]
  <1>1. /\ run' = [run EXCEPT ![r] = v] /\ CountFault(o)
        /\ UNCHANGED <<month, ledger, usage, call, repeated>>
    BY DEF LoadReport
  <1>2. m \in Months /\ usage[m] \in Nat /\ ledger[m].spent \in Nat
    BY SentType DEF TypeInv, TypeOK, Ledger
  <1>3. Larger(usage[m], ledger[m].spent) \in Nat
    BY <1>2 DEF Larger
  <1>4. v \in RunState /\ v.pc \notin Sent /\ v.answer # "rejected"
    <2>1. run[r].answer # "rejected"
      BY DEF LoadReport, TypeInv, RejectedIsFree
    <2>2. CASE o = "failed" \/ ledger[m].poisoned
      BY <2>2, EndedType DEF Sent
    <2>3. CASE ~(o = "failed" \/ ledger[m].poisoned)
      BY <1>3, <2>1, <2>3, SentType DEF RunState, PCs, Sent
    <2> QED BY <2>2, <2>3
  <1>5. faults' \in 0 .. MaxFaults
    BY <1>1, FaultsType DEF TypeInv, TypeOK
  <1> HIDE DEF v, m
  <1> QED BY <1>1, <1>4, <1>5, QuietType, RunStepType DEF TypeInv, TypeOK, Sent

LEMMA UnreadableType ==
  ASSUME TypeInv, NEW r \in Runs, Unreadable(r)
  PROVE  TypeInv'
  <1> DEFINE v == [Ended(r) EXCEPT !.committed =
                     Ended(r).committed + run[r].request.bound]
  <1>1. run' = [run EXCEPT ![r] = v] /\ UNCHANGED <<month, ledger, usage, call, repeated, faults>>
    BY DEF Unreadable
  <1>2. Ended(r).committed \in Nat /\ run[r].request.bound \in Nat
    BY SentType, EndedType, BudgetAssumption DEF RunState, Request, BudgetAssumption
  <1>3. v \in RunState /\ v.pc \notin Sent /\ v.answer # "rejected"
    <2>1. Ended(r).committed + run[r].request.bound \in Nat
      BY <1>2
    <2> QED BY <2>1, EndedType DEF RunState, Sent
  <1> HIDE DEF v
  <1> QED BY <1>1, <1>3, QuietType, RunStepType DEF TypeInv, TypeOK, Sent

LEMMA AmbiguousType ==
  ASSUME TypeInv, NEW r \in Runs, Ambiguous(r)
  PROVE  TypeInv'
  <1> DEFINE v == [run[r] EXCEPT !.pc = "settle", !.answer = "ambiguous",
                     !.committed = run[r].committed + run[r].request.bound]
  <1>1. /\ run' = [run EXCEPT ![r] = v] /\ run[r].pc \in Sent
        /\ UNCHANGED <<month, ledger, usage, call, repeated, faults>>
    <2>1. run[r].pc \in Sent
      BY DEF Ambiguous, Sent
    <2> QED BY <2>1, Zenon DEF Ambiguous
  <1>2. run[r].committed \in Nat /\ run[r].request.bound \in Nat
    BY SentType, BudgetAssumption DEF RunState, Request, BudgetAssumption
  <1>3. /\ v \in RunState /\ v.answer = "ambiguous"
        /\ v.id = run[r].id /\ v.at = run[r].at
    <2>1. run[r].committed + run[r].request.bound \in Nat
      BY <1>2
    <2> QED BY <2>1, SentType DEF RunState, PCs, Answers
  <1>4. v.id \in Calls /\ call'[v.id].month = v.at
    BY <1>1, <1>3, SentType
  <1> HIDE DEF v
  <1> QED BY <1>1, <1>3, <1>4, QuietType, RunStepType DEF TypeInv, TypeOK

LEMMA RecordType ==
  ASSUME TypeInv, NEW r \in Runs, NEW o, Record(r, o)
  PROVE  TypeInv'
  <1> DEFINE v == [run[r] EXCEPT
        !.committed = run[r].committed + Recorded(r),
        !.pc = IF o \in {"done", "twice"} THEN "settle" ELSE "poison",
        !.poisoned = o \notin {"done", "twice"}]
  <1>1. /\ run' = [run EXCEPT ![r] = v] /\ run[r].pc \in Sent /\ CountFault(o)
        /\ usage' = [usage EXCEPT ![MonthOf(r)] = usage[MonthOf(r)] + Copies(o) * Recorded(r)]
        /\ UNCHANGED <<month, ledger, call, repeated>>
    <2>1. run[r].pc \in Sent
      BY DEF Record, Sent
    <2> QED BY <2>1, Zenon DEF Record
  <1>2. Recorded(r) \in Nat /\ Copies(o) \in Nat /\ MonthOf(r) \in Months
    BY <1>1, SentType DEF Recorded, Copies, MonthOf
  <1>3. Copies(o) * Recorded(r) \in Nat /\ usage[MonthOf(r)] \in Nat
    BY <1>2 DEF TypeInv, TypeOK
  <1>4. usage' \in [Months -> Nat]
    BY <1>1, <1>2, <1>3 DEF TypeInv, TypeOK
  <1>5. run[r].committed + Recorded(r) \in Nat
    BY <1>2, SentType DEF RunState
  <1>6. /\ v \in RunState /\ v.answer # "rejected"
        /\ v.id = run[r].id /\ v.at = run[r].at
    <2>1. run[r].answer # "rejected"
      BY DEF Record, TypeInv, RejectedIsFree
    <2> QED BY <1>5, <2>1, SentType DEF RunState, PCs
  <1>7. v.id \in Calls /\ call'[v.id].month = v.at
    BY <1>1, <1>6, SentType
  <1>8. faults' \in 0 .. MaxFaults
    BY <1>1, FaultsType DEF TypeInv, TypeOK
  <1> HIDE DEF v
  <1> QED BY <1>1, <1>4, <1>6, <1>7, <1>8, QuietType, RunStepType DEF TypeInv, TypeOK

\* The provider's answers change the call under way and nothing else.
LEMMA AnswerType ==
  ASSUME TypeInv, NEW r \in Runs, run[r].pc = "call",
         NEW v \in CallState,
         v.month = call[run[r].id].month, v.protected = call[run[r].id].protected,
         v.reserve = call[run[r].id].reserve, v.cost <= call[run[r].id].cost,
         call' = [call EXCEPT ![run[r].id] = v],
         NEW pc \in {"record", "settle"}, NEW answer \in Answers,
         run' = [run EXCEPT ![r] = [run[r] EXCEPT !.pc = pc, !.answer = answer]],
         answer = "rejected" => pc = "settle" /\ v.cost = 0,
         UNCHANGED <<month, ledger, usage, repeated, faults>>
  PROVE  TypeInv'
  <1> DEFINE w == [run[r] EXCEPT !.pc = pc, !.answer = answer]
  <1>1. run[r].id \in Calls /\ call[run[r].id].month = run[r].at /\ run[r].at # 0
    BY SentType DEF Sent
  <1>2. /\ w \in RunState /\ w.pc = pc /\ w.answer = answer
        /\ w.id = run[r].id /\ w.at = run[r].at
    BY SentType DEF RunState, PCs
  <1>3. /\ call' \in [Calls -> CallState] /\ CallsKept /\ BoundedCost' /\ UnusedIsBlank'
        /\ ledger' \in [Months -> Ledger] /\ call'[run[r].id] = v
        /\ \A m \in Months : ledger'[m].leases \subseteq CallsOf(m)'
    BY <1>1, CallStepType
  <1>4. run' = [run EXCEPT ![r] = w]
    OBVIOUS
  <1>5. w.id \in Calls /\ call'[w.id].month = w.at
    BY <1>1, <1>2, <1>3
  <1>6. w.answer = "rejected" => w.pc = "settle" /\ call'[w.id].cost = 0
    BY <1>2, <1>3
  <1> HIDE DEF w
  <1> QED BY <1>2, <1>3, <1>4, <1>5, <1>6, RunStepType DEF TypeInv, TypeOK

LEMMA PricedType ==
  ASSUME TypeInv, NEW r \in Runs, NEW amount \in 0 .. MaxReserve, Priced(r, amount)
  PROVE  TypeInv'
  <1> DEFINE v == [call[run[r].id] EXCEPT !.cost = amount]
  <1>1. /\ run[r].pc = "call" /\ amount <= call[run[r].id].cost
        /\ call' = [call EXCEPT ![run[r].id] = v]
        /\ run' = [run EXCEPT ![r] = [run[r] EXCEPT !.pc = "record", !.answer = "priced"]]
        /\ UNCHANGED <<month, ledger, usage, repeated, faults>>
    BY DEF Priced
  <1>2. /\ v \in CallState /\ v.month = call[run[r].id].month /\ v.cost = amount
        /\ v.protected = call[run[r].id].protected
        /\ v.reserve = call[run[r].id].reserve
    BY <1>1, SentType DEF CallState, Sent
  <1> HIDE DEF v
  <1> QED BY <1>1, <1>2, AnswerType DEF Answers

LEMMA UnpricedType ==
  ASSUME TypeInv, NEW r \in Runs, Unpriced(r)
  PROVE  TypeInv'
  <1> DEFINE v == [call[run[r].id] EXCEPT !.priced = FALSE]
  <1>1. /\ run[r].pc = "call"
        /\ call' = [call EXCEPT ![run[r].id] = v]
        /\ run' = [run EXCEPT ![r] = [run[r] EXCEPT !.pc = "record", !.answer = "unpriced"]]
        /\ UNCHANGED <<month, ledger, usage, repeated, faults>>
    BY DEF Unpriced
  <1>2. /\ v \in CallState /\ v.month = call[run[r].id].month
        /\ v.cost = call[run[r].id].cost
        /\ v.protected = call[run[r].id].protected
        /\ v.reserve = call[run[r].id].reserve
    BY <1>1, SentType DEF CallState, Sent
  <1>3. v.cost <= call[run[r].id].cost
    BY <1>1, <1>2, SentType DEF Sent
  <1> HIDE DEF v
  <1> QED BY <1>1, <1>2, <1>3, AnswerType DEF Answers

LEMMA RejectedType ==
  ASSUME TypeInv, NEW r \in Runs, Rejected(r)
  PROVE  TypeInv'
  <1> DEFINE v == [call[run[r].id] EXCEPT !.cost = 0]
  <1>1. /\ run[r].pc = "call"
        /\ call' = [call EXCEPT ![run[r].id] = v]
        /\ run' = [run EXCEPT ![r] = [run[r] EXCEPT !.pc = "settle", !.answer = "rejected"]]
        /\ UNCHANGED <<month, ledger, usage, repeated, faults>>
    BY DEF Rejected
  <1>2. /\ v \in CallState /\ v.month = call[run[r].id].month
        /\ v.cost <= call[run[r].id].cost /\ v.cost = 0
        /\ v.protected = call[run[r].id].protected
        /\ v.reserve = call[run[r].id].reserve
    BY <1>1, SentType, BudgetAssumption DEF CallState, Sent, BudgetAssumption
  <1> HIDE DEF v
  <1> QED BY <1>1, <1>2, AnswerType DEF Answers

\* A step that changes one ledger, gives up leases at most, and no call.
LEMMA LedgerStepType ==
  ASSUME TypeInv, UNCHANGED call, NEW m \in Months, NEW N \in Ledger,
         N.leases \subseteq ledger[m].leases, ledger' = [ledger EXCEPT ![m] = N]
  PROVE  /\ call' \in [Calls -> CallState] /\ CallsKept /\ BoundedCost' /\ UnusedIsBlank'
         /\ ledger' \in [Months -> Ledger]
         /\ \A n \in Months : ledger'[n].leases \subseteq CallsOf(n)'
  <1>1. \A c \in Calls : call[c].cost \in Nat
    BY BudgetAssumption DEF TypeInv, TypeOK, CallState, BudgetAssumption
  <1>2. \A n \in Months : ledger'[n] = IF n = m THEN N ELSE ledger[n]
    BY DEF TypeInv, TypeOK
  <1>3. \A n \in Months : ledger'[n].leases \subseteq CallsOf(n)'
    BY <1>2 DEF TypeInv, TypeOK, CallsOf
  <1>4. ledger' \in [Months -> Ledger]
    BY DEF TypeInv, TypeOK
  <1> QED BY <1>1, <1>3, <1>4 DEF TypeInv, TypeOK, BoundedCost, UnusedIsBlank, Unused, CallsKept

LEMMA SettleType ==
  ASSUME TypeInv, NEW r \in Runs, NEW o, Settle(r, o)
  PROVE  TypeInv'
  <1> DEFINE m == MonthOf(r)
             after == IF o = "failed" THEN ledger[m] ELSE SettleScript(ledger[m], r)
             settled == o = "done" /\ run[r].id \in ledger[m].leases
             above == run[r].answer \in {"priced", "unpriced"} /\ after.spent > Cap
             stopped == [run[r] EXCEPT !.pc = "poison", !.poisoned = TRUE]
             w == CASE settled /\ above -> stopped
                    [] settled /\ ~above -> Ended(r)
                    [] OTHER -> Failed(r)
  <1>1. /\ run[r].pc \in Sent /\ CountFault(o)
        /\ ledger' = [ledger EXCEPT ![m] = after] /\ run' = [run EXCEPT ![r] = w]
        /\ UNCHANGED <<month, usage, call, repeated>>
    BY DEF Settle, Sent
  <1>2. m \in Months /\ ledger[m] \in Ledger
    BY SentType DEF MonthOf, TypeInv, TypeOK
  <1>3. after \in Ledger /\ after.leases \subseteq ledger[m].leases
    <2>1. CASE o = "failed"
      BY <1>2, <2>1
    <2>2. CASE o # "failed"
      BY <1>1, <1>2, <2>2, SettleIs
    <2> QED BY <2>1, <2>2
  <1>4. /\ stopped \in RunState /\ stopped.pc = "poison" /\ stopped.answer = run[r].answer
        /\ stopped.id = run[r].id /\ stopped.at = run[r].at
    BY SentType DEF RunState, PCs
  <1>5. /\ w \in RunState
        /\ w.answer # "rejected"
        /\ w.pc \in Sent => w.id \in Calls /\ call'[w.id].month = w.at
    <2>1. CASE settled /\ above
      <3>1. w = stopped
        BY <2>1
      <3>2. run[r].answer \in {"priced", "unpriced"}
        BY <2>1
      <3> HIDE DEF stopped, w
      <3> QED BY <1>1, <1>4, <3>1, <3>2, SentType
    <2>2. CASE ~(settled /\ above)
      <3>1. w = Ended(r) \/ w = Failed(r)
        BY <2>2
      <3> HIDE DEF w
      <3> QED BY <3>1, EndedType DEF Sent
    <2> QED BY <2>1, <2>2
  <1>6. faults' \in 0 .. MaxFaults
    BY <1>1, FaultsType DEF TypeInv, TypeOK
  <1> HIDE DEF w, stopped, above, settled, after, m
  <1>7. /\ call' \in [Calls -> CallState] /\ CallsKept /\ BoundedCost' /\ UnusedIsBlank'
        /\ ledger' \in [Months -> Ledger]
        /\ \A n \in Months : ledger'[n].leases \subseteq CallsOf(n)'
    BY <1>1, <1>2, <1>3, LedgerStepType
  <1> QED BY <1>1, <1>5, <1>6, <1>7, RunStepType DEF TypeInv, TypeOK

LEMMA PoisonType ==
  ASSUME TypeInv, NEW r \in Runs, NEW o, Poison(r, o)
  PROVE  TypeInv'
  <1> DEFINE m == MonthOf(r)
             N == IF o = "failed" THEN ledger[m]
                  ELSE [ledger[m] EXCEPT !.poisoned = TRUE]
  <1>1. m \in Months /\ ledger[m] \in Ledger
    BY SentType DEF MonthOf, TypeInv, TypeOK
  <1>2. N \in Ledger /\ N.leases = ledger[m].leases
    BY <1>1 DEF Ledger
  <1>3. ledger' = [ledger EXCEPT ![m] = N]
    BY <1>1 DEF Poison, TypeInv, TypeOK
  <1>4. run' = [run EXCEPT ![r] = Failed(r)] /\ CountFault(o)
        /\ UNCHANGED <<month, usage, call, repeated>>
    BY DEF Poison
  <1>5. faults' \in 0 .. MaxFaults
    BY <1>4, FaultsType DEF TypeInv, TypeOK
  <1> HIDE DEF N, m
  <1>6. /\ call' \in [Calls -> CallState] /\ CallsKept /\ BoundedCost' /\ UnusedIsBlank'
        /\ ledger' \in [Months -> Ledger]
        /\ \A n \in Months : ledger'[n].leases \subseteq CallsOf(n)'
    BY <1>1, <1>2, <1>3, <1>4, LedgerStepType
  <1>7. Failed(r) \in RunState /\ Failed(r).pc \notin Sent /\ Failed(r).answer # "rejected"
    BY EndedType DEF Sent
  <1> QED BY <1>4, <1>5, <1>6, <1>7, RunStepType DEF TypeInv, TypeOK

LEMMA RestartType ==
  ASSUME TypeInv, NEW r \in Runs, Restart(r)
  PROVE  TypeInv'
  <1>1. faults' \in 0 .. MaxFaults
    BY FaultsType DEF Restart, TypeInv, TypeOK
  <1>2. run' = [run EXCEPT ![r] = NewRun] /\ UNCHANGED <<month, ledger, usage, call, repeated>>
    BY DEF Restart
  <1>3. NewRun \in RunState /\ NewRun.pc \notin Sent /\ NewRun.answer # "rejected"
    BY EndedType DEF Sent
  <1> QED BY <1>1, <1>2, <1>3, QuietType, RunStepType DEF TypeInv, TypeOK

\* The clock's two steps.
LEMMA LeaseRunsOutType ==
  ASSUME TypeInv, NEW c \in Calls, LeaseRunsOut(c)
  PROVE  TypeInv'
  <1> DEFINE v == [call[c] EXCEPT !.due = TRUE]
  <1>1. /\ call' = [call EXCEPT ![c] = v]
        /\ UNCHANGED <<month, ledger, usage, run, repeated, faults>>
    BY DEF LeaseRunsOut
  <1>2. call[c].month # 0
    <2>1. PICK m \in Months : c \in ledger[m].leases
      BY DEF LeaseRunsOut
    <2> QED BY <2>1 DEF TypeInv, TypeOK, CallsOf, Months
  <1>3. /\ v \in CallState /\ v.month = call[c].month /\ v.protected = call[c].protected
        /\ v.reserve = call[c].reserve /\ v.cost = call[c].cost /\ call[c].cost \in Nat
    <2>1. call[c] \in CallState
      BY DEF TypeInv, TypeOK
    <2>2. call[c].cost \in Nat
      BY <2>1, BudgetAssumption DEF CallState, BudgetAssumption
    <2>3. /\ v \in CallState /\ v.month = call[c].month /\ v.protected = call[c].protected
          /\ v.reserve = call[c].reserve /\ v.cost = call[c].cost
      BY <2>1 DEF CallState
    <2> QED BY <2>2, <2>3
  <1> HIDE DEF v
  <1>4. v.cost <= call[c].cost
    BY <1>3
  <1>5. /\ call' \in [Calls -> CallState] /\ CallsKept /\ BoundedCost' /\ UnusedIsBlank'
        /\ ledger' \in [Months -> Ledger] /\ call'[c] = v
        /\ \A m : CallsOf(m)' = CallsOf(m)
        /\ \A m \in Months : ledger'[m].leases \subseteq CallsOf(m)'
    BY <1>1, <1>2, <1>3, <1>4, CallStepType
  <1>6. \A d \in Calls : call'[d].cost = call[d].cost
    BY <1>1, <1>3 DEF TypeInv, TypeOK
  <1>7. TypeOK'
    BY <1>1, <1>5 DEF TypeInv, TypeOK
  <1>8. RejectedIsFree'
    <2> SUFFICES ASSUME NEW s \in Runs, run'[s].answer = "rejected"
                 PROVE  run'[s].pc = "settle" /\ call'[run'[s].id].cost = 0
      BY DEF RejectedIsFree
    <2>1. run'[s] = run[s] /\ run[s].pc = "settle" /\ call[run[s].id].cost = 0
      BY <1>1 DEF TypeInv, RejectedIsFree
    <2>2. run[s].id \in Calls
      BY <2>1, SentType DEF Sent
    <2> QED BY <1>6, <2>1, <2>2
  <1> QED BY <1>5, <1>7, <1>8 DEF TypeInv

LEMMA MonthTurnsType ==
  ASSUME TypeInv, MonthTurns
  PROVE  TypeInv'
  <1>1. month' \in Months
    BY BudgetAssumption DEF MonthTurns, TypeInv, TypeOK, Months, BudgetAssumption
  <1>2. UNCHANGED <<ledger, usage, call, run, repeated, faults>>
    BY DEF MonthTurns
  <1>3. BoundedCost' /\ UnusedIsBlank' /\ RejectedIsFree'
    BY <1>2 DEF TypeInv, BoundedCost, UnusedIsBlank, Unused, RejectedIsFree
  <1> QED BY <1>1, <1>2, <1>3 DEF TypeInv, TypeOK, CallsOf

-------------------------------------------------------------------------------
(* Authorization                                                           *)

\* What an authorization does to the month's ledger, as in Authorize.
Once(r, c) == AuthorizeScript(ledger[MonthOf(r)], r, c)
After(r, o, c) == CASE o = "failed" -> ledger[MonthOf(r)]
                    [] o = "twice" -> AuthorizeScript(Once(r, c), r, c)
                    [] OTHER -> Once(r, c)
Decided(r, o, c) == IF o = "twice" THEN Verdict(Once(r, c), r)
                    ELSE Verdict(ledger[MonthOf(r)], r)
Granted(r, o, c) == o \in {"done", "twice"} /\ Decided(r, o, c) = "AUTHORIZED"
NewCall(r, o, c) ==
  [month |-> MonthOf(r), protected |-> run[r].request.protected,
   reserve |-> run[r].request.reserve,
   cost |-> IF Granted(r, o, c) THEN run[r].request.bound ELSE 0,
   priced |-> TRUE, due |-> FALSE]
Made(r, c) == [run[r] EXCEPT !.pc = "call", !.id = c, !.made = run[r].made \cup {c}]

\* Authorize in those terms.
LEMMA AuthorizeIs ==
  ASSUME NEW r \in Runs, NEW o, NEW c \in Calls, Authorize(r, o, c)
  PROVE  /\ run[r].pc = "authorize" /\ c \in Unused /\ CountFault(o)
         /\ ledger' = [ledger EXCEPT ![MonthOf(r)] = After(r, o, c)]
         /\ call' = IF c \notin After(r, o, c).leases THEN call
                    ELSE [call EXCEPT ![c] = NewCall(r, o, c)]
         /\ \E w \in {Made(r, c), Ended(r), Failed(r)} :
              /\ run' = [run EXCEPT ![r] = w]
              /\ w = Made(r, c) => Granted(r, o, c)
              /\ Granted(r, o, c) => w = Made(r, c)
         /\ repeated' = IF o = "twice" THEN repeated \cup {MonthOf(r)} ELSE repeated
         /\ UNCHANGED <<month, usage>>
  <1> DEFINE refused == o \in {"done", "twice"} /\ Decided(r, o, c) = "EXHAUSTED"
             w == CASE Granted(r, o, c) -> Made(r, c)
                    [] refused -> Ended(r)
                    [] OTHER -> Failed(r)
  <1>1. /\ run[r].pc = "authorize" /\ c \in Unused /\ CountFault(o)
        /\ ledger' = [ledger EXCEPT ![MonthOf(r)] = After(r, o, c)]
        /\ call' = IF c \notin After(r, o, c).leases THEN call
                   ELSE [call EXCEPT ![c] = NewCall(r, o, c)]
        /\ run' = [run EXCEPT ![r] = w]
        /\ repeated' = IF o = "twice" THEN repeated \cup {MonthOf(r)} ELSE repeated
        /\ UNCHANGED <<month, usage>>
    BY Zenon DEF Authorize, Once, After, Decided, Granted, NewCall, Made
  <1>2. w \in {Made(r, c), Ended(r), Failed(r)} /\ (Granted(r, o, c) => w = Made(r, c))
    BY DEF Granted
  <1>3. w = Made(r, c) => Granted(r, o, c)
    BY DEF Made, Ended, Failed, NewRun, Granted
  <1> HIDE DEF w
  <1> QED BY <1>1, <1>2, <1>3, Zenon

\* The ledger an authorization leaves, and the call it makes.
LEMMA AfterType ==
  ASSUME TypeInv, NEW r \in Runs, NEW o, NEW c \in Calls
  PROVE  /\ After(r, o, c) \in Ledger
         /\ After(r, o, c).leases \subseteq ledger[MonthOf(r)].leases \cup {c}
         /\ After(r, o, c).poisoned = ledger[MonthOf(r)].poisoned
         /\ Once(r, c) \in Ledger
         /\ Granted(r, o, c) => c \in After(r, o, c).leases
         /\ NewCall(r, o, c) \in CallState
         /\ NewCall(r, o, c).cost <= NewCall(r, o, c).reserve
         /\ NewCall(r, o, c).month = MonthOf(r) /\ MonthOf(r) # 0
  <1>1. /\ MonthOf(r) \in Months /\ ledger[MonthOf(r)] \in Ledger
        /\ MonthOf(r) # 0 /\ run[r].request \in Request
    BY SentType DEF MonthOf, TypeInv, TypeOK, Months, RunState
  <1> HIDE DEF MonthOf
  <1>2. /\ Once(r, c) \in Ledger
        /\ Once(r, c).leases \subseteq ledger[MonthOf(r)].leases \cup {c}
        /\ Once(r, c).poisoned = ledger[MonthOf(r)].poisoned
    BY <1>1, ScriptType, ZenonT(30) DEF Once
  <1>3. /\ After(r, o, c) \in Ledger
        /\ After(r, o, c).leases \subseteq ledger[MonthOf(r)].leases \cup {c}
        /\ After(r, o, c).poisoned = ledger[MonthOf(r)].poisoned
    <2>1. CASE o = "failed"
      BY <1>1, <2>1 DEF After
    <2>2. CASE o = "twice"
      BY <1>2, <2>2, ScriptType DEF After
    <2>3. CASE o # "failed" /\ o # "twice"
      BY <1>2, <2>3 DEF After
    <2> QED BY <2>1, <2>2, <2>3
  <1>4. Granted(r, o, c) => c \in After(r, o, c).leases
    <2>1. CASE o = "twice" /\ Verdict(Once(r, c), r) = "AUTHORIZED"
      BY <1>2, <2>1, ScriptIs DEF After
    <2>2. CASE o = "done" /\ Verdict(ledger[MonthOf(r)], r) = "AUTHORIZED"
      BY <1>1, <2>2, ScriptIs DEF After, Once
    <2> QED BY <2>1, <2>2 DEF Granted, Decided
  <1>5. /\ run[r].request.bound \in 0 .. MaxReserve
        /\ run[r].request.reserve \in 0 .. MaxReserve
        /\ run[r].request.bound <= run[r].request.reserve
        /\ run[r].request.protected \in BOOLEAN
        /\ 0 \in 0 .. MaxReserve /\ 0 <= run[r].request.reserve
    BY <1>1, BudgetAssumption DEF Request, BudgetAssumption
  <1>6. /\ NewCall(r, o, c) \in CallState
        /\ NewCall(r, o, c).cost <= NewCall(r, o, c).reserve
        /\ NewCall(r, o, c).month = MonthOf(r)
    <2> DEFINE b == IF Granted(r, o, c) THEN run[r].request.bound ELSE 0
    <2>1. b \in 0 .. MaxReserve /\ b <= run[r].request.reserve
      BY <1>5
    <2>2. NewCall(r, o, c) =
            [month |-> MonthOf(r), protected |-> run[r].request.protected,
             reserve |-> run[r].request.reserve, cost |-> b,
             priced |-> TRUE, due |-> FALSE]
      BY DEF NewCall
    <2> HIDE DEF b
    <2> QED BY <1>1, <1>5, <2>1, <2>2 DEF CallState
  <1> QED BY <1>1, <1>2, <1>3, <1>4, <1>6

\* What an authorization leaves of the calls.
LEMMA AuthorizedCalls ==
  ASSUME TypeInv, NEW r \in Runs, NEW o, NEW c \in Calls, Authorize(r, o, c)
  PROVE  /\ call' \in [Calls -> CallState] /\ CallsKept /\ BoundedCost' /\ UnusedIsBlank'
         /\ ledger' \in [Months -> Ledger]
         /\ \A m \in Months : ledger'[m].leases \subseteq CallsOf(m)'
         /\ \A d \in Calls : d # c => call'[d] = call[d]
         /\ c \in After(r, o, c).leases => call'[c] = NewCall(r, o, c)
         /\ c \notin After(r, o, c).leases => call'[c] = call[c]
         /\ call[c] = NoCall /\ call[c].month = 0
         /\ \A m \in Months : m # MonthOf(r) =>
              ledger'[m] = ledger[m] /\ CallsOf(m)' = CallsOf(m)
         /\ ledger'[MonthOf(r)] = After(r, o, c)
         /\ \A m \in Months : m = MonthOf(r) =>
              CallsOf(m)' = IF c \in After(r, o, c).leases
                            THEN CallsOf(m) \cup {c} ELSE CallsOf(m)
  <1>1. /\ c \in Unused
        /\ ledger' = [ledger EXCEPT ![MonthOf(r)] = After(r, o, c)]
        /\ call' = IF c \notin After(r, o, c).leases THEN call
                   ELSE [call EXCEPT ![c] = NewCall(r, o, c)]
    BY AuthorizeIs
  <1>2. MonthOf(r) \in Months
    BY SentType DEF MonthOf
  <1>3. /\ After(r, o, c) \in Ledger
        /\ After(r, o, c).leases \subseteq ledger[MonthOf(r)].leases \cup {c}
        /\ NewCall(r, o, c) \in CallState
        /\ NewCall(r, o, c).cost <= NewCall(r, o, c).reserve
        /\ NewCall(r, o, c).month = MonthOf(r) /\ MonthOf(r) # 0
    BY AfterType
  <1> HIDE DEF MonthOf
  <1>4. /\ call \in [Calls -> CallState] /\ ledger \in [Months -> Ledger]
        /\ \A m \in Months : ledger[m].leases \subseteq CallsOf(m)
    BY DEF TypeInv, TypeOK
  <1>5. /\ \A d \in Calls : d # c => call'[d] = call[d]
        /\ c \in After(r, o, c).leases => call'[c] = NewCall(r, o, c)
        /\ c \notin After(r, o, c).leases => call'[c] = call[c]
        /\ call' \in [Calls -> CallState]
    BY <1>1, <1>3, <1>4
  <1>6. call[c] = NoCall /\ call[c].month = 0
    BY <1>1 DEF TypeInv, UnusedIsBlank, Unused
  <1>7. \A d \in Calls : call[d].cost \in Nat /\ call[d].cost <= call[d].reserve
    BY BudgetAssumption DEF TypeInv, TypeOK, CallState, BoundedCost, BudgetAssumption
  <1>8. CallsKept
    <2> SUFFICES ASSUME NEW d \in Calls, call[d].month # 0
                 PROVE  /\ call'[d] = call[d]
                        /\ call'[d].cost <= call[d].cost
      BY DEF CallsKept
    <2>1. d # c
      BY <1>6
    <2> QED BY <1>5, <1>7, <2>1
  <1>9. BoundedCost'
    BY <1>3, <1>5, <1>7 DEF BoundedCost
  <1>10. UnusedIsBlank'
    <2> SUFFICES ASSUME NEW d \in Calls, call'[d].month = 0 PROVE call'[d] = NoCall
      BY DEF UnusedIsBlank, Unused
    <2>1. call'[d] = call[d]
      BY <1>3, <1>5
    <2> QED BY <2>1 DEF TypeInv, UnusedIsBlank, Unused
  <1>11. /\ \A m \in Months : m # MonthOf(r) =>
              ledger'[m] = ledger[m] /\ CallsOf(m)' = CallsOf(m)
         /\ ledger'[MonthOf(r)] = After(r, o, c)
         /\ ledger' \in [Months -> Ledger]
    <2>1. /\ \A m \in Months : m # MonthOf(r) => ledger'[m] = ledger[m]
          /\ ledger'[MonthOf(r)] = After(r, o, c)
          /\ ledger' \in [Months -> Ledger]
      BY <1>1, <1>2, <1>3, <1>4
    <2>2. ASSUME NEW m \in Months, m # MonthOf(r) PROVE CallsOf(m)' = CallsOf(m)
      <3>1. \A d \in Calls : call'[d].month = m <=> call[d].month = m
        BY <1>3, <1>5, <1>6, <2>2 DEF Months
      <3> QED BY <3>1 DEF CallsOf
    <2> QED BY <2>1, <2>2
  <1>12. /\ \A m \in Months : m = MonthOf(r) =>
              CallsOf(m)' = IF c \in After(r, o, c).leases
                            THEN CallsOf(m) \cup {c} ELSE CallsOf(m)
    <2> SUFFICES ASSUME NEW m \in Months, m = MonthOf(r)
                 PROVE  CallsOf(m)' = IF c \in After(r, o, c).leases
                                      THEN CallsOf(m) \cup {c} ELSE CallsOf(m)
      OBVIOUS
    <2>1. CASE c \in After(r, o, c).leases
      <3>1. \A d \in Calls : call'[d].month = m <=> call[d].month = m \/ d = c
        BY <1>3, <1>5, <2>1
      <3> QED BY <2>1, <3>1 DEF CallsOf
    <2>2. CASE c \notin After(r, o, c).leases
      <3>1. \A d \in Calls : call'[d] = call[d]
        BY <1>5, <2>2
      <3> QED BY <2>2, <3>1 DEF CallsOf
    <2> QED BY <2>1, <2>2
  <1>13. \A m \in Months : ledger'[m].leases \subseteq CallsOf(m)'
    <2> SUFFICES ASSUME NEW m \in Months PROVE ledger'[m].leases \subseteq CallsOf(m)'
      OBVIOUS
    <2>1. CASE m # MonthOf(r)
      BY <1>4, <1>11, <2>1
    <2>2. CASE m = MonthOf(r)
      BY <1>3, <1>4, <1>11, <1>12, <2>2
    <2> QED BY <2>1, <2>2
  <1> QED BY <1>5, <1>6, <1>8, <1>9, <1>10, <1>11, <1>12, <1>13

LEMMA AuthorizeType ==
  ASSUME TypeInv, NEW r \in Runs, NEW o, NEW c \in Calls, Authorize(r, o, c)
  PROVE  TypeInv'
  <1>1. PICK w \in {Made(r, c), Ended(r), Failed(r)} :
          /\ run' = [run EXCEPT ![r] = w]
          /\ w = Made(r, c) => Granted(r, o, c)
    BY AuthorizeIs
  <1>2. /\ CountFault(o) /\ UNCHANGED <<month, usage>>
        /\ repeated' = IF o = "twice" THEN repeated \cup {MonthOf(r)} ELSE repeated
        /\ run[r].pc = "authorize"
    BY AuthorizeIs
  <1>3. faults' \in 0 .. MaxFaults
    BY <1>2, FaultsType DEF TypeInv, TypeOK
  <1>4. repeated' \subseteq Months
    BY <1>2, SentType DEF MonthOf, TypeInv, TypeOK
  <1>5. /\ w \in RunState /\ w.answer # "rejected"
        /\ w.pc \in Sent => w.id \in Calls /\ call'[w.id].month = w.at
    <2>1. CASE w = Made(r, c)
      <3>1. run[r].made \cup {c} \in SUBSET Calls /\ run[r] \in RunState
        BY SentType DEF RunState
      <3>2. /\ w \in RunState /\ w.id = c /\ w.at = run[r].at
            /\ w.answer = run[r].answer
        BY <2>1, <3>1 DEF Made, RunState, PCs
      <3>3. call'[c].month = run[r].at
        BY <1>1, <2>1, AfterType, AuthorizedCalls DEF MonthOf
      <3>4. run[r].answer # "rejected"
        BY <1>2 DEF TypeInv, RejectedIsFree
      <3> QED BY <3>2, <3>3, <3>4
    <2>2. CASE w \in {Ended(r), Failed(r)}
      BY <2>2, EndedType DEF Sent
    <2> QED BY <2>1, <2>2
  <1>6. /\ call' \in [Calls -> CallState] /\ CallsKept /\ BoundedCost' /\ UnusedIsBlank'
        /\ ledger' \in [Months -> Ledger]
        /\ \A m \in Months : ledger'[m].leases \subseteq CallsOf(m)'
    BY AuthorizedCalls
  <1>7. usage' \in [Months -> Nat] /\ month' = month
    BY <1>2 DEF TypeInv, TypeOK
  <1> HIDE DEF CallsOf
  <1> QED BY <1>1, <1>3, <1>4, <1>5, <1>6, <1>7, RunStepType

-------------------------------------------------------------------------------
(* Type correctness                                                        *)

LEMMA TypeInit == Init => TypeInv
  <1> SUFFICES ASSUME Init PROVE TypeInv
    OBVIOUS
  <1>1. 1 \in Months /\ 0 \in 0 .. MaxReserve /\ 0 \in 0 .. MaxFaults
    BY BudgetAssumption DEF Months, BudgetAssumption
  <1>2. NoCall \in CallState /\ NoCall.cost = 0 /\ NoCall.reserve = 0
    BY <1>1 DEF NoCall, CallState
  <1>3. NoRequest \in Request
    BY <1>1 DEF Request, NoRequest
  <1>4. NewRun \in RunState /\ NewRun.pc = "idle" /\ NewRun.answer = "none"
    BY <1>1, <1>3 DEF NewRun, RunState, PCs, Answers
  <1>5. EmptyLedger \in Ledger /\ EmptyLedger.leases = {}
    BY DEF EmptyLedger, Ledger
  <1>6. TypeOK
    BY <1>1, <1>2, <1>4, <1>5 DEF Init, TypeOK, Sent
  <1>7. BoundedCost /\ UnusedIsBlank
    BY <1>2 DEF Init, BoundedCost, UnusedIsBlank, Unused
  <1>8. RejectedIsFree
    BY <1>4 DEF Init, RejectedIsFree
  <1> QED BY <1>6, <1>7, <1>8 DEF TypeInv

LEMMA TypeStep == TypeInv /\ [Next]_vars => TypeInv'
  <1> SUFFICES ASSUME TypeInv, [Next]_vars PROVE TypeInv'
    OBVIOUS
  <1>1. CASE UNCHANGED vars
    BY <1>1 DEF vars, TypeInv, TypeOK, BoundedCost, UnusedIsBlank, Unused,
                RejectedIsFree, CallsOf
  <1>2. ASSUME NEW r \in Runs, RunStep(r) PROVE TypeInv'
    <2>1. ASSUME NEW q \in Requests[r], Begin(r, q) PROVE TypeInv'
      BY <2>1, BeginType
    <2>2. ASSUME NEW o \in Outcomes, LoadReport(r, o) PROVE TypeInv'
      BY <2>2, LoadReportType
    <2>3. ASSUME NEW o \in Outcomes, Record(r, o) PROVE TypeInv'
      BY <2>3, RecordType
    <2>4. ASSUME NEW o \in Outcomes, Settle(r, o) PROVE TypeInv'
      BY <2>4, SettleType
    <2>5. ASSUME NEW o \in Outcomes, Poison(r, o) PROVE TypeInv'
      BY <2>5, PoisonType
    <2>6. ASSUME NEW o \in Outcomes, NEW c \in Calls, Authorize(r, o, c) PROVE TypeInv'
      BY <2>6, AuthorizeType
    <2>7. ASSUME NEW amount \in 0 .. MaxReserve, Priced(r, amount) PROVE TypeInv'
      BY <2>7, PricedType
    <2>8. CASE Unpriced(r) \/ Unreadable(r) \/ Rejected(r) \/ Ambiguous(r) \/ Restart(r)
      BY <2>8, UnpricedType, UnreadableType, RejectedType, AmbiguousType, RestartType
    <2> QED BY <1>2, <2>1, <2>2, <2>3, <2>4, <2>5, <2>6, <2>7, <2>8, Zenon DEF RunStep
  <1>3. ASSUME NEW c \in Calls, LeaseRunsOut(c) PROVE TypeInv'
    BY <1>3, LeaseRunsOutType
  <1>4. CASE MonthTurns
    BY <1>4, MonthTurnsType
  <1> QED BY <1>1, <1>2, <1>3, <1>4 DEF Next

\* Every value has its type, a lease is in the ledger of its call's month, and
\* a call under way was authorised in the month its run will settle.
THEOREM TypeCorrect == Spec => []TypeOK
  <1>1. TypeInv => TypeOK
    BY DEF TypeInv
  <1> QED BY <1>1, TypeInit, TypeStep, PTL DEF Spec

-------------------------------------------------------------------------------
(* A ledger that covers its calls                                          *)
(*                                                                         *)
(* What is reserved holds the leases, and what is spent and reserved holds *)
(* the leases and the cost of every call without one.                      *)

BackedBy(reserve, cost, C, L) ==
  /\ Total(reserve, L.leases) <= L.reserved
  /\ Total(cost, C \ L.leases) + Total(reserve, L.leases) <= L.spent + L.reserved
Backed == \A m \in Months : BackedBy(Reserve, Cost, CallsOf(m), ledger[m])

\* The same while call c, not yet recorded, may hold a lease worth q.
Pending(L, c, q) == IF c \in L.leases THEN q ELSE 0
Covers(L, c, q, m) ==
  /\ L.leases \subseteq CallsOf(m) \cup {c}
  /\ Total(Reserve, L.leases) + Pending(L, c, q) <= L.reserved
  /\ Total(Cost, CallsOf(m) \ L.leases) + Total(Reserve, L.leases) + Pending(L, c, q)
       <= L.spent + L.reserved

\* Such a ledger holds the cost of every call of the month.
LEMMA CoversCost ==
  ASSUME TypeInv, NEW L \in Ledger, NEW c \in Calls, NEW q \in Nat, NEW m \in Months,
         Covers(L, c, q, m), c \notin CallsOf(m)
  PROVE  Total(Cost, CallsOf(m)) + Pending(L, c, q) <= L.spent + L.reserved
  <1> DEFINE C == CallsOf(m)
             H == L.leases
  <1>1. C \in SUBSET Calls /\ H \in SUBSET Calls /\ H \cap C \in SUBSET H
        /\ H \cap C \in SUBSET C /\ C \ (H \cap C) = C \ H
        /\ C \ H \in SUBSET Calls /\ H \cap C \in SUBSET Calls
    BY DEF CallsOf, Ledger
  <1>2. /\ Reserve \in Amounts /\ Cost \in Amounts
        /\ \A d \in Calls : Cost[d] <= Reserve[d]
    BY AmountsType
  <1>3. Total(Cost, C) = Total(Cost, C \ H) + Total(Cost, H \cap C)
    BY <1>1, <1>2, SpendWithout
  <1>4. Total(Cost, H \cap C) <= Total(Reserve, H)
    BY <1>1, <1>2, SpendGrows
  <1>5. /\ Total(Cost, C \ H) \in Nat /\ Total(Cost, H \cap C) \in Nat
        /\ Total(Reserve, H) \in Nat
    BY <1>1, <1>2, SpendType
  <1>6. Pending(L, c, q) \in Nat /\ L.spent \in Nat /\ L.reserved \in Nat
    BY DEF Pending, Ledger
  <1>7. Total(Cost, C \ H) + Total(Reserve, H) + Pending(L, c, q) <= L.spent + L.reserved
    BY DEF Covers
  <1> HIDE DEF C, H
  <1>8. Total(Cost, C) + Pending(L, c, q) <= L.spent + L.reserved
    BY <1>3, <1>4, <1>5, <1>6, <1>7
  <1> QED BY <1>8 DEF C

\* The expired leases: what they were worth, and what giving them up does.
LEMMA DueSums ==
  ASSUME TypeInv, NEW L \in Ledger, NEW c \in Calls, NEW q \in Nat, NEW m \in Months,
         Covers(L, c, q, m), c \notin CallsOf(m), ~call[c].due
  PROVE  LET D == Due(L)
             H == L.leases \ D
         IN
         /\ Total(Reserve, D) \in Nat /\ Total(Reserve, H) \in Nat
         /\ Total(Reserve, L.leases) = Total(Reserve, H) + Total(Reserve, D)
         /\ Total(Reserve, D) <= L.reserved
         /\ Total(Cost, CallsOf(m) \ L.leases) \in Nat
         /\ Total(Cost, CallsOf(m) \ H) \in Nat
         /\ Total(Cost, CallsOf(m) \ H) <= Total(Cost, CallsOf(m) \ L.leases) + Total(Reserve, D)
         /\ c \in H <=> c \in L.leases
         /\ H \in SUBSET Calls /\ H \subseteq CallsOf(m) \cup {c}
  <1> DEFINE C == CallsOf(m)
             D == Due(L)
             H == L.leases \ D
             F == C \ L.leases
  <1>1. /\ C \in SUBSET Calls /\ L.leases \in SUBSET Calls
        /\ L.leases \subseteq C \cup {c}
    BY DEF CallsOf, Ledger, Covers
  <1>2. /\ D \in SUBSET L.leases /\ c \notin D
    BY DEF Due
  <1>3. /\ D \in SUBSET Calls /\ H \in SUBSET Calls /\ F \in SUBSET Calls
        /\ C \ H = F \cup D /\ F \cap D = {} /\ C \ H \in SUBSET Calls
        /\ c \in H <=> c \in L.leases
    BY <1>1, <1>2
  <1>4. /\ Reserve \in Amounts /\ Cost \in Amounts
        /\ \A d \in Calls : Cost[d] <= Reserve[d]
    BY AmountsType
  <1> HIDE DEF D, C
  <1>5. Total(Reserve, L.leases) = Total(Reserve, H) + Total(Reserve, D)
    BY <1>1, <1>2, <1>4, SpendWithout
  <1> HIDE DEF H, F
  <1>6. Total(Cost, C \ H) = Total(Cost, F) + Total(Cost, D)
    BY <1>3, <1>4, SpendSplits
  <1>7. Total(Cost, D) <= Total(Reserve, D)
    BY <1>3, <1>4, SpendGrows
  <1>8. /\ Total(Reserve, D) \in Nat /\ Total(Reserve, H) \in Nat
        /\ Total(Cost, F) \in Nat /\ Total(Cost, D) \in Nat /\ Total(Cost, C \ H) \in Nat
    BY <1>3, <1>4, SpendType
  <1>9. Pending(L, c, q) \in Nat /\ L.reserved \in Nat
        /\ Total(Reserve, L.leases) + Pending(L, c, q) <= L.reserved
    BY DEF Pending, Ledger, Covers
  <1>10. /\ Total(Reserve, D) <= L.reserved
         /\ Total(Cost, C \ H) <= Total(Cost, F) + Total(Reserve, D)
    BY <1>5, <1>6, <1>7, <1>8, <1>9
  <1>11. H \subseteq C \cup {c}
    BY <1>1 DEF H
  <1> QED BY <1>3, <1>5, <1>8, <1>10, <1>11 DEF C, D, H, F

\* The sweep keeps the ledger covered.
LEMMA SweptCovers ==
  ASSUME TypeInv, NEW L \in Ledger, NEW c \in Calls, NEW q \in Nat, NEW m \in Months,
         Covers(L, c, q, m), c \notin CallsOf(m), ~call[c].due
  PROVE  Covers(Swept(L), c, q, m)
  <1> DEFINE D == Due(L)
             H == L.leases \ D
             S == Swept(L)
  <1>1. /\ S \in Ledger /\ S.leases = H
        /\ S.reserved = Without(L.reserved, Total(Reserve, D))
        /\ S.spent = L.spent + Total(Reserve, D)
    BY SweptIs
  <1>2. /\ Total(Reserve, D) \in Nat /\ Total(Reserve, H) \in Nat
        /\ Total(Reserve, L.leases) = Total(Reserve, H) + Total(Reserve, D)
        /\ Total(Reserve, D) <= L.reserved
        /\ Total(Cost, CallsOf(m) \ L.leases) \in Nat
        /\ Total(Cost, CallsOf(m) \ H) \in Nat
        /\ Total(Cost, CallsOf(m) \ H) <= Total(Cost, CallsOf(m) \ L.leases) + Total(Reserve, D)
        /\ c \in H <=> c \in L.leases
        /\ H \subseteq CallsOf(m) \cup {c}
    BY DueSums
  <1>3. L.spent \in Nat /\ L.reserved \in Nat /\ Pending(L, c, q) \in Nat
    BY DEF Ledger, Pending
  <1> HIDE DEF S, H, D
  <1>4. S.reserved = L.reserved - Total(Reserve, D)
    BY <1>1, <1>2, <1>3, WithoutType
  <1>5. Pending(S, c, q) = Pending(L, c, q)
    BY <1>1, <1>2 DEF Pending
  <1>6. /\ Total(Reserve, L.leases) + Pending(L, c, q) <= L.reserved
        /\ Total(Cost, CallsOf(m) \ L.leases) + Total(Reserve, L.leases) + Pending(L, c, q)
             <= L.spent + L.reserved
    BY DEF Covers
  <1>7. Total(Reserve, H) + Pending(L, c, q) <= L.reserved - Total(Reserve, D)
    BY <1>2, <1>3, <1>6
  <1>8. Total(Cost, CallsOf(m) \ H) + Total(Reserve, H) + Pending(L, c, q)
          <= L.spent + Total(Reserve, D) + (L.reserved - Total(Reserve, D))
    BY <1>2, <1>3, <1>6
  <1>9. Covers(S, c, q, m)
    BY <1>1, <1>2, <1>4, <1>5, <1>7, <1>8 DEF Covers
  <1> QED BY <1>9 DEF S

\* A call nobody has made weighs nothing.
LEMMA BlankWeighsNothing ==
  ASSUME TypeInv, NEW c \in Calls, call[c] = NoCall, NEW H \in SUBSET Calls
  PROVE  Total(Reserve, H \cup {c}) = Total(Reserve, H)
  <1>1. Reserve \in Amounts /\ Reserve[c] = 0
    BY AmountsType DEF NoCall
  <1>2. CASE c \in H
    <2>1. H \cup {c} = H
      BY <1>2
    <2> QED BY <2>1
  <1>3. CASE c \notin H
    <2>1. Total(Reserve, H \cup {c}) = Total(Reserve, H) + Total(Reserve, {c})
      BY <1>1, <1>3, SpendSplits
    <2>2. Total(Reserve, {c}) = 0 /\ Total(Reserve, H) \in Nat
      BY <1>1, SpendOfOne, SpendType
    <2> QED BY <2>1, <2>2
  <1> QED BY <1>2, <1>3

\* AUTHORIZE_SCRIPT keeps the ledger covered, with the new lease or without.
LEMMA ScriptCovers ==
  ASSUME TypeInv, NEW r \in Runs, NEW c \in Calls, call[c] = NoCall,
         NEW L \in Ledger, NEW m \in Months,
         Covers(L, c, run[r].request.reserve, m)
  PROVE  Covers(AuthorizeScript(L, r, c), c, run[r].request.reserve, m)
  <1> DEFINE q == run[r].request.reserve
             N == AuthorizeScript(L, r, c)
             S == Swept(L)
             H == L.leases \ Due(L)
  <1>1. q \in Nat
    BY SentType, BudgetAssumption DEF RunState, Request, BudgetAssumption
  <1>2. c \notin CallsOf(m) /\ ~call[c].due
    BY DEF CallsOf, NoCall, Months
  <1>3. S \in Ledger /\ S.leases = H /\ Covers(L, c, q, m)
    BY SweptIs
  <1>4. Covers(S, c, q, m)
    BY <1>1, <1>2, SweptCovers
  <1>5. /\ N \in Ledger /\ Spent(L, r) \in Nat /\ Spent(L, r) >= S.spent
        /\ Verdict(L, r) = "POISONED" =>
             N.leases = H /\ N.reserved = L.reserved /\ N.spent = L.spent
        /\ Verdict(L, r) = "EXHAUSTED" =>
             N.leases = H /\ N.reserved = S.reserved /\ N.spent = Spent(L, r)
        /\ Verdict(L, r) = "AUTHORIZED" =>
             /\ N.leases = H \cup {c} /\ N.reserved = S.reserved + q
             /\ N.spent = Spent(L, r)
    BY ScriptIs
  <1> HIDE DEF q, N, S
  <1>6. /\ Total(Reserve, Due(L)) \in Nat /\ Total(Reserve, H) \in Nat
        /\ Total(Reserve, L.leases) = Total(Reserve, H) + Total(Reserve, Due(L))
        /\ Total(Cost, CallsOf(m) \ L.leases) \in Nat
        /\ Total(Cost, CallsOf(m) \ H) \in Nat
        /\ Total(Cost, CallsOf(m) \ H)
             <= Total(Cost, CallsOf(m) \ L.leases) + Total(Reserve, Due(L))
        /\ c \in H <=> c \in L.leases
        /\ H \in SUBSET Calls /\ H \subseteq CallsOf(m) \cup {c}
    BY <1>1, <1>2, <1>3, DueSums
  <1>7. Total(Reserve, H \cup {c}) = Total(Reserve, H)
    BY <1>6, BlankWeighsNothing
  <1>8. CallsOf(m) \ (H \cup {c}) = CallsOf(m) \ H
    BY <1>2
  <1>9. /\ L.spent \in Nat /\ L.reserved \in Nat
        /\ S.spent \in Nat /\ S.reserved \in Nat
    BY <1>3 DEF Ledger
  <1>10. /\ Total(Reserve, L.leases) + Pending(L, c, q) <= L.reserved
         /\ Total(Cost, CallsOf(m) \ L.leases) + Total(Reserve, L.leases) + Pending(L, c, q)
              <= L.spent + L.reserved
    BY <1>3 DEF Covers
  <1>11. /\ Total(Reserve, H) + Pending(S, c, q) <= S.reserved
         /\ Total(Cost, CallsOf(m) \ H) + Total(Reserve, H) + Pending(S, c, q)
              <= S.spent + S.reserved
    BY <1>3, <1>4 DEF Covers
  <1>12. Pending(S, c, q) = Pending(L, c, q) /\ Pending(L, c, q) \in {0, q}
    BY <1>3, <1>6 DEF Pending
  <1> HIDE DEF H
  <1>13. CASE Verdict(L, r) = "POISONED"
    <2>1. Pending(N, c, q) = Pending(L, c, q)
      BY <1>5, <1>6, <1>13 DEF Pending
    <2>2. /\ Total(Reserve, H) + Pending(L, c, q) <= L.reserved
          /\ Total(Cost, CallsOf(m) \ H) + Total(Reserve, H) + Pending(L, c, q)
               <= L.spent + L.reserved
      BY <1>1, <1>6, <1>9, <1>10, <1>12
    <2> QED BY <1>5, <1>6, <1>13, <2>1, <2>2 DEF Covers, N, q
  <1>14. CASE Verdict(L, r) = "EXHAUSTED"
    <2>1. Pending(N, c, q) = Pending(S, c, q)
      BY <1>5, <1>6, <1>12, <1>14 DEF Pending
    <2>2. Total(Cost, CallsOf(m) \ H) + Total(Reserve, H) + Pending(S, c, q)
            <= Spent(L, r) + S.reserved
      BY <1>1, <1>5, <1>6, <1>9, <1>11, <1>12
    <2> QED BY <1>5, <1>6, <1>11, <1>14, <2>1, <2>2 DEF Covers, N, q
  <1>15. CASE Verdict(L, r) = "AUTHORIZED"
    <2>1. Pending(N, c, q) = q
      BY <1>5, <1>15 DEF Pending
    <2>2. /\ Total(Reserve, H) + q <= S.reserved + q
          /\ Total(Cost, CallsOf(m) \ H) + Total(Reserve, H) + q
               <= Spent(L, r) + (S.reserved + q)
      BY <1>1, <1>5, <1>6, <1>9, <1>11, <1>12
    <2>3. N.leases \subseteq CallsOf(m) \cup {c}
      BY <1>5, <1>6, <1>15
    <2>4. /\ Total(Reserve, N.leases) = Total(Reserve, H)
          /\ CallsOf(m) \ N.leases = CallsOf(m) \ H
      BY <1>5, <1>7, <1>8, <1>15
    <2>5. N.reserved = S.reserved + q /\ N.spent = Spent(L, r)
      BY <1>5, <1>15
    <2> QED BY <2>1, <2>2, <2>3, <2>4, <2>5 DEF Covers, N, q
  <1>16. Verdict(L, r) \in {"POISONED", "EXHAUSTED", "AUTHORIZED"}
    BY DEF Verdict
  <1> QED BY <1>13, <1>14, <1>15, <1>16

\* The ledger a month starts an authorization from, and the one it leaves.
LEMMA BeforeCovers ==
  ASSUME TypeInv, Backed, NEW c \in Calls, call[c] = NoCall, NEW m \in Months, NEW q \in Nat
  PROVE  Covers(ledger[m], c, q, m)
  <1>1. /\ ledger[m].leases \subseteq CallsOf(m) /\ c \notin CallsOf(m)
        /\ BackedBy(Reserve, Cost, CallsOf(m), ledger[m]) /\ ledger[m] \in Ledger
    BY DEF TypeInv, TypeOK, CallsOf, Backed, NoCall, Months
  <1>2. Pending(ledger[m], c, q) = 0
    BY <1>1 DEF Pending
  <1>3. /\ Total(Reserve, ledger[m].leases) \in Nat
        /\ Total(Cost, CallsOf(m) \ ledger[m].leases) \in Nat
    <2>1. ledger[m].leases \in SUBSET Calls /\ CallsOf(m) \ ledger[m].leases \in SUBSET Calls
      BY <1>1 DEF Ledger, CallsOf
    <2> QED BY <2>1, AmountsType, SpendType
  <1> QED BY <1>1, <1>2, <1>3 DEF Covers, BackedBy

LEMMA AfterCovers ==
  ASSUME TypeInv, Backed, NEW r \in Runs, NEW o, NEW c \in Calls, call[c] = NoCall
  PROVE  /\ Covers(After(r, o, c), c, run[r].request.reserve, MonthOf(r))
         /\ Covers(Once(r, c), c, run[r].request.reserve, MonthOf(r))
         /\ Covers(ledger[MonthOf(r)], c, run[r].request.reserve, MonthOf(r))
  <1>1. MonthOf(r) \in Months /\ ledger[MonthOf(r)] \in Ledger
    BY SentType DEF MonthOf, TypeInv, TypeOK
  <1>2. run[r].request.reserve \in Nat
    BY SentType, BudgetAssumption DEF RunState, Request, BudgetAssumption
  <1> HIDE DEF MonthOf
  <1>3. Covers(ledger[MonthOf(r)], c, run[r].request.reserve, MonthOf(r))
    BY <1>1, <1>2, BeforeCovers
  <1>4. Covers(Once(r, c), c, run[r].request.reserve, MonthOf(r)) /\ Once(r, c) \in Ledger
    BY <1>1, <1>3, ScriptCovers, AfterType DEF Once
  <1>5. Covers(AuthorizeScript(Once(r, c), r, c), c, run[r].request.reserve, MonthOf(r))
    BY <1>1, <1>4, ScriptCovers
  <1> QED BY <1>3, <1>4, <1>5 DEF After

\* The amounts after a step, and the sums of the next state written in them.
LEMMA NextAmounts == ASSUME TypeInv'
  PROVE /\ Reserve' \in Amounts /\ Cost' \in Amounts
        /\ \A c \in Calls : Reserve'[c] = call'[c].reserve /\ Cost'[c] = call'[c].cost
        /\ \A c \in Calls : Cost'[c] <= Reserve'[c]
  BY DEF TypeInv, TypeOK, BoundedCost, CallState, Reserve, Cost, Amounts

LEMMA NextBacked ==
  ASSUME \A m \in Months :
           /\ Total(Reserve', ledger'[m].leases) <= ledger'[m].reserved
           /\ Total(Cost', CallsOf(m)' \ ledger'[m].leases) + Total(Reserve', ledger'[m].leases)
                <= ledger'[m].spent + ledger'[m].reserved
  PROVE  Backed'
  BY DEF Backed, BackedBy

\* A sum of which one amount changed.
LEMMA TotalChanged ==
  ASSUME NEW f \in Amounts, NEW g \in Amounts, NEW S \in SUBSET Calls, NEW c \in Calls,
         \A d \in S : d # c => g[d] = f[d]
  PROVE  /\ c \notin S => Total(g, S) = Total(f, S)
         /\ c \in S => Total(g, S) = Total(f, S \ {c}) + g[c]
  <1>1. CASE c \notin S
    <2>1. \A d \in S : g[d] = f[d]
      BY <1>1
    <2> QED BY <1>1, <2>1, SpendSame
  <1>2. CASE c \in S
    <2>1. Total(g, S) = Total(g, S \ {c}) + Total(g, {c})
      BY <1>2, SpendWithout
    <2>2. Total(g, S \ {c}) = Total(f, S \ {c})
      <3>1. \A d \in S \ {c} : f[d] = g[d]
        OBVIOUS
      <3> QED BY <3>1, SpendSame
    <2> QED BY <1>2, <2>1, <2>2, SpendOfOne
  <1> QED BY <1>1, <1>2

\* The calls an authorization does not make weigh what they did.
LEMMA OthersSame ==
  ASSUME TypeInv, NEW r \in Runs, NEW o, NEW c \in Calls, Authorize(r, o, c),
         NEW S \in SUBSET Calls, c \notin S
  PROVE  Total(Reserve', S) = Total(Reserve, S) /\ Total(Cost', S) = Total(Cost, S)
  <1>1. TypeInv'
    BY AuthorizeType
  <1>2. \A d \in Calls : d # c => call'[d] = call[d]
    BY AuthorizedCalls
  <1>3. /\ Reserve \in Amounts /\ Cost \in Amounts /\ Reserve' \in Amounts /\ Cost' \in Amounts
        /\ \A d \in S : Reserve'[d] = Reserve[d] /\ Cost'[d] = Cost[d]
    BY <1>1, <1>2, AmountsType, NextAmounts
  <1> QED BY <1>3, SpendSame

\* What an authorization does to the sums of its month.
LEMMA AuthorizeSums ==
  ASSUME TypeInv, NEW r \in Runs, NEW o, NEW c \in Calls, Authorize(r, o, c),
         NEW m \in Months, m = MonthOf(r)
  PROVE  /\ Total(Reserve', After(r, o, c).leases)
              = Total(Reserve, After(r, o, c).leases)
                + Pending(After(r, o, c), c, run[r].request.reserve)
         /\ Total(Cost', CallsOf(m)') = Total(Cost, CallsOf(m))
              + (IF Granted(r, o, c) THEN run[r].request.bound ELSE 0)
  <1> DEFINE N == After(r, o, c)
             q == run[r].request.reserve
             C == CallsOf(m)
             b == IF Granted(r, o, c) THEN run[r].request.bound ELSE 0
  <1>1. /\ Reserve \in Amounts /\ Cost \in Amounts /\ Reserve' \in Amounts /\ Cost' \in Amounts
        /\ \A d \in Calls : Reserve'[d] = call'[d].reserve /\ Cost'[d] = call'[d].cost
    <2>1. TypeInv'
      BY AuthorizeType
    <2> QED BY <2>1, AmountsType, NextAmounts
  <1>2. /\ call[c] = NoCall /\ c \notin C
        /\ c \in N.leases => call'[c] = NewCall(r, o, c)
        /\ CallsOf(m)' = IF c \in N.leases THEN C \cup {c} ELSE C
    BY AuthorizedCalls DEF CallsOf, NoCall, Months
  <1>3. /\ N.leases \in SUBSET Calls /\ C \in SUBSET Calls
        /\ Granted(r, o, c) => c \in N.leases
    BY AfterType DEF Ledger, CallsOf
  <1>4. c \in N.leases => Reserve'[c] = q /\ Cost'[c] = b
    BY <1>1, <1>2 DEF NewCall
  <1>5. /\ Total(Reserve, N.leases) \in Nat /\ Total(Cost, C) \in Nat
        /\ c \in N.leases => Pending(N, c, q) = q
        /\ c \notin N.leases => Pending(N, c, q) = 0 /\ b = 0
    BY <1>1, <1>3, SpendType DEF Pending
  <1> HIDE DEF N, q, C, b
  <1>6. CASE c \in N.leases
    <2> DEFINE H == N.leases \ {c}
    <2>1. /\ H \in SUBSET Calls /\ N.leases = H \cup {c} /\ H \cap {c} = {} /\ c \notin H
          /\ C \cap {c} = {} /\ CallsOf(m)' = C \cup {c}
      BY <1>2, <1>3, <1>6
    <2> HIDE DEF H
    <2>2. /\ Total(Reserve', N.leases) = Total(Reserve', H) + Total(Reserve', {c})
          /\ Total(Cost', CallsOf(m)') = Total(Cost', C) + Total(Cost', {c})
      BY <1>1, <1>3, <2>1, SpendSplits
    <2>3. Total(Reserve', {c}) = q /\ Total(Cost', {c}) = b
      BY <1>1, <1>4, <1>6, SpendOfOne
    <2>4. Total(Reserve', H) = Total(Reserve, H) /\ Total(Cost', C) = Total(Cost, C)
      BY <1>2, <1>3, <2>1, OthersSame
    <2>5. Total(Reserve, N.leases) = Total(Reserve, H)
      BY <1>2, <2>1, BlankWeighsNothing
    <2>6. /\ Total(Reserve', N.leases) = Total(Reserve, N.leases) + Pending(N, c, q)
          /\ Total(Cost', CallsOf(m)') = Total(Cost, C) + b
      BY <1>5, <1>6, <2>2, <2>3, <2>4, <2>5
    <2> QED BY <2>6 DEF N, q, C, b
  <1>7. CASE c \notin N.leases
    <2>1. /\ Total(Reserve', N.leases) = Total(Reserve, N.leases)
          /\ Total(Cost', C) = Total(Cost, C)
      BY <1>2, <1>3, <1>7, OthersSame
    <2>2. /\ Total(Reserve', N.leases) = Total(Reserve, N.leases) + Pending(N, c, q)
          /\ Total(Cost', CallsOf(m)') = Total(Cost, C) + b
      BY <1>2, <1>5, <1>7, <2>1
    <2> QED BY <2>2 DEF N, q, C, b
  <1> QED BY <1>6, <1>7

LEMMA AuthorizeBacked ==
  ASSUME TypeInv, Backed, NEW r \in Runs, NEW o, NEW c \in Calls, Authorize(r, o, c)
  PROVE  Backed'
  <1> DEFINE N == After(r, o, c)
             q == run[r].request.reserve
  <1>1. call[c] = NoCall /\ ledger'[MonthOf(r)] = N
    BY AuthorizedCalls
  <1> SUFFICES ASSUME NEW m \in Months
               PROVE  /\ Total(Reserve', ledger'[m].leases) <= ledger'[m].reserved
                      /\ Total(Cost', CallsOf(m)' \ ledger'[m].leases)
                           + Total(Reserve', ledger'[m].leases)
                           <= ledger'[m].spent + ledger'[m].reserved
    BY NextBacked
  <1>2. CASE m = MonthOf(r)
    <2>1. Covers(N, c, q, m)
      BY <1>1, <1>2, AfterCovers
    <2>2. Total(Reserve', N.leases) = Total(Reserve, N.leases) + Pending(N, c, q)
      BY <1>2, AuthorizeSums
    <2> DEFINE F == CallsOf(m) \ N.leases
    <2>3. /\ N \in Ledger /\ q \in Nat /\ F \in SUBSET Calls /\ c \notin F
          /\ N.leases \in SUBSET Calls
      <3>1. N \in Ledger /\ q \in Nat
        BY AfterType, SentType, BudgetAssumption DEF RunState, Request, BudgetAssumption
      <3> QED BY <1>1, <3>1 DEF Ledger, CallsOf, NoCall, Months
    <2>4. ledger'[m] = N /\ CallsOf(m)' \ N.leases = F
      <3>1. CallsOf(m)' = IF c \in N.leases THEN CallsOf(m) \cup {c} ELSE CallsOf(m)
        BY <1>2, AuthorizedCalls
      <3> QED BY <1>1, <1>2, <3>1
    <2>5. /\ Total(Reserve, N.leases) + Pending(N, c, q) <= N.reserved
          /\ Total(Cost, F) + Total(Reserve, N.leases) + Pending(N, c, q)
               <= N.spent + N.reserved
      BY <2>1 DEF Covers
    <2> HIDE DEF N, q, F
    <2>6. Total(Cost', F) = Total(Cost, F)
      BY <2>3, OthersSame
    <2>7. /\ Total(Reserve, N.leases) \in Nat /\ Total(Cost, F) \in Nat
          /\ Pending(N, c, q) \in Nat /\ N.spent \in Nat /\ N.reserved \in Nat
      BY <2>3, AmountsType, SpendType DEF Ledger, Pending
    <2>8. /\ Total(Reserve', N.leases) <= N.reserved
          /\ Total(Cost', F) + Total(Reserve', N.leases) <= N.spent + N.reserved
      BY <2>2, <2>5, <2>6, <2>7
    <2> QED BY <2>4, <2>8
  <1>3. CASE m # MonthOf(r)
    <2> DEFINE H == ledger[m].leases
               F == CallsOf(m) \ H
    <2>1. ledger'[m] = ledger[m] /\ CallsOf(m)' = CallsOf(m)
      BY <1>3, AuthorizedCalls
    <2>2. H \in SUBSET Calls /\ F \in SUBSET Calls /\ c \notin H /\ c \notin F
      BY <1>1 DEF TypeInv, TypeOK, CallsOf, NoCall, Months
    <2>3. /\ Total(Reserve, H) <= ledger[m].reserved
          /\ Total(Cost, F) + Total(Reserve, H) <= ledger[m].spent + ledger[m].reserved
      BY DEF Backed, BackedBy
    <2>4. CallsOf(m)' \ ledger'[m].leases = F /\ ledger'[m].leases = H
      BY <2>1
    <2> HIDE DEF H, F
    <2>5. Total(Reserve', H) = Total(Reserve, H) /\ Total(Cost', F) = Total(Cost, F)
      BY <2>2, OthersSame
    <2> QED BY <2>1, <2>3, <2>4, <2>5
  <1> QED BY <1>2, <1>3

\* A grant leaves room under its limit for all the calls of the month.
LEMMA GrantFits ==
  ASSUME TypeInv, Backed, NEW r \in Runs, NEW o, NEW c \in Calls,
         call[c] = NoCall, Granted(r, o, c)
  PROVE  Total(Cost, CallsOf(MonthOf(r))) + run[r].request.reserve <= Limit(r)
  <1> DEFINE q == run[r].request.reserve
             m == MonthOf(r)
  <1>1. /\ m \in Months /\ ledger[m] \in Ledger /\ q \in Nat /\ Once(r, c) \in Ledger
        /\ c \notin CallsOf(m) /\ ~call[c].due /\ CallsOf(m) \in SUBSET Calls
    <2>1. m \in Months /\ ledger[m] \in Ledger
      BY SentType DEF MonthOf, TypeInv, TypeOK
    <2>2. q \in Nat
      BY SentType, BudgetAssumption DEF RunState, Request, BudgetAssumption
    <2>3. c \notin CallsOf(m) /\ ~call[c].due /\ CallsOf(m) \in SUBSET Calls
      BY <2>1 DEF CallsOf, NoCall, Months
    <2> QED BY <2>1, <2>2, <2>3, AfterType
  <1>2. PICK L \in Ledger : Covers(L, c, q, m) /\ Fits(L, r)
    <2>1. CASE o = "twice"
      <3>1. Covers(Once(r, c), c, q, m)
        BY AfterCovers
      <3>2. Fits(Once(r, c), r)
        BY <2>1 DEF Granted, Decided, Verdict
      <3> QED BY <1>1, <3>1, <3>2
    <2>2. CASE o # "twice"
      <3>1. Covers(ledger[m], c, q, m)
        BY AfterCovers
      <3>2. Fits(ledger[m], r)
        BY <2>2 DEF Granted, Decided, Verdict
      <3> QED BY <1>1, <3>1, <3>2
    <2> QED BY <2>1, <2>2
  <1>3. Swept(L) \in Ledger /\ Covers(Swept(L), c, q, m)
    BY <1>1, <1>2, SweptIs, SweptCovers
  <1>4. Total(Cost, CallsOf(m)) + Pending(Swept(L), c, q) <= Swept(L).spent + Swept(L).reserved
    BY <1>1, <1>3, CoversCost
  <1>5. Spent(L, r) \in Nat /\ Spent(L, r) >= Swept(L).spent
    BY ScriptIs
  <1>6. Spent(L, r) + Swept(L).reserved + q <= Limit(r)
    BY <1>2 DEF Fits
  <1>7. /\ Swept(L).spent \in Nat /\ Swept(L).reserved \in Nat
        /\ Pending(Swept(L), c, q) \in Nat /\ Total(Cost, CallsOf(m)) \in Nat
    BY <1>1, <1>3, AmountsType, SpendType DEF Ledger, Pending
  <1>8. Limit(r) \in Int
    BY BudgetAssumption DEF Limit, BudgetAssumption
  <1> HIDE DEF q, m
  <1>9. Total(Cost, CallsOf(m)) + q <= Limit(r)
    BY <1>1, <1>4, <1>5, <1>6, <1>7, <1>8
  <1> QED BY <1>9 DEF q, m

-------------------------------------------------------------------------------
(* The other steps                                                         *)

\* No call is made, and none costs more.
CostsFall ==
  /\ \A m \in Months : CallsOf(m)' = CallsOf(m)
  /\ \A c \in Calls : /\ call'[c].cost <= call[c].cost
                      /\ call'[c].reserve = call[c].reserve
                      /\ call'[c].protected = call[c].protected
\* No ledger changes but for a poison mark.
LedgersKept == \A m \in Months :
  /\ ledger'[m].leases = ledger[m].leases /\ ledger'[m].reserved = ledger[m].reserved
  /\ ledger'[m].spent = ledger[m].spent
  /\ ledger[m].poisoned => ledger'[m].poisoned

LEMMA CallsUntouched == ASSUME TypeInv, UNCHANGED call PROVE CostsFall
  <1>1. \A c \in Calls : call[c].cost \in Nat
    BY BudgetAssumption DEF TypeInv, TypeOK, CallState, BudgetAssumption
  <1> QED BY <1>1 DEF CostsFall, CallsOf

LEMMA OneCallChanged ==
  ASSUME TypeInv, NEW c \in Calls, NEW v, v.cost <= call[c].cost, v.month = call[c].month,
         v.reserve = call[c].reserve, v.protected = call[c].protected,
         call' = [call EXCEPT ![c] = v]
  PROVE  CostsFall
  <1>1. \A d \in Calls : call[d].cost \in Nat
    BY BudgetAssumption DEF TypeInv, TypeOK, CallState, BudgetAssumption
  <1>2. \A d \in Calls : call'[d] = IF d = c THEN v ELSE call[d]
    BY DEF TypeInv, TypeOK
  <1>3. \A m \in Months : CallsOf(m)' = CallsOf(m)
    BY <1>2 DEF CallsOf
  <1> QED BY <1>1, <1>2, <1>3 DEF CostsFall

\* The provider's answers, a lease's expiry.
LEMMA AnswersFall ==
  ASSUME TypeInv
  PROVE  /\ \A r \in Runs, amount \in 0 .. MaxReserve :
              Priced(r, amount) => CostsFall /\ UNCHANGED ledger
         /\ \A r \in Runs : Unpriced(r) \/ Rejected(r) => CostsFall /\ UNCHANGED ledger
         /\ \A c \in Calls : LeaseRunsOut(c) => CostsFall /\ UNCHANGED ledger
  <1>1. ASSUME NEW r \in Runs, NEW amount \in 0 .. MaxReserve, Priced(r, amount)
        PROVE  CostsFall /\ UNCHANGED ledger
    <2> DEFINE v == [call[run[r].id] EXCEPT !.cost = amount]
    <2>1. /\ run[r].pc \in Sent /\ amount <= call[run[r].id].cost
          /\ call' = [call EXCEPT ![run[r].id] = v] /\ UNCHANGED ledger
      BY <1>1 DEF Priced, Sent
    <2>2. /\ v.month = call[run[r].id].month /\ v.cost = amount
          /\ v.protected = call[run[r].id].protected
          /\ v.reserve = call[run[r].id].reserve /\ run[r].id \in Calls
      BY <2>1, SentType DEF CallState
    <2> HIDE DEF v
    <2> QED BY <2>1, <2>2, OneCallChanged
  <1>2. ASSUME NEW r \in Runs, Unpriced(r)
        PROVE  CostsFall /\ UNCHANGED ledger
    <2> DEFINE v == [call[run[r].id] EXCEPT !.priced = FALSE]
    <2>1. /\ run[r].pc \in Sent
          /\ call' = [call EXCEPT ![run[r].id] = v] /\ UNCHANGED ledger
      BY <1>2 DEF Unpriced, Sent
    <2>2. /\ v.month = call[run[r].id].month /\ v.cost = call[run[r].id].cost
          /\ v.protected = call[run[r].id].protected
          /\ v.reserve = call[run[r].id].reserve /\ run[r].id \in Calls
      BY <2>1, SentType DEF CallState
    <2>3. call[run[r].id].cost \in Nat
      BY <2>1, SentType
    <2> HIDE DEF v
    <2>4. v.cost <= call[run[r].id].cost
      BY <2>2, <2>3
    <2> QED BY <2>1, <2>2, <2>4, OneCallChanged
  <1>3. ASSUME NEW r \in Runs, Rejected(r)
        PROVE  CostsFall /\ UNCHANGED ledger
    <2> DEFINE v == [call[run[r].id] EXCEPT !.cost = 0]
    <2>1. /\ run[r].pc \in Sent
          /\ call' = [call EXCEPT ![run[r].id] = v] /\ UNCHANGED ledger
      BY <1>3 DEF Rejected, Sent
    <2>2. /\ v.month = call[run[r].id].month /\ v.cost = 0
          /\ v.protected = call[run[r].id].protected
          /\ v.reserve = call[run[r].id].reserve /\ run[r].id \in Calls
      BY <2>1, SentType DEF CallState
    <2>3. call[run[r].id].cost \in Nat
      BY <2>1, SentType
    <2> HIDE DEF v
    <2>4. v.cost <= call[run[r].id].cost
      BY <2>2, <2>3
    <2> QED BY <2>1, <2>2, <2>4, OneCallChanged
  <1>4. ASSUME NEW c \in Calls, LeaseRunsOut(c)
        PROVE  CostsFall /\ UNCHANGED ledger
    <2> DEFINE v == [call[c] EXCEPT !.due = TRUE]
    <2>1. call' = [call EXCEPT ![c] = v] /\ UNCHANGED ledger
      BY <1>4 DEF LeaseRunsOut
    <2>2. call[c] \in CallState /\ call[c].cost \in Nat
      BY BudgetAssumption DEF TypeInv, TypeOK, CallState, BudgetAssumption
    <2>3. /\ v.month = call[c].month /\ v.cost = call[c].cost
          /\ v.protected = call[c].protected /\ v.reserve = call[c].reserve
      BY <2>2 DEF CallState
    <2> HIDE DEF v
    <2>4. v.cost <= call[c].cost
      BY <2>2, <2>3
    <2> QED BY <2>1, <2>3, <2>4, OneCallChanged
  <1> QED BY <1>1, <1>2, <1>3, <1>4

LEMMA PoisonKeeps ==
  ASSUME TypeInv, NEW r \in Runs, NEW o, Poison(r, o)
  PROVE  LedgersKept /\ CostsFall
  <1>1. MonthOf(r) \in Months /\ ledger[MonthOf(r)] \in Ledger
    BY SentType DEF MonthOf, TypeInv, TypeOK
  <1> DEFINE N == [ledger[MonthOf(r)] EXCEPT !.poisoned = TRUE]
  <1>2. /\ N.leases = ledger[MonthOf(r)].leases /\ N.spent = ledger[MonthOf(r)].spent
        /\ N.reserved = ledger[MonthOf(r)].reserved /\ N.poisoned = TRUE
    BY <1>1 DEF Ledger
  <1>3. ledger' = ledger \/ ledger' = [ledger EXCEPT ![MonthOf(r)] = N]
    BY <1>1 DEF Poison, TypeInv, TypeOK
  <1> HIDE DEF N, MonthOf
  <1>4. LedgersKept
    BY <1>1, <1>2, <1>3 DEF LedgersKept, TypeInv, TypeOK
  <1> QED BY <1>4, CallsUntouched DEF Poison

\* A step authorises, settles, or changes neither sums nor leases.
LEMMA StepKinds ==
  ASSUME TypeInv, [Next]_vars
  PROVE  \/ \E r \in Runs, o \in Outcomes, c \in Calls : Authorize(r, o, c)
         \/ CostsFall /\ \E r \in Runs, o \in Outcomes : Settle(r, o)
         \/ CostsFall /\ LedgersKept
  <1>1. UNCHANGED ledger => LedgersKept
    BY DEF LedgersKept
  <1>2. CASE UNCHANGED vars
    BY <1>1, <1>2, CallsUntouched DEF vars
  <1>3. CASE MonthTurns
    BY <1>1, <1>3, CallsUntouched DEF MonthTurns
  <1>4. ASSUME NEW c \in Calls, LeaseRunsOut(c) PROVE CostsFall /\ LedgersKept
    BY <1>1, <1>4, AnswersFall
  <1>5. ASSUME NEW r \in Runs, RunStep(r)
        PROVE  \/ \E o \in Outcomes, c \in Calls : Authorize(r, o, c)
               \/ CostsFall /\ \E o \in Outcomes : Settle(r, o)
               \/ CostsFall /\ LedgersKept
    <2>1. ASSUME NEW q \in Requests[r], Begin(r, q) PROVE CostsFall /\ LedgersKept
      BY <1>1, <2>1, CallsUntouched DEF Begin
    <2>2. ASSUME NEW o \in Outcomes, LoadReport(r, o) PROVE CostsFall /\ LedgersKept
      BY <1>1, <2>2, CallsUntouched DEF LoadReport
    <2>3. ASSUME NEW o \in Outcomes, Record(r, o) PROVE CostsFall /\ LedgersKept
      BY <1>1, <2>3, CallsUntouched DEF Record
    <2>4. ASSUME NEW o \in Outcomes, Settle(r, o) PROVE CostsFall
      BY <2>4, CallsUntouched DEF Settle
    <2>5. ASSUME NEW o \in Outcomes, Poison(r, o) PROVE CostsFall /\ LedgersKept
      BY <2>5, PoisonKeeps
    <2>6. ASSUME NEW amount \in 0 .. MaxReserve, Priced(r, amount)
          PROVE CostsFall /\ LedgersKept
      BY <1>1, <2>6, AnswersFall
    <2>7. CASE Unpriced(r) \/ Rejected(r)
      BY <1>1, <2>7, AnswersFall
    <2>8. CASE Unreadable(r) \/ Ambiguous(r) \/ Restart(r)
      BY <1>1, <2>8, CallsUntouched DEF Unreadable, Ambiguous, Restart
    <2> QED BY <1>5, <2>1, <2>2, <2>3, <2>4, <2>5, <2>6, <2>7, <2>8, Zenon DEF RunStep
  <1> QED BY <1>2, <1>3, <1>4, <1>5 DEF Next

\* What such a step does to a sum.
LEMMA FallSums ==
  ASSUME TypeInv, TypeInv', CostsFall, NEW S \in SUBSET Calls
  PROVE  /\ Total(Reserve', S) = Total(Reserve, S) /\ Total(Cost', S) <= Total(Cost, S)
         /\ Total(Reserve, S) \in Nat /\ Total(Cost, S) \in Nat /\ Total(Cost', S) \in Nat
  <1>1. /\ Reserve \in Amounts /\ Cost \in Amounts /\ Reserve' \in Amounts /\ Cost' \in Amounts
        /\ \A c \in Calls : Reserve'[c] = Reserve[c] /\ Cost'[c] <= Cost[c]
    BY AmountsType, NextAmounts DEF CostsFall
  <1> QED BY <1>1, SpendSame, SpendGrows, SpendType

\* A settlement gives up the lease of the call under way, or changes no ledger.
LEMMA SettleLedgers ==
  ASSUME TypeInv, NEW r \in Runs, NEW o, Settle(r, o)
  PROVE  \/ LedgersKept
         \/ LET m == MonthOf(r)
                c == run[r].id
                N == SettleScript(ledger[m], r)
            IN
            /\ m \in Months /\ ledger[m] \in Ledger /\ N \in Ledger
            /\ c \in Calls /\ c \in ledger[m].leases /\ c \in CallsOf(m)
            /\ \A n \in Months : n # m => ledger'[n] = ledger[n]
            /\ ledger'[m] = N /\ N.poisoned = ledger[m].poisoned
            /\ N.leases = ledger[m].leases \ {c}
            /\ N.reserved = Without(ledger[m].reserved, call[c].reserve)
            /\ N.spent = ledger[m].spent + Charge(r)
            /\ Charge(r) \in Nat /\ call[c].cost <= Charge(r) /\ Charge(r) <= call[c].reserve
  <1> DEFINE m == MonthOf(r)
             c == run[r].id
             N == SettleScript(ledger[m], r)
  <1>1. /\ m \in Months /\ ledger[m] \in Ledger /\ run[r].pc = "settle" /\ run[r].pc \in Sent
        /\ ledger \in [Months -> Ledger] /\ ledger[m].leases \subseteq CallsOf(m)
    BY SentType DEF Settle, MonthOf, TypeInv, TypeOK, Sent
  <1>2. /\ c \in Calls /\ Charge(r) \in Nat /\ N \in Ledger
        /\ N.poisoned = ledger[m].poisoned
        /\ c \notin ledger[m].leases => N = ledger[m]
        /\ c \in ledger[m].leases =>
             /\ N.leases = ledger[m].leases \ {c}
             /\ N.reserved = Without(ledger[m].reserved, call[c].reserve)
             /\ N.spent = ledger[m].spent + Charge(r)
    BY <1>1, SettleIs
  <1>3. /\ call[c].cost <= Charge(r) /\ Charge(r) <= call[c].reserve
    BY <1>1, SentType DEF Charge, TypeInv, RejectedIsFree
  <1>4. ledger' = [ledger EXCEPT ![m] = IF o = "failed" THEN ledger[m] ELSE N]
    BY DEF Settle
  <1>5. CASE o = "failed" \/ c \notin ledger[m].leases
    <2>1. ledger' = [ledger EXCEPT ![m] = ledger[m]]
      BY <1>2, <1>4, <1>5
    <2>2. ledger' = ledger
      BY <1>1, <2>1
    <2> QED BY <2>2 DEF LedgersKept
  <1>6. CASE o # "failed" /\ c \in ledger[m].leases
    <2> HIDE DEF N, m
    <2>1. ledger' = [ledger EXCEPT ![m] = N]
      BY <1>4, <1>6
    <2>2. ledger'[m] = N /\ \A n \in Months : n # m => ledger'[n] = ledger[n]
      BY <1>1, <2>1
    <2>3. c \in CallsOf(m)
      BY <1>1, <1>6
    <2> QED BY <1>1, <1>2, <1>3, <1>6, <2>2, <2>3 DEF N, m
  <1> QED BY <1>5, <1>6

LEMMA KeptBacked ==
  ASSUME TypeInv, TypeInv', Backed, CostsFall, NEW m \in Months,
         ledger'[m].leases = ledger[m].leases, ledger'[m].reserved = ledger[m].reserved,
         ledger'[m].spent = ledger[m].spent
  PROVE  /\ Total(Reserve', ledger'[m].leases) <= ledger'[m].reserved
         /\ Total(Cost', CallsOf(m)' \ ledger'[m].leases) + Total(Reserve', ledger'[m].leases)
              <= ledger'[m].spent + ledger'[m].reserved
  <1> DEFINE H == ledger[m].leases
             F == CallsOf(m) \ H
  <1>1. /\ H \in SUBSET Calls /\ F \in SUBSET Calls
        /\ ledger[m].spent \in Nat /\ ledger[m].reserved \in Nat
    BY DEF TypeInv, TypeOK, Ledger, CallsOf
  <1>2. /\ Total(Reserve, H) <= ledger[m].reserved
        /\ Total(Cost, F) + Total(Reserve, H) <= ledger[m].spent + ledger[m].reserved
    BY DEF Backed, BackedBy
  <1>3. CallsOf(m)' \ ledger'[m].leases = F /\ ledger'[m].leases = H
    BY DEF CostsFall
  <1> HIDE DEF H, F
  <1>4. /\ Total(Reserve', H) = Total(Reserve, H) /\ Total(Cost', F) <= Total(Cost, F)
        /\ Total(Reserve, H) \in Nat /\ Total(Cost, F) \in Nat /\ Total(Cost', F) \in Nat
    BY <1>1, FallSums
  <1>5. /\ Total(Reserve', H) <= ledger[m].reserved
        /\ Total(Cost', F) + Total(Reserve', H) <= ledger[m].spent + ledger[m].reserved
    BY <1>1, <1>2, <1>4
  <1> QED BY <1>3, <1>5

LEMMA SettleBacked ==
  ASSUME TypeInv, TypeInv', Backed, CostsFall, NEW r \in Runs, NEW o, Settle(r, o)
  PROVE  Backed'
  <1> SUFFICES ASSUME NEW m \in Months
               PROVE  /\ Total(Reserve', ledger'[m].leases) <= ledger'[m].reserved
                      /\ Total(Cost', CallsOf(m)' \ ledger'[m].leases)
                           + Total(Reserve', ledger'[m].leases)
                           <= ledger'[m].spent + ledger'[m].reserved
    BY NextBacked
  <1>1. CASE LedgersKept
    BY <1>1, KeptBacked DEF LedgersKept
  <1>2. CASE ~LedgersKept /\ m # MonthOf(r)
    <2>1. ledger'[m] = ledger[m]
      BY <1>2, SettleLedgers
    <2> QED BY <2>1, KeptBacked
  <1>3. CASE ~LedgersKept /\ m = MonthOf(r)
    <2> DEFINE c == run[r].id
               L == ledger[m]
               N == SettleScript(L, r)
               F == CallsOf(m) \ L.leases
    <2>1. /\ L \in Ledger /\ N \in Ledger /\ c \in Calls /\ c \in L.leases /\ c \in CallsOf(m)
          /\ ledger'[m] = N /\ N.leases = L.leases \ {c}
          /\ N.reserved = Without(L.reserved, call[c].reserve)
          /\ N.spent = L.spent + Charge(r)
          /\ Charge(r) \in Nat /\ call[c].cost <= Charge(r)
      BY <1>3, SettleLedgers
    <2>2. /\ Reserve \in Amounts /\ Cost \in Amounts
          /\ Reserve[c] = call[c].reserve /\ Cost[c] = call[c].cost
      BY <2>1, AmountsType
    <2>3. /\ L.leases \in SUBSET Calls /\ F \in SUBSET Calls /\ N.leases \in SUBSET Calls
          /\ L.leases = N.leases \cup {c} /\ N.leases \cap {c} = {} /\ F \cap {c} = {}
          /\ L.spent \in Nat /\ L.reserved \in Nat
      BY <2>1 DEF Ledger, CallsOf
    <2>4. CallsOf(m)' \ N.leases = F \cup {c} /\ F \cup {c} \in SUBSET Calls
      BY <2>1, <2>3 DEF CostsFall, CallsOf
    <2>5. /\ Total(Reserve, L.leases) <= L.reserved
          /\ Total(Cost, F) + Total(Reserve, L.leases) <= L.spent + L.reserved
      BY DEF Backed, BackedBy
    <2> HIDE DEF L, N, F, c
    <2>6. Total(Reserve, L.leases) = Total(Reserve, N.leases) + call[c].reserve
      <3>1. Total(Reserve, N.leases \cup {c}) = Total(Reserve, N.leases) + Total(Reserve, {c})
        BY <2>1, <2>2, <2>3, SpendSplits
      <3>2. Total(Reserve, {c}) = call[c].reserve
        BY <2>1, <2>2, SpendOfOne
      <3> QED BY <2>3, <3>1, <3>2
    <2>7. Total(Cost, F \cup {c}) = Total(Cost, F) + call[c].cost
      <3>1. Total(Cost, F \cup {c}) = Total(Cost, F) + Total(Cost, {c})
        BY <2>1, <2>2, <2>3, SpendSplits
      <3>2. Total(Cost, {c}) = call[c].cost
        BY <2>1, <2>2, SpendOfOne
      <3> QED BY <3>1, <3>2
    <2>8. /\ Total(Reserve', N.leases) = Total(Reserve, N.leases)
          /\ Total(Cost', F \cup {c}) <= Total(Cost, F \cup {c})
          /\ Total(Reserve, N.leases) \in Nat /\ Total(Cost', F \cup {c}) \in Nat
          /\ Total(Cost, F) \in Nat
      BY <2>3, <2>4, FallSums
    <2>9. call[c].reserve \in Nat /\ call[c].cost \in Nat
      BY <2>1, BudgetAssumption DEF TypeInv, TypeOK, CallState, BudgetAssumption
    <2>10. N.reserved = L.reserved - call[c].reserve
      <3>1. call[c].reserve <= L.reserved
        BY <2>3, <2>5, <2>6, <2>8, <2>9
      <3> QED BY <2>1, <2>3, <2>9, <3>1, WithoutType
    <2>11. /\ Total(Reserve', N.leases) <= N.reserved
           /\ Total(Cost', F \cup {c}) + Total(Reserve', N.leases) <= N.spent + N.reserved
      BY <2>1, <2>3, <2>5, <2>6, <2>7, <2>8, <2>9, <2>10
    <2> QED BY <2>1, <2>4, <2>11
  <1> QED BY <1>1, <1>2, <1>3

-------------------------------------------------------------------------------
(* The ceiling and the protected pool                                      *)

Unprotected(m) == {c \in CallsOf(m) : ~call[c].protected}
Bounds == WithinCap /\ PoolKept

LEMMA NextBounds ==
  ASSUME \A m \in Months : /\ Total(Cost', CallsOf(m)') <= Cap
                           /\ Total(Cost', Unprotected(m)') <= Cap - Protected
  PROVE  Bounds'
  BY DEF Bounds, WithinCap, PoolKept, Unprotected

LEMMA AuthorizeBounds ==
  ASSUME TypeInv, Backed, Bounds, NEW r \in Runs, NEW o, NEW c \in Calls, Authorize(r, o, c)
  PROVE  Bounds'
  <1> SUFFICES ASSUME NEW m \in Months
               PROVE  /\ Total(Cost', CallsOf(m)') <= Cap
                      /\ Total(Cost', Unprotected(m)') <= Cap - Protected
    BY NextBounds
  <1> DEFINE C == CallsOf(m)
             U == Unprotected(m)
             N == After(r, o, c)
  <1>1. /\ call[c] = NoCall /\ c \notin C /\ c \notin U
        /\ C \in SUBSET Calls /\ U \in SUBSET C /\ U \in SUBSET Calls
        /\ \A d \in Calls : d # c => call'[d] = call[d]
        /\ c \in N.leases => call'[c] = NewCall(r, o, c)
    BY AuthorizedCalls DEF CallsOf, Unprotected, NoCall, Months
  <1>2. Total(Cost, C) <= Cap /\ Total(Cost, U) <= Cap - Protected
    BY DEF Bounds, WithinCap, PoolKept, Unprotected
  <1>3. Total(Cost', C) = Total(Cost, C) /\ Total(Cost', U) = Total(Cost, U)
    BY <1>1, OthersSame
  <1>4. Cost \in Amounts /\ Cost' \in Amounts /\ Cost'[c] = call'[c].cost
    <2>1. TypeInv'
      BY AuthorizeType
    <2> QED BY <2>1, AmountsType, NextAmounts
  <1>5. CASE m # MonthOf(r)
    <2>1. CallsOf(m)' = C
      BY <1>5, AuthorizedCalls
    <2>2. Unprotected(m)' = U
      BY <1>1, <2>1 DEF Unprotected
    <2> QED BY <1>2, <1>3, <2>1, <2>2
  <1>6. CASE m = MonthOf(r)
    <2>1. CallsOf(m)' = IF c \in N.leases THEN C \cup {c} ELSE C
      BY <1>6, AuthorizedCalls
    <2>2. c \in N.leases => call'[c].protected = run[r].request.protected
      BY <1>1 DEF NewCall
    <2>3. Unprotected(m)' = IF c \in N.leases /\ ~run[r].request.protected
                            THEN U \cup {c} ELSE U
      BY <1>1, <2>1, <2>2 DEF Unprotected
    <2>4. Total(Cost', CallsOf(m)') = Total(Cost, C)
            + (IF Granted(r, o, c) THEN run[r].request.bound ELSE 0)
      BY <1>6, AuthorizeSums
    <2>5. /\ run[r].request.bound \in Nat /\ run[r].request.reserve \in Nat
          /\ run[r].request.bound <= run[r].request.reserve
          /\ Total(Cost, C) \in Nat /\ Total(Cost, U) \in Nat
      <3>1. run[r].request \in Request
        BY SentType DEF RunState
      <3>2. run[r].request.bound \in Nat /\ run[r].request.reserve \in Nat
            /\ run[r].request.bound <= run[r].request.reserve
        BY <3>1, BudgetAssumption DEF Request, BudgetAssumption
      <3> QED BY <1>1, <1>4, <3>2, SpendType
    <2>6. CASE Granted(r, o, c)
      <3>1. Total(Cost, C) + run[r].request.reserve <= Limit(r)
        BY <1>1, <1>6, <2>6, GrantFits
      <3>2. /\ Limit(r) \in Int /\ Limit(r) <= Cap /\ Cap \in Int
            /\ ~run[r].request.protected => Limit(r) = Cap - Protected
        BY BudgetAssumption DEF Limit, BudgetAssumption
      <3>3. Total(Cost', CallsOf(m)') <= Limit(r)
        BY <2>4, <2>5, <2>6, <3>1, <3>2
      <3>4. Total(Cost', CallsOf(m)') \in Nat
        BY <2>4, <2>5, <2>6
      <3>5. Total(Cost', Unprotected(m)') <= Cap - Protected
        <4>1. CASE run[r].request.protected
          BY <1>2, <1>3, <2>3, <4>1
        <4>2. CASE ~run[r].request.protected
          <5> DEFINE X == CallsOf(m)'
                     Y == Unprotected(m)'
          <5>1. X \in SUBSET Calls /\ Y \in SUBSET X /\ Y \in SUBSET Calls
            BY DEF CallsOf, Unprotected
          <5>2. \A d \in Y : Cost'[d] <= Cost'[d]
            BY <1>4, <5>1, BudgetAssumption DEF Amounts, BudgetAssumption
          <5> HIDE DEF X, Y
          <5>3. Total(Cost', Y) <= Total(Cost', X)
            BY <1>4, <5>1, <5>2, SpendGrows
          <5>4. Total(Cost', Y) \in Nat /\ Total(Cost', X) \in Nat
            BY <1>4, <5>1, SpendType
          <5>5. Total(Cost', X) <= Cap - Protected
            BY <3>2, <3>3, <4>2 DEF X
          <5>6. Total(Cost', Y) <= Cap - Protected
            BY <5>3, <5>4, <5>5, BudgetAssumption DEF BudgetAssumption
          <5> QED BY <5>6 DEF Y
        <4> QED BY <4>1, <4>2
      <3> QED BY <3>2, <3>3, <3>4, <3>5
    <2>7. CASE ~Granted(r, o, c)
      <3>1. Total(Cost', CallsOf(m)') <= Cap
        BY <1>2, <2>4, <2>5, <2>7
      <3>2. CASE c \in N.leases /\ ~run[r].request.protected
        <4>1. Cost'[c] = 0
          BY <1>1, <1>4, <2>7, <3>2 DEF NewCall
        <4>2. Total(Cost', U \cup {c}) = Total(Cost', U) + Total(Cost', {c})
          <5>1. U \cap {c} = {}
            BY <1>1
          <5> HIDE DEF U
          <5> QED BY <1>1, <1>4, <5>1, SpendSplits
        <4>3. Total(Cost', {c}) = 0
          BY <1>4, <4>1, SpendOfOne
        <4>4. Unprotected(m)' = U \cup {c}
          BY <2>3, <3>2
        <4> HIDE DEF U
        <4> QED BY <1>2, <1>3, <2>5, <3>1, <4>2, <4>3, <4>4
      <3>3. CASE ~(c \in N.leases /\ ~run[r].request.protected)
        BY <1>2, <1>3, <2>3, <3>1, <3>3
      <3> QED BY <3>2, <3>3
    <2> QED BY <2>6, <2>7
  <1> QED BY <1>5, <1>6

\* A step that makes no call keeps both bounds.
LEMMA FallBounds ==
  ASSUME TypeInv, TypeInv', CostsFall, Bounds
  PROVE  Bounds'
  <1> SUFFICES ASSUME NEW m \in Months
               PROVE  /\ Total(Cost', CallsOf(m)') <= Cap
                      /\ Total(Cost', Unprotected(m)') <= Cap - Protected
    BY NextBounds
  <1> DEFINE C == CallsOf(m)
             U == Unprotected(m)
  <1>1. CallsOf(m)' = C /\ Unprotected(m)' = U
    BY DEF CostsFall, Unprotected, CallsOf
  <1>2. C \in SUBSET Calls /\ U \in SUBSET Calls
    BY DEF CallsOf, Unprotected
  <1>3. Total(Cost, C) <= Cap /\ Total(Cost, U) <= Cap - Protected
    BY DEF Bounds, WithinCap, PoolKept, Unprotected
  <1> HIDE DEF C, U
  <1>4. /\ Total(Cost', C) <= Total(Cost, C) /\ Total(Cost', U) <= Total(Cost, U)
        /\ Total(Cost', C) \in Nat /\ Total(Cost, C) \in Nat
        /\ Total(Cost', U) \in Nat /\ Total(Cost, U) \in Nat
    BY <1>2, FallSums
  <1>5. Total(Cost', C) <= Cap /\ Total(Cost', U) <= Cap - Protected
    BY <1>3, <1>4, BudgetAssumption DEF BudgetAssumption
  <1> QED BY <1>1, <1>5

-------------------------------------------------------------------------------
(* The invariant and what follows from it                                  *)

Inv == TypeInv /\ Backed /\ Bounds

LEMMA InvInit == Init => Inv
  <1> SUFFICES ASSUME Init PROVE Inv
    OBVIOUS
  <1>1. TypeInv
    BY TypeInit
  <1>2. ASSUME NEW m \in Months
        PROVE  CallsOf(m) = {} /\ ledger[m].leases = {}
               /\ ledger[m].spent = 0 /\ ledger[m].reserved = 0
    BY <1>2 DEF Init, CallsOf, NoCall, Months, EmptyLedger
  <1>3. Total(Cost, {}) = 0 /\ Total(Reserve, {}) = 0
    BY <1>1, AmountsType, TotalOfNone
  <1>4. Backed
    <2> SUFFICES ASSUME NEW m \in Months
                 PROVE  BackedBy(Reserve, Cost, CallsOf(m), ledger[m])
      BY DEF Backed
    <2>1. CallsOf(m) \ ledger[m].leases = {}
      BY <1>2
    <2>2. /\ Total(Reserve, ledger[m].leases) = 0
          /\ Total(Cost, CallsOf(m) \ ledger[m].leases) = 0
      <3>1. Total(Reserve, ledger[m].leases) = 0
        BY <1>2, <1>3, Zenon
      <3>2. Total(Cost, CallsOf(m) \ ledger[m].leases) = 0
        BY <1>3, <2>1, Zenon
      <3> QED BY <3>1, <3>2
    <2> QED BY <1>2, <2>2 DEF BackedBy
  <1>5. Bounds
    <2> SUFFICES ASSUME NEW m \in Months
                 PROVE  /\ Total(Cost, CallsOf(m)) <= Cap
                        /\ Total(Cost, Unprotected(m)) <= Cap - Protected
      BY DEF Bounds, WithinCap, PoolKept, Unprotected
    <2>1. CallsOf(m) = {} /\ Unprotected(m) = {}
      BY <1>2 DEF Unprotected
    <2>2. 0 <= Cap /\ 0 <= Cap - Protected
      BY BudgetAssumption DEF BudgetAssumption
    <2> QED BY <1>3, <2>1, <2>2
  <1> QED BY <1>1, <1>4, <1>5 DEF Inv

LEMMA InvStep == Inv /\ [Next]_vars => Inv'
  <1> SUFFICES ASSUME Inv, [Next]_vars PROVE Inv'
    OBVIOUS
  <1>1. TypeInv /\ Backed /\ Bounds /\ TypeInv'
    BY TypeStep DEF Inv
  <1>2. CASE \E r \in Runs, o \in Outcomes, c \in Calls : Authorize(r, o, c)
    BY <1>1, <1>2, AuthorizeBacked, AuthorizeBounds DEF Inv
  <1>3. CASE CostsFall /\ \E r \in Runs, o \in Outcomes : Settle(r, o)
    BY <1>1, <1>3, SettleBacked, FallBounds DEF Inv
  <1>4. CASE CostsFall /\ LedgersKept
    <2>1. Backed'
      <3> SUFFICES ASSUME NEW m \in Months
                   PROVE  /\ Total(Reserve', ledger'[m].leases) <= ledger'[m].reserved
                          /\ Total(Cost', CallsOf(m)' \ ledger'[m].leases)
                               + Total(Reserve', ledger'[m].leases)
                               <= ledger'[m].spent + ledger'[m].reserved
        BY NextBacked
      <3> QED BY <1>1, <1>4, KeptBacked DEF LedgersKept
    <2> QED BY <1>1, <1>4, <2>1, FallBounds DEF Inv
  <1> QED BY <1>1, <1>2, <1>3, <1>4, StepKinds

\* What is spent and reserved in a month covers what its calls cost.
LEMMA BackedCovers == Inv => LedgerCovers
  <1> SUFFICES ASSUME Inv, NEW m \in Months
               PROVE  Total(Cost, CallsOf(m)) <= ledger[m].spent + ledger[m].reserved
    BY DEF LedgerCovers
  <1> DEFINE C == CallsOf(m)
             H == ledger[m].leases
  <1>1. TypeInv
    BY DEF Inv
  <1>2. /\ C \in SUBSET Calls /\ H \in SUBSET C /\ H \in SUBSET Calls
        /\ C \ H \in SUBSET Calls
        /\ ledger[m].spent \in Nat /\ ledger[m].reserved \in Nat
    BY <1>1 DEF TypeInv, TypeOK, CallsOf, Ledger
  <1>3. Total(Cost, C \ H) + Total(Reserve, H) <= ledger[m].spent + ledger[m].reserved
    BY DEF Inv, Backed, BackedBy
  <1> HIDE DEF C, H
  <1>4. Total(Cost, C) = Total(Cost, C \ H) + Total(Cost, H)
    BY <1>1, <1>2, AmountsType, SpendWithout
  <1>5. Total(Cost, H) <= Total(Reserve, H)
    BY <1>1, <1>2, AmountsType, SpendGrows
  <1>6. /\ Total(Cost, C \ H) \in Nat /\ Total(Cost, H) \in Nat /\ Total(Reserve, H) \in Nat
    BY <1>1, <1>2, AmountsType, SpendType
  <1>7. Total(Cost, C) <= ledger[m].spent + ledger[m].reserved
    BY <1>2, <1>3, <1>4, <1>5, <1>6
  <1> QED BY <1>7 DEF C

\* What is spent and reserved in a month covers what its calls cost, also
\* those nobody will settle, for any number of processes, calls and failures.
THEOREM LedgerAlwaysCovers == Spec => []LedgerCovers
  BY InvInit, InvStep, BackedCovers, PTL DEF Spec

\* The calls of a month cost no more than the ceiling, however many processes
\* authorise at once and die with calls under way.
THEOREM CapHolds == Spec => []WithinCap
  <1>1. Inv => WithinCap
    BY DEF Inv, Bounds
  <1> QED BY <1>1, InvInit, InvStep, PTL DEF Spec

\* Discovery and weekly review calls never reach the protected pool.
THEOREM PoolHolds == Spec => []PoolKept
  <1>1. Inv => PoolKept
    BY DEF Inv, Bounds
  <1> QED BY <1>1, InvInit, InvStep, PTL DEF Spec

-------------------------------------------------------------------------------
(* What a step may not do                                                  *)

\* A poisoned ledger grants nothing, in one execution or in two.
LEMMA PoisonedGrantsNothing ==
  ASSUME TypeInv, NEW r \in Runs, NEW o, NEW c \in Calls, ledger[MonthOf(r)].poisoned
  PROVE  After(r, o, c).leases \subseteq ledger[MonthOf(r)].leases
  <1> DEFINE L == ledger[MonthOf(r)]
  <1>1. L \in Ledger /\ Once(r, c) \in Ledger
    BY SentType, AfterType DEF MonthOf, TypeInv, TypeOK
  <1>2. /\ Verdict(L, r) = "POISONED" /\ Once(r, c).poisoned
        /\ Once(r, c).leases = L.leases \ Due(L)
    <2>1. Verdict(L, r) = "POISONED"
      BY DEF Verdict
    <2> QED BY <1>1, <2>1, ScriptIs DEF Once
  <1>3. AuthorizeScript(Once(r, c), r, c).leases = Once(r, c).leases \ Due(Once(r, c))
    <2>1. Verdict(Once(r, c), r) = "POISONED"
      BY <1>2 DEF Verdict
    <2> QED BY <1>1, <2>1, ScriptIs
  <1> HIDE DEF L
  <1>4. After(r, o, c) \in {L, Once(r, c), AuthorizeScript(Once(r, c), r, c)}
    BY DEF After, L
  <1> QED BY <1>2, <1>3, <1>4 DEF L

\* A poisoned month stays poisoned and grants nothing more.
THEOREM PoisonHolds == Spec => FailsClosed
  <1>1. ASSUME TypeInv, [Next]_vars, NEW m \in Months, ledger[m].poisoned
        PROVE  ledger'[m].poisoned /\ ledger'[m].leases \subseteq ledger[m].leases
    <2>1. ASSUME NEW r \in Runs, NEW o \in Outcomes, NEW c \in Calls, Authorize(r, o, c)
          PROVE  ledger'[m].poisoned /\ ledger'[m].leases \subseteq ledger[m].leases
      <3>1. CASE m # MonthOf(r)
        BY <1>1, <2>1, <3>1, AuthorizedCalls
      <3>2. CASE m = MonthOf(r)
        <4>1. ledger'[m] = After(r, o, c)
          BY <1>1, <2>1, <3>2, AuthorizedCalls
        <4> QED BY <1>1, <3>2, <4>1, AfterType, PoisonedGrantsNothing
      <3> QED BY <3>1, <3>2
    <2>2. ASSUME NEW r \in Runs, NEW o \in Outcomes, Settle(r, o)
          PROVE  ledger'[m].poisoned /\ ledger'[m].leases \subseteq ledger[m].leases
      <3>1. CASE LedgersKept
        BY <1>1, <3>1 DEF LedgersKept
      <3>2. CASE ~LedgersKept /\ m # MonthOf(r)
        BY <1>1, <2>2, <3>2, SettleLedgers
      <3>3. CASE ~LedgersKept /\ m = MonthOf(r)
        BY <1>1, <2>2, <3>3, SettleLedgers
      <3> QED BY <3>1, <3>2, <3>3
    <2>3. CASE LedgersKept
      BY <1>1, <2>3 DEF LedgersKept
    <2> QED BY <1>1, <2>1, <2>2, <2>3, StepKinds
  <1> DEFINE Closed == \A m \in Months : ledger[m].poisoned =>
                         /\ ledger'[m].poisoned
                         /\ ledger'[m].leases \subseteq ledger[m].leases
  <1>2. TypeInv /\ [Next]_vars => [Closed]_vars
    BY <1>1
  <1> QED BY <1>2, TypeInit, TypeStep, PTL DEF Spec, FailsClosed

\* What an authorization spends: nothing, the leases it gives up, or as much as
\* brings the total to what its run has read.
LEMMA AfterSpends ==
  ASSUME TypeInv, NEW r \in Runs, NEW o, NEW c \in Calls, call[c] = NoCall
  PROVE  LET L == ledger[MonthOf(r)]
             N == After(r, o, c)
         IN
         \/ N.spent = L.spent
         \/ N.spent = run[r].seen
         \/ N.spent = L.spent + Total(Reserve, Due(L)) /\ L.leases \ N.leases = Due(L)
  <1> DEFINE L == ledger[MonthOf(r)]
             O == Once(r, c)
             W == AuthorizeScript(O, r, c)
  <1>1. /\ MonthOf(r) \in Months /\ L \in Ledger /\ O \in Ledger /\ ~call[c].due
        /\ L.leases \in SUBSET Calls /\ O.leases \in SUBSET Calls
    <2>1. MonthOf(r) \in Months /\ L \in Ledger
      BY SentType DEF MonthOf, TypeInv, TypeOK
    <2>2. O \in Ledger /\ ~call[c].due
      BY AfterType DEF NoCall
    <2> HIDE DEF L, O
    <2> QED BY <2>1, <2>2 DEF Ledger
  <1>2. c \notin L.leases
    BY <1>1 DEF TypeInv, TypeOK, CallsOf, NoCall, Months
  <1>3. Due(L) \subseteq L.leases /\ c \notin Due(L)
    BY <1>1 DEF Due
  <1>4. /\ O.leases \in {L.leases \ Due(L), (L.leases \ Due(L)) \cup {c}}
        /\ \/ O.spent = L.spent
           \/ O.spent = run[r].seen
           \/ O.spent = L.spent + Total(Reserve, Due(L))
    <2>1. Verdict(L, r) \in {"POISONED", "EXHAUSTED", "AUTHORIZED"}
      BY DEF Verdict
    <2>2. Spent(L, r) = run[r].seen \/ Spent(L, r) = L.spent + Total(Reserve, Due(L))
      BY <1>1, SweptIs DEF Spent, Larger
    <2> HIDE DEF L
    <2> QED BY <1>1, <2>1, <2>2, ScriptIs DEF Once, L
  <1>5. Due(O) = {}
    BY <1>1, <1>4 DEF Due
  <1>6. Swept(O).spent = O.spent
    <2>1. Total(Reserve, Due(O)) = 0
      BY <1>5, AmountsType, TotalOfNone
    <2>2. Swept(O).spent = O.spent + Total(Reserve, Due(O)) /\ O.spent \in Nat
      BY <1>1, SweptIs DEF Ledger
    <2> QED BY <2>1, <2>2
  <1>7. /\ W.leases \in {O.leases, O.leases \cup {c}}
        /\ W.spent = O.spent \/ W.spent = run[r].seen
    <2>1. Verdict(O, r) \in {"POISONED", "EXHAUSTED", "AUTHORIZED"}
      BY DEF Verdict
    <2>2. Spent(O, r) = run[r].seen \/ Spent(O, r) = O.spent
      BY <1>6 DEF Spent, Larger
    <2>3. O.leases \ Due(O) = O.leases
      BY <1>5
    <2>4. /\ W.leases \in {O.leases \ Due(O), (O.leases \ Due(O)) \cup {c}}
          /\ W.spent \in {O.spent, Spent(O, r)}
      <3> HIDE DEF O
      <3> QED BY <1>1, <2>1, ScriptIs
    <2> HIDE DEF O, W
    <2> QED BY <2>2, <2>3, <2>4
  <1>8. After(r, o, c) \in {L, O, W}
    BY DEF After
  <1>9. L.leases \ O.leases = Due(L) /\ L.leases \ W.leases = Due(L)
    <2> HIDE DEF L, O, W
    <2> QED BY <1>2, <1>3, <1>4, <1>7
  <1> HIDE DEF L, O, W
  <1>10. \/ After(r, o, c).spent = L.spent
         \/ After(r, o, c).spent = run[r].seen
         \/ /\ After(r, o, c).spent = L.spent + Total(Reserve, Due(L))
            /\ L.leases \ After(r, o, c).leases = Due(L)
    <2>1. CASE After(r, o, c) = L
      BY <2>1
    <2>2. CASE After(r, o, c) = O
      BY <1>4, <1>9, <2>2
    <2>3. CASE After(r, o, c) = W
      BY <1>4, <1>7, <1>9, <2>3
    <2> QED BY <1>8, <2>1, <2>2, <2>3
  <1> QED BY <1>10 DEF L

\* One step charges a month no more than the leases it gives up.
LEMMA StepCharges ==
  ASSUME TypeInv, [Next]_vars, NEW m \in Months
  PROVE  \/ ledger'[m].spent - ledger[m].spent
              <= Total(Reserve, ledger[m].leases \ ledger'[m].leases)
         \/ \E r \in Runs : ledger'[m].spent = run[r].seen
  <1> DEFINE G == ledger[m].leases \ ledger'[m].leases
  <1>1. /\ ledger[m] \in Ledger /\ ledger[m].spent \in Nat /\ G \in SUBSET Calls
        /\ Reserve \in Amounts
    BY AmountsType DEF TypeInv, TypeOK, Ledger
  <1>2. Total(Reserve, G) \in Nat
    BY <1>1, SpendType
  <1>3. ASSUME ledger'[m].spent = ledger[m].spent
        PROVE  ledger'[m].spent - ledger[m].spent <= Total(Reserve, G)
    BY <1>1, <1>2, <1>3
  <1>4. ASSUME NEW r \in Runs, NEW o \in Outcomes, NEW c \in Calls, Authorize(r, o, c)
        PROVE  \/ ledger'[m].spent - ledger[m].spent <= Total(Reserve, G)
               \/ \E s \in Runs : ledger'[m].spent = run[s].seen
    <2>1. CASE m # MonthOf(r)
      <3>1. ledger'[m] = ledger[m]
        BY <1>4, <2>1, AuthorizedCalls
      <3> HIDE DEF G
      <3> QED BY <1>3, <3>1
    <2>2. CASE m = MonthOf(r)
      <3>1. ledger'[m] = After(r, o, c) /\ call[c] = NoCall
        BY <1>4, <2>2, AuthorizedCalls
      <3>2. \/ ledger'[m].spent = ledger[m].spent
            \/ ledger'[m].spent = run[r].seen
            \/ /\ ledger'[m].spent = ledger[m].spent + Total(Reserve, Due(ledger[m]))
               /\ G = Due(ledger[m])
        BY <2>2, <3>1, AfterSpends
      <3> HIDE DEF G
      <3>3. CASE ledger'[m].spent = ledger[m].spent
        BY <1>3, <3>3
      <3>4. CASE ledger'[m].spent = run[r].seen
        BY <3>4
      <3>5. CASE /\ ledger'[m].spent = ledger[m].spent + Total(Reserve, Due(ledger[m]))
                 /\ G = Due(ledger[m])
        BY <1>1, <1>2, <3>5
      <3> QED BY <3>2, <3>3, <3>4, <3>5
    <2> QED BY <2>1, <2>2
  <1>5. ASSUME NEW r \in Runs, NEW o \in Outcomes, Settle(r, o)
        PROVE  ledger'[m].spent - ledger[m].spent <= Total(Reserve, G)
    <2>1. CASE LedgersKept
      <3>1. ledger'[m].spent = ledger[m].spent
        BY <2>1 DEF LedgersKept
      <3> HIDE DEF G
      <3> QED BY <1>3, <3>1
    <2>2. CASE ~LedgersKept /\ m # MonthOf(r)
      <3>1. ledger'[m] = ledger[m]
        BY <1>5, <2>2, SettleLedgers
      <3> HIDE DEF G
      <3> QED BY <1>3, <3>1
    <2>3. CASE ~LedgersKept /\ m = MonthOf(r)
      <3> DEFINE c == run[r].id
      <3>1. /\ c \in Calls /\ c \in ledger[m].leases
            /\ ledger'[m].leases = ledger[m].leases \ {c}
            /\ ledger'[m].spent = ledger[m].spent + Charge(r)
            /\ Charge(r) \in Nat /\ Charge(r) <= call[c].reserve
        BY <1>5, <2>3, SettleLedgers
      <3>2. G = {c}
        BY <3>1
      <3> HIDE DEF c, G
      <3>3. Total(Reserve, G) = call[c].reserve
        BY <1>1, <3>1, <3>2, SpendOfOne, AmountsType
      <3> QED BY <1>1, <1>2, <3>1, <3>3
    <2> QED BY <2>1, <2>2, <2>3
  <1>6. LedgersKept => ledger'[m].spent = ledger[m].spent
    BY DEF LedgersKept
  <1> HIDE DEF G
  <1>7. \/ ledger'[m].spent - ledger[m].spent <= Total(Reserve, G)
        \/ \E r \in Runs : ledger'[m].spent = run[r].seen
    BY <1>3, <1>4, <1>5, <1>6, StepKinds
  <1> QED BY <1>7 DEF G

\* A month's spend grows only by leases it gives up, or to a total some run has
\* read: no reservation is charged twice.
THEOREM NothingChargedTwice == Spec => ChargedOnce
  <1> DEFINE Charges == \A m \in Months :
        \/ ledger'[m].spent - ledger[m].spent
             <= Total(Reserve, ledger[m].leases \ ledger'[m].leases)
        \/ \E r \in Runs : ledger'[m].spent = run[r].seen
  <1>1. TypeInv /\ [Next]_vars => [Charges]_vars
    BY StepCharges
  <1> QED BY <1>1, TypeInit, TypeStep, PTL DEF Spec, ChargedOnce

-------------------------------------------------------------------------------
(* The reserved total                                                      *)

Plain(m) == m \notin repeated /\ ~ledger[m].poisoned
Exact == \A m \in Months : Plain(m) => Total(Reserve, ledger[m].leases) = ledger[m].reserved

LEMMA NextExact ==
  ASSUME \A m \in Months : m \notin repeated' /\ ~ledger'[m].poisoned =>
           Total(Reserve', ledger'[m].leases) = ledger'[m].reserved
  PROVE  Exact'
  BY DEF Exact, Plain

\* Authorizations that ran twice are not forgotten.
LEMMA RepeatedGrows == [Next]_vars => repeated \subseteq repeated'
  <1> SUFFICES ASSUME [Next]_vars PROVE repeated \subseteq repeated'
    OBVIOUS
  <1>1. CASE UNCHANGED vars
    BY <1>1 DEF vars
  <1>2. ASSUME NEW c \in Calls, LeaseRunsOut(c) PROVE repeated \subseteq repeated'
    BY <1>2 DEF LeaseRunsOut
  <1>3. CASE MonthTurns
    BY <1>3 DEF MonthTurns
  <1>4. ASSUME NEW r \in Runs, RunStep(r) PROVE repeated \subseteq repeated'
    <2>1. ASSUME NEW o, NEW c \in Calls, Authorize(r, o, c) PROVE repeated \subseteq repeated'
      BY <2>1, AuthorizeIs
    <2>2. ASSUME NEW q, Begin(r, q) PROVE repeated \subseteq repeated'
      BY <2>2 DEF Begin
    <2>3. ASSUME NEW o, LoadReport(r, o) \/ Record(r, o) \/ Settle(r, o) \/ Poison(r, o)
          PROVE  repeated \subseteq repeated'
      BY <2>3 DEF LoadReport, Record, Settle, Poison
    <2>4. ASSUME NEW amount, Priced(r, amount) PROVE repeated \subseteq repeated'
      BY <2>4 DEF Priced
    <2>5. CASE Unpriced(r) \/ Unreadable(r) \/ Rejected(r) \/ Ambiguous(r) \/ Restart(r)
      BY <2>5 DEF Unpriced, Unreadable, Rejected, Ambiguous, Restart
    <2> QED BY <1>4, <2>1, <2>2, <2>3, <2>4, <2>5, Zenon DEF RunStep
  <1> QED BY <1>1, <1>2, <1>3, <1>4 DEF Next

\* One execution of the script keeps the reserved total equal to the leases.
LEMMA ScriptExact ==
  ASSUME TypeInv, Backed, Exact, NEW r \in Runs, NEW o, NEW c \in Calls,
         call[c] = NoCall, o # "twice", Plain(MonthOf(r))
  PROVE  Total(Reserve, After(r, o, c).leases)
           + Pending(After(r, o, c), c, run[r].request.reserve)
           = After(r, o, c).reserved
  <1> DEFINE m == MonthOf(r)
             q == run[r].request.reserve
             L == ledger[m]
             H == L.leases \ Due(L)
             O == Once(r, c)
  <1>1. /\ m \in Months /\ L \in Ledger /\ q \in Nat /\ c \notin L.leases
        /\ c \notin CallsOf(m) /\ ~call[c].due /\ Covers(L, c, q, m)
    <2>1. m \in Months /\ L \in Ledger
      BY SentType DEF MonthOf, TypeInv, TypeOK
    <2>2. q \in Nat
      BY SentType, BudgetAssumption DEF RunState, Request, BudgetAssumption
    <2>3. c \notin CallsOf(m) /\ ~call[c].due /\ L.leases \subseteq CallsOf(m)
      BY <2>1 DEF TypeInv, TypeOK, CallsOf, NoCall, Months
    <2>4. Covers(L, c, q, m)
      BY AfterCovers
    <2> QED BY <2>1, <2>2, <2>3, <2>4
  <1>2. Total(Reserve, L.leases) = L.reserved /\ ~L.poisoned
    BY <1>1 DEF Exact, Plain
  <1>3. O = AuthorizeScript(L, r, c) /\ After(r, o, c) \in {L, O}
    BY DEF Once, After
  <1>4. /\ Total(Reserve, Due(L)) \in Nat /\ Total(Reserve, H) \in Nat
        /\ Total(Reserve, L.leases) = Total(Reserve, H) + Total(Reserve, Due(L))
        /\ H \in SUBSET Calls /\ c \notin H
    <2> HIDE DEF m, q, L
    <2> QED BY <1>1, DueSums
  <1>5. Swept(L).reserved = Total(Reserve, H)
    <2>1. Swept(L).reserved = Without(L.reserved, Total(Reserve, Due(L)))
      BY <1>1, SweptIs
    <2> HIDE DEF H, L
    <2>2. /\ L.reserved \in Nat /\ Total(Reserve, Due(L)) <= L.reserved
          /\ L.reserved - Total(Reserve, Due(L)) = Total(Reserve, H)
      BY <1>2, <1>4
    <2> QED BY <1>4, <2>1, <2>2, WithoutType
  <1>6. \/ O.leases = H /\ O.reserved = Total(Reserve, H)
        \/ O.leases = H \cup {c} /\ O.reserved = Total(Reserve, H) + q
    <2>1. Verdict(L, r) \in {"EXHAUSTED", "AUTHORIZED"}
      BY <1>2 DEF Verdict
    <2> HIDE DEF L, O, m
    <2> QED BY <1>1, <1>3, <1>5, <2>1, ScriptIs
  <1>7. Total(Reserve, H \cup {c}) = Total(Reserve, H)
    BY <1>4, BlankWeighsNothing
  <1> HIDE DEF m, q, L, H, O
  <1>8. Total(Reserve, L.leases) + Pending(L, c, q) = L.reserved
    BY <1>1, <1>2, <1>4 DEF Pending
  <1>9. Total(Reserve, O.leases) + Pending(O, c, q) = O.reserved
    <2>1. CASE O.leases = H /\ O.reserved = Total(Reserve, H)
      <3>1. Pending(O, c, q) = 0
        BY <1>4, <2>1 DEF Pending
      <3> QED BY <1>4, <2>1, <3>1
    <2>2. CASE O.leases = H \cup {c} /\ O.reserved = Total(Reserve, H) + q
      <3>1. Pending(O, c, q) = q
        BY <2>2 DEF Pending
      <3> QED BY <1>7, <2>2, <3>1
    <2> QED BY <1>6, <2>1, <2>2
  <1> QED BY <1>3, <1>8, <1>9 DEF q

LEMMA ExactStep ==
  ASSUME TypeInv, Backed, Exact, [Next]_vars
  PROVE  Exact'
  <1>1. TypeInv' /\ repeated \subseteq repeated'
    BY TypeStep, RepeatedGrows
  <1> SUFFICES ASSUME NEW m \in Months, m \notin repeated', ~ledger'[m].poisoned
               PROVE  Total(Reserve', ledger'[m].leases) = ledger'[m].reserved
    BY NextExact
  <1> DEFINE H == ledger[m].leases
  <1>2. m \notin repeated
    BY <1>1
  <1>3. ~ledger[m].poisoned => Total(Reserve, H) = ledger[m].reserved
    BY <1>2 DEF Exact, Plain
  <1>4. H \in SUBSET Calls /\ ledger[m].reserved \in Nat
    BY DEF TypeInv, TypeOK, Ledger
  <1>5. ASSUME NEW r \in Runs, NEW o \in Outcomes, NEW c \in Calls, Authorize(r, o, c)
        PROVE  Total(Reserve', ledger'[m].leases) = ledger'[m].reserved
    <2>1. CASE m # MonthOf(r)
      <3>1. ledger'[m] = ledger[m] /\ call[c] = NoCall
        BY <1>5, <2>1, AuthorizedCalls
      <3>2. c \notin H
        BY <3>1 DEF TypeInv, TypeOK, CallsOf, NoCall, Months
      <3> HIDE DEF H
      <3>3. Total(Reserve', H) = Total(Reserve, H)
        BY <1>4, <1>5, <3>2, OthersSame
      <3> QED BY <1>3, <3>1, <3>3 DEF H
    <2>2. CASE m = MonthOf(r)
      <3> DEFINE N == After(r, o, c)
      <3>1. ledger'[m] = N /\ call[c] = NoCall
        BY <1>5, <2>2, AuthorizedCalls
      <3>2. N.poisoned = ledger[m].poisoned
        BY <2>2, AfterType
      <3>3. o # "twice"
        BY <1>5, <2>2, AuthorizeIs
      <3>4. Plain(MonthOf(r))
        BY <1>2, <2>2, <3>1, <3>2 DEF Plain
      <3>5. Total(Reserve', N.leases)
              = Total(Reserve, N.leases) + Pending(N, c, run[r].request.reserve)
        BY <1>5, <2>2, AuthorizeSums
      <3>6. Total(Reserve, N.leases) + Pending(N, c, run[r].request.reserve) = N.reserved
        BY <3>1, <3>3, <3>4, ScriptExact
      <3> HIDE DEF N
      <3> QED BY <3>1, <3>5, <3>6
    <2> QED BY <2>1, <2>2
  <1>6. ASSUME CostsFall, ledger'[m].leases = H, ledger'[m].reserved = ledger[m].reserved,
               ~ledger[m].poisoned
        PROVE  Total(Reserve', ledger'[m].leases) = ledger'[m].reserved
    <2> HIDE DEF H
    <2> QED BY <1>1, <1>3, <1>4, <1>6, FallSums
  <1>7. ASSUME CostsFall, LedgersKept
        PROVE  Total(Reserve', ledger'[m].leases) = ledger'[m].reserved
    BY <1>6, <1>7 DEF LedgersKept
  <1>8. ASSUME CostsFall, NEW r \in Runs, NEW o \in Outcomes, Settle(r, o)
        PROVE  Total(Reserve', ledger'[m].leases) = ledger'[m].reserved
    <2>1. CASE LedgersKept
      BY <1>7, <1>8, <2>1
    <2>2. CASE ~LedgersKept /\ m # MonthOf(r)
      <3>1. ledger'[m] = ledger[m]
        BY <1>8, <2>2, SettleLedgers
      <3> QED BY <1>6, <1>8, <3>1
    <2>3. CASE ~LedgersKept /\ m = MonthOf(r)
      <3> DEFINE c == run[r].id
                 K == H \ {c}
      <3>1. /\ c \in Calls /\ c \in H /\ ledger'[m].leases = K
            /\ ledger'[m].reserved = Without(ledger[m].reserved, call[c].reserve)
            /\ ~ledger[m].poisoned
        BY <1>8, <2>3, SettleLedgers
      <3>2. /\ Reserve \in Amounts /\ Reserve[c] = call[c].reserve /\ call[c].reserve \in Nat
        BY <3>1, AmountsType, BudgetAssumption
        DEF TypeInv, TypeOK, CallState, BudgetAssumption
      <3>3. /\ K \in SUBSET Calls /\ H = K \cup {c} /\ K \cap {c} = {}
        BY <1>4, <3>1
      <3> HIDE DEF c, K, H
      <3>4. Total(Reserve, H) = Total(Reserve, K) + call[c].reserve
        <4>1. Total(Reserve, K \cup {c}) = Total(Reserve, K) + Total(Reserve, {c})
          BY <3>1, <3>2, <3>3, SpendSplits
        <4>2. Total(Reserve, {c}) = call[c].reserve
          BY <3>1, <3>2, SpendOfOne
        <4> QED BY <3>3, <4>1, <4>2
      <3>5. Total(Reserve', K) = Total(Reserve, K) /\ Total(Reserve, K) \in Nat
        BY <1>1, <1>8, <3>3, FallSums
      <3>6. /\ call[c].reserve <= ledger[m].reserved
            /\ ledger[m].reserved - call[c].reserve = Total(Reserve, K)
        BY <1>3, <3>1, <3>2, <3>4, <3>5
      <3>7. ledger'[m].reserved = Total(Reserve, K)
        BY <1>4, <3>1, <3>2, <3>6, WithoutType
      <3> QED BY <3>1, <3>5, <3>7
    <2> QED BY <2>1, <2>2, <2>3
  <1> QED BY <1>5, <1>7, <1>8, StepKinds

\* The reserved total holds every lease, and nothing else unless an
\* authorization ran twice or the month is poisoned.
THEOREM ReservedMatchesLeases == Spec => []ReservedIsLeases
  <1>1. Init => Inv /\ Exact
    <2> SUFFICES ASSUME Init PROVE Exact
      BY InvInit
    <2>1. TypeInv
      BY TypeInit
    <2>2. \A m \in Months : ledger[m].leases = {} /\ ledger[m].reserved = 0
      BY DEF Init, EmptyLedger
    <2>3. Total(Reserve, {}) = 0
      BY <2>1, AmountsType, TotalOfNone
    <2> QED BY <2>2, <2>3 DEF Exact
  <1>2. Inv /\ Exact /\ [Next]_vars => Inv' /\ Exact'
    BY InvStep, ExactStep DEF Inv
  <1>3. Inv /\ Exact => ReservedIsLeases
    BY DEF Inv, Backed, BackedBy, Exact, Plain, ReservedIsLeases
  <1> QED BY <1>1, <1>2, <1>3, PTL DEF Spec

-----------------------------------------------------------------------------
(***************************************************************************)
(* A run's own limit holds for its priced calls, for any number of         *)
(* processes, calls and failures (AnthropicBudget).                        *)
(*                                                                         *)
(* The run ledger commits a call when its answer is recorded, so the bound *)
(* is not inductive by itself: between the authorization and that moment   *)
(* the call is open, its cost is in no committed amount, and what keeps    *)
(* the limit is the room Affordable left for it.  RunKeeps says so.        *)
(***************************************************************************)

(* The call of a run its ledger has not committed yet, the priced calls it *)
(* has, and the room it holds free for the request under way.              *)
OpenPCs == {"call", "record"}
AskingPCs == {"load", "authorize", "call", "record"}
OpenOf(v) == IF v.pc \in OpenPCs THEN {v.id} ELSE {}
ClosedOf(v, calls) == {c \in v.made : calls[c].priced} \ OpenOf(v)
Room(v) == IF v.pc \in AskingPCs THEN v.request.reserve ELSE 0

\* A run has committed what its closed calls cost and still has room for the
\* open one, which costs no more than its request's bound.
Keeps(v, calls, sum, limit) ==
  /\ sum <= v.committed
  /\ v.committed + Room(v) <= limit
  /\ v.pc \in OpenPCs => v.id \in v.made /\ calls[v.id].cost <= v.request.bound
  /\ v.pc = "record" /\ v.answer # "priced" => ~calls[v.id].priced
RunKeeps == \A r \in Runs :
  Keeps(run[r], call, Total(Cost, ClosedOf(run[r], call)), RunMax[r])

\* The calls a run made have been granted.
MadeIsUsed == \A r \in Runs : \A c \in run[r].made : call[c].month # 0

RunInv == RunKeeps /\ MadeIsUsed

LEMMA NextRunInv ==
  ASSUME \A r \in Runs :
           /\ Keeps(run'[r], call', Total(Cost', ClosedOf(run'[r], call')), RunMax[r])
           /\ \A c \in run'[r].made : call'[c].month # 0
  PROVE  RunInv'
  BY DEF RunInv, RunKeeps, MadeIsUsed

-------------------------------------------------------------------------------
(* What a step does to the calls already granted                           *)

\* A granted call stays granted, its cost only falls, and one that came back
\* without token counts never gets them.
Falls == \A c \in Calls : call[c].month # 0 =>
  /\ call'[c].month # 0 /\ call'[c].cost <= call[c].cost
  /\ call'[c].priced => call[c].priced

LEMMA CallNumbers == ASSUME TypeInv
  PROVE \A c \in Calls : /\ call[c] \in CallState /\ call[c].cost \in Nat
                         /\ call[c].month \in Nat
  BY BudgetAssumption DEF TypeInv, TypeOK, CallState, Months, BudgetAssumption

LEMMA NextCallNumbers == ASSUME TypeInv'
  PROVE \A c \in Calls : call'[c].cost \in Nat /\ call'[c].month \in Nat
  BY BudgetAssumption DEF TypeInv, TypeOK, CallState, Months, BudgetAssumption

LEMMA SameFalls == ASSUME TypeInv, UNCHANGED call PROVE Falls
  BY CallNumbers DEF Falls

LEMMA OneFalls ==
  ASSUME TypeInv, NEW d \in Calls, NEW v, v.cost <= call[d].cost,
         v.month = call[d].month, v.priced => call[d].priced,
         call' = [call EXCEPT ![d] = v]
  PROVE  Falls /\ call'[d] = v
  <1>1. \A c \in Calls : call'[c] = IF c = d THEN v ELSE call[c]
    BY DEF TypeInv, TypeOK
  <1>2. \A c \in Calls : call[c].cost \in Nat
    BY CallNumbers
  <1> QED BY <1>1, <1>2 DEF Falls

LEMMA AnswerFalls ==
  ASSUME TypeInv, NEW r \in Runs
  PROVE  /\ \A amount \in 0 .. MaxReserve : Priced(r, amount) =>
              /\ Falls /\ run[r].pc = "call" /\ call'[run[r].id].cost = amount
              /\ amount <= call[run[r].id].cost
         /\ Unpriced(r) => /\ Falls /\ run[r].pc = "call"
                           /\ ~call'[run[r].id].priced
                           /\ call'[run[r].id].cost = call[run[r].id].cost
         /\ Rejected(r) => /\ Falls /\ run[r].pc = "call" /\ call'[run[r].id].cost = 0
  <1> DEFINE c == run[r].id
  <1>1. run[r].pc = "call" => c \in Calls /\ call[c] \in CallState /\ call[c].cost \in Nat
    BY SentType DEF Sent
  <1>2. ASSUME NEW amount \in 0 .. MaxReserve, Priced(r, amount)
        PROVE  /\ Falls /\ run[r].pc = "call" /\ call'[c].cost = amount
               /\ amount <= call[c].cost
    <2> DEFINE v == [call[c] EXCEPT !.cost = amount]
    <2>1. /\ run[r].pc = "call" /\ amount <= call[c].cost
          /\ call' = [call EXCEPT ![c] = v]
      BY <1>2 DEF Priced
    <2>2. v.cost = amount /\ v.month = call[c].month /\ v.priced = call[c].priced
      BY <1>1, <2>1 DEF CallState
    <2> HIDE DEF v, c
    <2> QED BY <1>1, <2>1, <2>2, OneFalls
  <1>3. ASSUME Unpriced(r)
        PROVE  /\ Falls /\ run[r].pc = "call" /\ ~call'[c].priced
               /\ call'[c].cost = call[c].cost
    <2> DEFINE v == [call[c] EXCEPT !.priced = FALSE]
    <2>1. run[r].pc = "call" /\ call' = [call EXCEPT ![c] = v]
      BY <1>3 DEF Unpriced
    <2>2. v.cost = call[c].cost /\ v.month = call[c].month /\ v.priced = FALSE
      BY <1>1, <2>1 DEF CallState
    <2> HIDE DEF v, c
    <2>3. v.cost <= call[c].cost
      BY <1>1, <2>1, <2>2
    <2> QED BY <1>1, <2>1, <2>2, <2>3, OneFalls
  <1>4. ASSUME Rejected(r)
        PROVE  Falls /\ run[r].pc = "call" /\ call'[c].cost = 0
    <2> DEFINE v == [call[c] EXCEPT !.cost = 0]
    <2>1. run[r].pc = "call" /\ call' = [call EXCEPT ![c] = v]
      BY <1>4 DEF Rejected
    <2>2. v.cost = 0 /\ v.month = call[c].month /\ v.priced = call[c].priced
      BY <1>1, <2>1 DEF CallState
    <2> HIDE DEF v, c
    <2>3. v.cost <= call[c].cost
      BY <1>1, <2>1, <2>2
    <2> QED BY <1>1, <2>1, <2>2, <2>3, OneFalls
  <1> QED BY <1>2, <1>3, <1>4

LEMMA LeaseFalls ==
  ASSUME TypeInv, NEW c \in Calls, LeaseRunsOut(c)
  PROVE  Falls
  <1> DEFINE v == [call[c] EXCEPT !.due = TRUE]
  <1>1. call' = [call EXCEPT ![c] = v] /\ call[c] \in CallState /\ call[c].cost \in Nat
    BY CallNumbers DEF LeaseRunsOut
  <1>2. v.cost = call[c].cost /\ v.month = call[c].month /\ v.priced = call[c].priced
    BY <1>1 DEF CallState
  <1> HIDE DEF v
  <1>3. v.cost <= call[c].cost
    BY <1>1, <1>2
  <1> QED BY <1>1, <1>2, <1>3, OneFalls

-------------------------------------------------------------------------------
(* The sum of the closed calls                                             *)

\* A set of granted calls that lost some of them costs no more.
LEMMA FewerCostLess ==
  ASSUME TypeInv, TypeInv', Falls, NEW T \in SUBSET Calls, NEW S \in SUBSET T,
         \A c \in T : call[c].month # 0
  PROVE  /\ Total(Cost', S) <= Total(Cost, T)
         /\ Total(Cost', S) \in Nat /\ Total(Cost, T) \in Nat
  <1>1. /\ Cost \in Amounts /\ Cost' \in Amounts
        /\ \A c \in S : Cost'[c] <= Cost[c]
    BY AmountsType, NextAmounts DEF Falls
  <1> QED BY <1>1, SpendGrows, SpendType

\* With one more call it costs at most that call's cost more.
LEMMA OneMoreCosts ==
  ASSUME TypeInv, TypeInv', Falls, NEW T \in SUBSET Calls, NEW c \in Calls,
         NEW S \in SUBSET (T \cup {c}), \A d \in T : call[d].month # 0
  PROVE  /\ Total(Cost', S) <= Total(Cost, T) + call'[c].cost
         /\ Total(Cost', S) \in Nat /\ Total(Cost, T) \in Nat /\ call'[c].cost \in Nat
  <1> DEFINE R == S \ {c}
  <1>1. /\ Cost' \in Amounts /\ Cost'[c] = call'[c].cost /\ Cost'[c] \in Nat
        /\ R \in SUBSET T /\ R \in SUBSET Calls /\ {c} \in SUBSET Calls
        /\ R \cup {c} \in SUBSET Calls /\ S \in SUBSET (R \cup {c}) /\ R \cap {c} = {}
    BY NextAmounts, BudgetAssumption DEF Amounts, BudgetAssumption
  <1> HIDE DEF R
  <1>2. Total(Cost', R) <= Total(Cost, T) /\ Total(Cost', R) \in Nat /\ Total(Cost, T) \in Nat
    BY <1>1, FewerCostLess
  <1>3. Total(Cost', R \cup {c}) = Total(Cost', R) + Total(Cost', {c})
    BY <1>1, SpendSplits
  <1>4. Total(Cost', {c}) = call'[c].cost
    BY <1>1, SpendOfOne
  <1>5. \A d \in S : Cost'[d] <= Cost'[d]
    BY <1>1, BudgetAssumption DEF Amounts, BudgetAssumption
  <1>6. Total(Cost', S) <= Total(Cost', R \cup {c}) /\ Total(Cost', S) \in Nat
    BY <1>1, <1>5, SpendGrows, SpendType
  <1> QED BY <1>1, <1>2, <1>3, <1>4, <1>6

-------------------------------------------------------------------------------
(* The runs a step leaves alone                                            *)

\* What the invariant says of a run, and the types behind it.
LEMMA KeepsType ==
  ASSUME TypeInv, RunInv, NEW r \in Runs
  PROVE  /\ run[r].made \in SUBSET Calls /\ run[r].committed \in Nat
         /\ RunMax[r] \in Nat /\ run[r].request.bound \in Nat
         /\ run[r].request.reserve \in Nat
         /\ run[r].request.bound <= run[r].request.reserve
         /\ ClosedOf(run[r], call) \in SUBSET Calls
         /\ \A c \in run[r].made : call[c].month # 0
         /\ \A c \in ClosedOf(run[r], call) : call[c].month # 0
         /\ Keeps(run[r], call, Total(Cost, ClosedOf(run[r], call)), RunMax[r])
         /\ Total(Cost, ClosedOf(run[r], call)) \in Nat
  <1>1. run[r].made \in SUBSET Calls /\ run[r].committed \in Nat /\ run[r].request \in Request
    BY SentType DEF RunState
  <1>2. RunMax[r] \in Nat
    BY BudgetAssumption DEF BudgetAssumption
  <1>3. /\ run[r].request.bound \in Nat /\ run[r].request.reserve \in Nat
        /\ run[r].request.bound <= run[r].request.reserve
    BY <1>1, BudgetAssumption DEF Request, BudgetAssumption
  <1>4. ClosedOf(run[r], call) \in SUBSET run[r].made
    BY DEF ClosedOf
  <1>5. Total(Cost, ClosedOf(run[r], call)) \in Nat
    BY <1>1, <1>4, AmountsType, SpendType
  <1> QED BY <1>1, <1>2, <1>3, <1>4, <1>5 DEF RunInv, RunKeeps, MadeIsUsed

\* What has to be shown of a run after a step.
KeptAfter(r) ==
  /\ Keeps(run'[r], call', Total(Cost', ClosedOf(run'[r], call')), RunMax[r])
  /\ \A c \in run'[r].made : call'[c].month # 0

LEMMA OtherKept ==
  ASSUME TypeInv, TypeInv', RunInv, Falls, NEW r \in Runs, run'[r] = run[r]
  PROVE  KeptAfter(r)
  <1> DEFINE S == ClosedOf(run[r], call')
             T == ClosedOf(run[r], call)
  <1>1. /\ run[r].made \in SUBSET Calls /\ T \in SUBSET Calls
        /\ \A c \in run[r].made : call[c].month # 0
        /\ \A c \in T : call[c].month # 0
        /\ Keeps(run[r], call, Total(Cost, T), RunMax[r]) /\ run[r].committed \in Nat
    BY KeepsType
  <1>2. S \in SUBSET T
    BY <1>1 DEF ClosedOf, Falls
  <1> HIDE DEF S, T
  <1>3. Total(Cost', S) <= Total(Cost, T) /\ Total(Cost', S) \in Nat /\ Total(Cost, T) \in Nat
    BY <1>1, <1>2, FewerCostLess
  <1>4. Total(Cost', S) <= run[r].committed
    BY <1>1, <1>3 DEF Keeps
  <1>5. ASSUME run[r].pc \in OpenPCs
        PROVE  /\ run[r].id \in run[r].made /\ call'[run[r].id].cost <= run[r].request.bound
               /\ ~call[run[r].id].priced => ~call'[run[r].id].priced
    <2>1. /\ run[r].id \in run[r].made /\ run[r].id \in Calls
          /\ call[run[r].id].cost <= run[r].request.bound
      BY <1>1, <1>5 DEF Keeps
    <2>2. /\ call'[run[r].id].cost <= call[run[r].id].cost
          /\ ~call[run[r].id].priced => ~call'[run[r].id].priced
      BY <1>1, <2>1 DEF Falls
    <2>3. /\ call'[run[r].id].cost \in Nat /\ call[run[r].id].cost \in Nat
          /\ run[r].request.bound \in Nat
      BY <2>1, CallNumbers, NextCallNumbers, KeepsType
    <2> QED BY <2>1, <2>2, <2>3
  <1>6. run[r].pc = "record" /\ run[r].answer # "priced" => ~call'[run[r].id].priced
    BY <1>1, <1>5 DEF Keeps, OpenPCs
  <1>7. \A c \in run[r].made : call'[c].month # 0
    BY <1>1 DEF Falls
  <1>8. run[r].committed + Room(run[r]) <= RunMax[r]
    BY <1>1 DEF Keeps
  <1> QED BY <1>4, <1>5, <1>6, <1>7, <1>8 DEF Keeps, KeptAfter, S

-------------------------------------------------------------------------------
(* The run that moves                                                      *)

\* The new state of the run is the one its step gives it.
LEMMA NewState ==
  ASSUME TypeInv, NEW r \in Runs, NEW v, run' = [run EXCEPT ![r] = v]
  PROVE  run'[r] = v /\ \A s \in Runs : s # r => run'[s] = run[s]
  BY DEF TypeInv, TypeOK

\* What the closed calls of a run cost after a step, and with one more of them.
LEMMA ClosedCost ==
  ASSUME TypeInv, TypeInv', RunInv, Falls, NEW r \in Runs
  PROVE  /\ \A S \in SUBSET ClosedOf(run[r], call) :
              Total(Cost', S) \in Nat /\ Total(Cost', S) <= run[r].committed
         /\ \A c \in Calls : \A S \in SUBSET (ClosedOf(run[r], call) \cup {c}) :
              /\ Total(Cost', S) \in Nat /\ call'[c].cost \in Nat
              /\ Total(Cost', S) <= run[r].committed + call'[c].cost
  <1> DEFINE T == ClosedOf(run[r], call)
  <1>1. /\ T \in SUBSET Calls /\ \A c \in T : call[c].month # 0
        /\ Total(Cost, T) <= run[r].committed /\ run[r].committed \in Nat
    BY KeepsType DEF Keeps
  <1> HIDE DEF T
  <1>2. ASSUME NEW S \in SUBSET T
        PROVE  Total(Cost', S) \in Nat /\ Total(Cost', S) <= run[r].committed
    <2>1. Total(Cost', S) <= Total(Cost, T) /\ Total(Cost', S) \in Nat /\ Total(Cost, T) \in Nat
      BY <1>1, FewerCostLess
    <2> QED BY <1>1, <2>1
  <1>3. ASSUME NEW c \in Calls, NEW S \in SUBSET (T \cup {c})
        PROVE  /\ Total(Cost', S) \in Nat /\ call'[c].cost \in Nat
               /\ Total(Cost', S) <= run[r].committed + call'[c].cost
    <2>1. /\ Total(Cost', S) <= Total(Cost, T) + call'[c].cost
          /\ Total(Cost', S) \in Nat /\ Total(Cost, T) \in Nat /\ call'[c].cost \in Nat
      BY <1>1, OneMoreCosts
    <2> QED BY <1>1, <2>1
  <1> QED BY <1>2, <1>3 DEF T

\* No call is closed, none becomes open unless it is one of the run's.
LEMMA QuietKept ==
  ASSUME TypeInv, TypeInv', RunInv, Falls, NEW r \in Runs, NEW v, run'[r] = v,
         ClosedOf(v, call') \subseteq ClosedOf(run[r], call),
         v.committed \in Nat, v.committed >= run[r].committed,
         v.committed + Room(v) <= RunMax[r],
         v.pc \in OpenPCs => v.id \in v.made /\ call'[v.id].cost <= v.request.bound,
         v.pc = "record" /\ v.answer # "priced" => ~call'[v.id].priced,
         \A c \in v.made : call'[c].month # 0
  PROVE  KeptAfter(r)
  <1>1. /\ Total(Cost', ClosedOf(v, call')) \in Nat /\ run[r].committed \in Nat
        /\ Total(Cost', ClosedOf(v, call')) <= run[r].committed
    BY ClosedCost, KeepsType
  <1>2. Total(Cost', ClosedOf(v, call')) <= v.committed
    BY <1>1
  <1> QED BY <1>2 DEF Keeps, KeptAfter

\* The open call is closed, and the run commits at least what it costs.
LEMMA ClosingKept ==
  ASSUME TypeInv, TypeInv', RunInv, Falls, NEW r \in Runs, NEW v, run'[r] = v,
         run[r].pc \in OpenPCs, v.pc \notin AskingPCs, v.made = run[r].made,
         v.committed \in Nat, v.committed >= run[r].committed + call'[run[r].id].cost,
         v.committed <= RunMax[r]
  PROVE  KeptAfter(r)
  <1>1. /\ run[r].made \in SUBSET Calls /\ \A d \in run[r].made : call[d].month # 0
        /\ run[r].id \in Calls /\ run[r].committed \in Nat
    BY KeepsType DEF Keeps
  <1>2. \A d \in v.made : call'[d].month # 0 /\ (call'[d].priced => call[d].priced)
    BY <1>1 DEF Falls
  <1>3. ClosedOf(v, call') \in SUBSET (ClosedOf(run[r], call) \cup {run[r].id})
    BY <1>2 DEF ClosedOf, OpenOf
  <1>4. Room(v) = 0 /\ v.pc \notin OpenPCs /\ v.pc # "record"
    BY DEF Room, AskingPCs, OpenPCs
  <1>5. /\ Total(Cost', ClosedOf(v, call')) \in Nat /\ call'[run[r].id].cost \in Nat
        /\ Total(Cost', ClosedOf(v, call')) <= run[r].committed + call'[run[r].id].cost
    BY <1>1, <1>3, ClosedCost
  <1>6. Total(Cost', ClosedOf(v, call')) <= v.committed /\ v.committed + Room(v) <= RunMax[r]
    BY <1>1, <1>4, <1>5
  <1> QED BY <1>2, <1>4, <1>6 DEF Keeps, KeptAfter

\* The room Affordable left covers the open call's bound.
LEMMA OpenFits ==
  ASSUME TypeInv, RunInv, NEW r \in Runs, run[r].pc \in OpenPCs
  PROVE  /\ run[r].id \in Calls /\ call[run[r].id].cost \in Nat
         /\ call[run[r].id].cost <= run[r].request.bound
         /\ run[r].committed + run[r].request.bound <= RunMax[r]
  <1>1. /\ run[r].id \in Calls /\ call[run[r].id].cost <= run[r].request.bound
        /\ run[r].committed + Room(run[r]) <= RunMax[r]
    BY KeepsType DEF Keeps
  <1>2. Room(run[r]) = run[r].request.reserve
    BY DEF Room, OpenPCs, AskingPCs
  <1>3. /\ run[r].request.bound <= run[r].request.reserve /\ run[r].request.bound \in Nat
        /\ run[r].request.reserve \in Nat /\ run[r].committed \in Nat /\ RunMax[r] \in Nat
    BY KeepsType
  <1> QED BY <1>1, <1>2, <1>3, CallNumbers

\* The state a run starts its next call from keeps what it committed and made.
LEMMA EndedIs ==
  ASSUME TypeInv, NEW r \in Runs
  PROVE  /\ Ended(r).made = run[r].made /\ Failed(r).made = run[r].made
         /\ Ended(r).committed = run[r].committed /\ Failed(r).committed = run[r].committed
         /\ Ended(r).pc = "idle" /\ Failed(r).pc = "idle"
  BY EndedType DEF Ended, Failed, NewRun, RunState

\* An answer leaves the call open.
AnswerLeaves(r, v) ==
  /\ ClosedOf(v, call') \subseteq ClosedOf(run[r], call)
  /\ v.committed \in Nat /\ v.committed >= run[r].committed
  /\ v.committed + Room(v) <= RunMax[r]
  /\ v.id \in v.made
  /\ \A c \in v.made : call'[c].month # 0

LEMMA AnswerOpen ==
  ASSUME TypeInv, TypeInv', RunInv, Falls, NEW r \in Runs, NEW v, run[r].pc \in OpenPCs,
         v.made = run[r].made, v.committed = run[r].committed, v.id = run[r].id,
         v.pc = "record", v.request = run[r].request
  PROVE  AnswerLeaves(r, v)
  <1>1. Room(v) = Room(run[r])
    BY DEF Room, OpenPCs, AskingPCs
  <1>2. OpenOf(v) = OpenOf(run[r])
    BY DEF OpenOf, OpenPCs
  <1>3. \A c \in v.made : call'[c].month # 0 /\ (call'[c].priced => call[c].priced)
    BY KeepsType DEF Falls
  <1>4. ClosedOf(v, call') \subseteq ClosedOf(run[r], call)
    BY <1>2, <1>3 DEF ClosedOf
  <1>5. /\ run[r].committed \in Nat /\ run[r].committed + Room(run[r]) <= RunMax[r]
        /\ run[r].id \in run[r].made
    BY KeepsType DEF Keeps
  <1> QED BY <1>1, <1>3, <1>4, <1>5 DEF AnswerLeaves

LEMMA BeginKept ==
  ASSUME TypeInv, TypeInv', RunInv, NEW r \in Runs, NEW q \in Requests[r], Begin(r, q)
  PROVE  Falls /\ KeptAfter(r) /\ \A s \in Runs : s # r => run'[s] = run[s]
  <1> DEFINE v == [run[r] EXCEPT
        !.pc = IF run[r].seen = NotLoaded THEN "load" ELSE "authorize",
        !.at = month, !.request = q]
  <1>1. /\ run' = [run EXCEPT ![r] = v] /\ UNCHANGED call /\ run[r].pc = "idle"
        /\ run[r].committed + q.reserve <= RunMax[r]
    BY DEF Begin, Affordable
  <1>2. /\ v.pc \in {"load", "authorize"} /\ v.request = q
        /\ v.made = run[r].made /\ v.committed = run[r].committed
    BY SentType DEF RunState
  <1> HIDE DEF v
  <1>3. Falls
    BY <1>1, SameFalls
  <1>4. run'[r] = v /\ \A s \in Runs : s # r => run'[s] = run[s]
    BY <1>1, NewState
  <1>5. Room(v) = q.reserve /\ v.pc \notin OpenPCs /\ v.pc # "record"
    BY <1>2 DEF Room, OpenPCs, AskingPCs
  <1>6. ClosedOf(v, call') \subseteq ClosedOf(run[r], call)
    BY <1>1, <1>2 DEF ClosedOf, OpenOf, OpenPCs
  <1>7. /\ v.committed \in Nat /\ v.committed >= run[r].committed
        /\ \A c \in v.made : call'[c].month # 0
    BY <1>1, <1>2, KeepsType
  <1>8. v.committed + Room(v) <= RunMax[r]
    BY <1>1, <1>2, <1>5
  <1> QED BY <1>3, <1>4, <1>5, <1>6, <1>7, <1>8, QuietKept

LEMMA LoadReportKept ==
  ASSUME TypeInv, TypeInv', RunInv, NEW r \in Runs, NEW o, LoadReport(r, o)
  PROVE  Falls /\ KeptAfter(r) /\ \A s \in Runs : s # r => run'[s] = run[s]
  <1> DEFINE m == run[r].at
             v == IF o = "failed" \/ ledger[m].poisoned THEN Failed(r)
                  ELSE [run[r] EXCEPT !.pc = "authorize",
                                      !.seen = Larger(usage[m], ledger[m].spent)]
  <1>1. run' = [run EXCEPT ![r] = v] /\ UNCHANGED call /\ run[r].pc = "load"
    BY DEF LoadReport
  <1>2. /\ v.made = run[r].made /\ v.committed = run[r].committed
        /\ v.pc \in {"idle", "authorize"}
        /\ v.pc = "authorize" => v.request = run[r].request
    <2>1. CASE o = "failed" \/ ledger[m].poisoned
      BY <2>1, EndedIs
    <2>2. CASE ~(o = "failed" \/ ledger[m].poisoned)
      BY <2>2, SentType DEF RunState
    <2> QED BY <2>1, <2>2
  <1> HIDE DEF v, m
  <1>3. Falls
    BY <1>1, SameFalls
  <1>4. run'[r] = v /\ \A s \in Runs : s # r => run'[s] = run[s]
    BY <1>1, NewState
  <1>5. Room(v) <= Room(run[r]) /\ Room(v) \in Nat /\ Room(run[r]) \in Nat
    BY <1>1, <1>2, KeepsType DEF Room, AskingPCs
  <1>6. ClosedOf(v, call') \subseteq ClosedOf(run[r], call) /\ v.pc \notin OpenPCs /\ v.pc # "record"
    BY <1>1, <1>2 DEF ClosedOf, OpenOf, OpenPCs
  <1>7. /\ v.committed \in Nat /\ v.committed >= run[r].committed
        /\ \A c \in v.made : call'[c].month # 0
    BY <1>1, <1>2, KeepsType
  <1>8. v.committed + Room(v) <= RunMax[r]
    BY <1>2, <1>5, KeepsType DEF Keeps
  <1> QED BY <1>3, <1>4, <1>6, <1>7, <1>8, QuietKept

\* The provider's answers, readable or not.
LEMMA PricedKept ==
  ASSUME TypeInv, TypeInv', RunInv, NEW r \in Runs, NEW amount \in 0 .. MaxReserve,
         Priced(r, amount)
  PROVE  Falls /\ KeptAfter(r) /\ \A s \in Runs : s # r => run'[s] = run[s]
  <1> DEFINE v == [run[r] EXCEPT !.pc = "record", !.answer = "priced"]
  <1>1. run' = [run EXCEPT ![r] = v] /\ run[r].pc \in OpenPCs
    BY DEF Priced, OpenPCs
  <1>2. /\ v.made = run[r].made /\ v.committed = run[r].committed /\ v.id = run[r].id
        /\ v.pc = "record" /\ v.request = run[r].request /\ v.answer = "priced"
    BY SentType DEF RunState
  <1> HIDE DEF v
  <1>3. /\ Falls /\ call'[run[r].id].cost = amount /\ amount <= call[run[r].id].cost
    BY AnswerFalls
  <1>4. run'[r] = v /\ \A s \in Runs : s # r => run'[s] = run[s]
    BY <1>1, NewState
  <1>5. AnswerLeaves(r, v)
    BY <1>1, <1>2, <1>3, AnswerOpen
  <1>6. call'[v.id].cost <= v.request.bound
    <2>1. amount \in Nat
      BY BudgetAssumption DEF BudgetAssumption
    <2> QED BY <1>1, <1>2, <1>3, <2>1, OpenFits, KeepsType
  <1> QED BY <1>2, <1>3, <1>4, <1>5, <1>6, QuietKept DEF AnswerLeaves

LEMMA UnpricedKept ==
  ASSUME TypeInv, TypeInv', RunInv, NEW r \in Runs, Unpriced(r)
  PROVE  Falls /\ KeptAfter(r) /\ \A s \in Runs : s # r => run'[s] = run[s]
  <1> DEFINE v == [run[r] EXCEPT !.pc = "record", !.answer = "unpriced"]
  <1>1. run' = [run EXCEPT ![r] = v] /\ run[r].pc \in OpenPCs
    BY DEF Unpriced, OpenPCs
  <1>2. /\ v.made = run[r].made /\ v.committed = run[r].committed /\ v.id = run[r].id
        /\ v.pc = "record" /\ v.request = run[r].request /\ v.answer = "unpriced"
    BY SentType DEF RunState
  <1> HIDE DEF v
  <1>3. /\ Falls /\ ~call'[run[r].id].priced
        /\ call'[run[r].id].cost = call[run[r].id].cost
    BY AnswerFalls
  <1>4. run'[r] = v /\ \A s \in Runs : s # r => run'[s] = run[s]
    BY <1>1, NewState
  <1>5. AnswerLeaves(r, v)
    BY <1>1, <1>2, <1>3, AnswerOpen
  <1>6. call'[v.id].cost <= v.request.bound
    BY <1>1, <1>2, <1>3, OpenFits
  <1>7. ~call'[v.id].priced
    BY <1>2, <1>3
  <1> QED BY <1>2, <1>3, <1>4, <1>5, <1>6, <1>7, QuietKept DEF AnswerLeaves

\* The steps that close the open call.
LEMMA UnreadableKept ==
  ASSUME TypeInv, TypeInv', RunInv, NEW r \in Runs, Unreadable(r)
  PROVE  Falls /\ KeptAfter(r) /\ \A s \in Runs : s # r => run'[s] = run[s]
  <1> DEFINE v == [Ended(r) EXCEPT !.committed = Ended(r).committed + run[r].request.bound]
  <1>1. run' = [run EXCEPT ![r] = v] /\ UNCHANGED call /\ run[r].pc \in OpenPCs
    BY DEF Unreadable, OpenPCs
  <1>2. /\ v.made = run[r].made /\ v.pc = "idle"
        /\ v.committed = run[r].committed + run[r].request.bound
    BY EndedIs, EndedType DEF RunState
  <1> HIDE DEF v
  <1>3. Falls /\ run'[r] = v /\ \A s \in Runs : s # r => run'[s] = run[s]
    BY <1>1, SameFalls, NewState
  <1>4. /\ v.committed \in Nat /\ v.committed <= RunMax[r]
        /\ v.committed >= run[r].committed + call'[run[r].id].cost
    BY <1>1, <1>2, OpenFits, KeepsType
  <1>5. v.pc \notin AskingPCs
    BY <1>2 DEF AskingPCs
  <1> QED BY <1>1, <1>2, <1>3, <1>4, <1>5, ClosingKept

LEMMA AmbiguousKept ==
  ASSUME TypeInv, TypeInv', RunInv, NEW r \in Runs, Ambiguous(r)
  PROVE  Falls /\ KeptAfter(r) /\ \A s \in Runs : s # r => run'[s] = run[s]
  <1> DEFINE v == [run[r] EXCEPT !.pc = "settle", !.answer = "ambiguous",
                     !.committed = run[r].committed + run[r].request.bound]
  <1>1. run' = [run EXCEPT ![r] = v] /\ UNCHANGED call /\ run[r].pc \in OpenPCs
    BY DEF Ambiguous, OpenPCs
  <1>2. /\ v.made = run[r].made /\ v.pc = "settle"
        /\ v.committed = run[r].committed + run[r].request.bound
    BY SentType DEF RunState
  <1> HIDE DEF v
  <1>3. Falls /\ run'[r] = v /\ \A s \in Runs : s # r => run'[s] = run[s]
    BY <1>1, SameFalls, NewState
  <1>4. /\ v.committed \in Nat /\ v.committed <= RunMax[r]
        /\ v.committed >= run[r].committed + call'[run[r].id].cost
    BY <1>1, <1>2, OpenFits, KeepsType
  <1>5. v.pc \notin AskingPCs
    BY <1>2 DEF AskingPCs
  <1> QED BY <1>1, <1>2, <1>3, <1>4, <1>5, ClosingKept

LEMMA RejectedKept ==
  ASSUME TypeInv, TypeInv', RunInv, NEW r \in Runs, Rejected(r)
  PROVE  Falls /\ KeptAfter(r) /\ \A s \in Runs : s # r => run'[s] = run[s]
  <1> DEFINE v == [run[r] EXCEPT !.pc = "settle", !.answer = "rejected"]
  <1>1. run' = [run EXCEPT ![r] = v] /\ run[r].pc \in OpenPCs
    BY DEF Rejected, OpenPCs
  <1>2. v.made = run[r].made /\ v.pc = "settle" /\ v.committed = run[r].committed
    BY SentType DEF RunState
  <1> HIDE DEF v
  <1>3. /\ Falls /\ call'[run[r].id].cost = 0
        /\ run'[r] = v /\ \A s \in Runs : s # r => run'[s] = run[s]
    BY <1>1, AnswerFalls, NewState
  <1>4. /\ v.committed \in Nat /\ v.committed <= RunMax[r]
        /\ v.committed >= run[r].committed + call'[run[r].id].cost
    BY <1>1, <1>2, <1>3, OpenFits, KeepsType
  <1>5. v.pc \notin AskingPCs
    BY <1>2 DEF AskingPCs
  <1> QED BY <1>1, <1>2, <1>3, <1>4, <1>5, ClosingKept

LEMMA RecordKept ==
  ASSUME TypeInv, TypeInv', RunInv, NEW r \in Runs, NEW o, Record(r, o)
  PROVE  Falls /\ KeptAfter(r) /\ \A s \in Runs : s # r => run'[s] = run[s]
  <1> DEFINE v == [run[r] EXCEPT
        !.committed = run[r].committed + Recorded(r),
        !.pc = IF o \in {"done", "twice"} THEN "settle" ELSE "poison",
        !.poisoned = o \notin {"done", "twice"}]
  <1>1. /\ run' = [run EXCEPT ![r] = v] /\ UNCHANGED call /\ run[r].pc = "record"
        /\ run[r].pc \in OpenPCs
    BY DEF Record, OpenPCs
  <1>2. /\ v.made = run[r].made /\ v.pc \in {"settle", "poison"}
        /\ v.committed = run[r].committed + Recorded(r)
    BY SentType DEF RunState
  <1> HIDE DEF v
  <1>3. Falls /\ run'[r] = v /\ \A s \in Runs : s # r => run'[s] = run[s]
    BY <1>1, SameFalls, NewState
  <1>4. v.pc \notin AskingPCs /\ Room(v) = 0 /\ v.pc \notin OpenPCs /\ v.pc # "record"
    BY <1>2 DEF AskingPCs, OpenPCs, Room
  <1>5. CASE run[r].answer = "priced"
    <2>1. Recorded(r) = call[run[r].id].cost
      BY <1>5 DEF Recorded
    <2>2. /\ v.committed \in Nat /\ v.committed <= RunMax[r]
          /\ v.committed >= run[r].committed + call'[run[r].id].cost
      BY <1>1, <1>2, <2>1, OpenFits, KeepsType
    <2> QED BY <1>1, <1>2, <1>3, <1>4, <2>2, ClosingKept
  <1>6. CASE run[r].answer # "priced"
    <2>1. Recorded(r) = 0 /\ ~call[run[r].id].priced
      BY <1>1, <1>6, KeepsType DEF Recorded, Keeps
    <2>2. v.committed = run[r].committed /\ v.committed \in Nat
      BY <1>2, <2>1, KeepsType
    <2>3. ClosedOf(v, call') \subseteq ClosedOf(run[r], call)
      BY <1>1, <1>2, <2>1 DEF ClosedOf, OpenOf
    <2>4. v.committed + Room(v) <= RunMax[r] /\ v.committed >= run[r].committed
      BY <1>1, <1>4, <2>2, OpenFits, KeepsType
    <2>5. \A c \in v.made : call'[c].month # 0
      BY <1>1, <1>2, KeepsType
    <2> QED BY <1>3, <1>4, <2>2, <2>3, <2>4, <2>5, QuietKept
  <1> QED BY <1>5, <1>6

\* The steps of a run that has no open call.
LEMMA NothingOpen ==
  ASSUME TypeInv, TypeInv', RunInv, UNCHANGED call, NEW r \in Runs, NEW v,
         run' = [run EXCEPT ![r] = v], run[r].pc \notin OpenPCs, v.pc \notin AskingPCs,
         v.made = run[r].made, v.committed = run[r].committed
  PROVE  Falls /\ KeptAfter(r) /\ \A s \in Runs : s # r => run'[s] = run[s]
  <1>1. Falls /\ run'[r] = v /\ \A s \in Runs : s # r => run'[s] = run[s]
    BY SameFalls, NewState
  <1>2. Room(v) = 0 /\ v.pc \notin OpenPCs /\ v.pc # "record"
    BY DEF AskingPCs, OpenPCs, Room
  <1>3. Room(run[r]) \in Nat /\ run[r].committed + Room(run[r]) <= RunMax[r]
    BY KeepsType DEF Room, Keeps
  <1>4. /\ v.committed \in Nat /\ v.committed >= run[r].committed
        /\ v.committed + Room(v) <= RunMax[r]
    BY <1>2, <1>3, KeepsType
  <1>5. ClosedOf(v, call') \subseteq ClosedOf(run[r], call)
    BY <1>2 DEF ClosedOf, OpenOf
  <1>6. \A c \in v.made : call'[c].month # 0
    BY KeepsType
  <1> QED BY <1>1, <1>2, <1>4, <1>5, <1>6, QuietKept

LEMMA SettleKept ==
  ASSUME TypeInv, TypeInv', RunInv, NEW r \in Runs, NEW o, Settle(r, o) \/ Poison(r, o)
  PROVE  Falls /\ KeptAfter(r) /\ \A s \in Runs : s # r => run'[s] = run[s]
  <1> DEFINE w == [run[r] EXCEPT !.pc = "poison", !.poisoned = TRUE]
  <1>1. /\ UNCHANGED call /\ run[r].pc \in {"settle", "poison"}
        /\ \E v \in {w, Ended(r), Failed(r)} : run' = [run EXCEPT ![r] = v]
    BY DEF Settle, Poison
  <1>2. PICK v \in {w, Ended(r), Failed(r)} : run' = [run EXCEPT ![r] = v]
    BY <1>1
  <1>3. w.made = run[r].made /\ w.committed = run[r].committed /\ w.pc = "poison"
    BY SentType DEF RunState
  <1> HIDE DEF w
  <1>4. /\ v.made = run[r].made /\ v.committed = run[r].committed
        /\ v.pc \in {"poison", "idle"}
    BY <1>2, <1>3, EndedIs
  <1>5. run[r].pc \notin OpenPCs /\ v.pc \notin AskingPCs
    BY <1>1, <1>4 DEF OpenPCs, AskingPCs
  <1> QED BY <1>1, <1>2, <1>4, <1>5, NothingOpen

LEMMA RestartKept ==
  ASSUME TypeInv, TypeInv', RunInv, NEW r \in Runs, Restart(r)
  PROVE  Falls /\ KeptAfter(r) /\ \A s \in Runs : s # r => run'[s] = run[s]
  <1>1. run' = [run EXCEPT ![r] = NewRun] /\ UNCHANGED call
    BY DEF Restart
  <1>2. Falls /\ run'[r] = NewRun /\ \A s \in Runs : s # r => run'[s] = run[s]
    BY <1>1, SameFalls, NewState
  <1>3. ClosedOf(NewRun, call') = {} /\ NewRun.committed = 0 /\ Room(NewRun) = 0
    BY DEF ClosedOf, NewRun, Room, AskingPCs
  <1>4. Total(Cost', ClosedOf(NewRun, call')) = 0
    BY <1>3, NextAmounts, TotalOfNone
  <1>5. NewRun.pc \notin OpenPCs /\ NewRun.pc # "record" /\ NewRun.made = {}
    BY DEF NewRun, OpenPCs
  <1> QED BY <1>2, <1>3, <1>4, <1>5, KeepsType DEF KeptAfter, Keeps

\* A granted call becomes the open one; it costs at most its request's bound.
LEMMA AuthorizeKept ==
  ASSUME TypeInv, TypeInv', RunInv, NEW r \in Runs, NEW o \in Outcomes, NEW c \in Calls,
         Authorize(r, o, c)
  PROVE  Falls /\ KeptAfter(r) /\ \A s \in Runs : s # r => run'[s] = run[s]
  <1>1. /\ run[r].pc = "authorize" /\ call[c] = NoCall /\ call[c].month = 0
        /\ \A d \in Calls : d # c => call'[d] = call[d]
        /\ call'[c] \in {call[c], NewCall(r, o, c)}
    BY AuthorizeIs, AuthorizedCalls
  <1>2. Falls
    BY <1>1, CallNumbers DEF Falls
  <1>3. PICK v \in {Made(r, c), Ended(r), Failed(r)} : run' = [run EXCEPT ![r] = v]
    BY AuthorizeIs
  <1>4. run'[r] = v /\ \A s \in Runs : s # r => run'[s] = run[s]
    BY <1>3, NewState
  <1>5. /\ run[r].made \in SUBSET Calls /\ c \notin run[r].made
        /\ \A d \in run[r].made : call'[d] = call[d] /\ call[d].month # 0
    BY <1>1, KeepsType
  <1>6. /\ run[r].committed \in Nat /\ run[r].request.reserve \in Nat
        /\ run[r].request.bound \in Nat
        /\ run[r].committed + run[r].request.reserve <= RunMax[r]
    BY <1>1, KeepsType DEF Keeps, Room, AskingPCs
  <1>7. ClosedOf(run[r], call) = {d \in run[r].made : call[d].priced}
    BY <1>1 DEF ClosedOf, OpenOf, OpenPCs
  <1>8. CASE v = Made(r, c)
    <2>1. /\ v.pc = "call" /\ v.id = c /\ v.made = run[r].made \cup {c}
          /\ v.committed = run[r].committed /\ v.request = run[r].request
      BY <1>8, SentType DEF Made, RunState
    <2>2. call'[c].month # 0
      <3>1. run'[r].pc \in Sent /\ run'[r].at \in Months /\ run'[r].id = c
        BY <1>4, <2>1 DEF Sent, TypeInv, TypeOK, RunState
      <3>2. call'[c].month = run'[r].at
        BY <3>1 DEF TypeInv, TypeOK, CallsOf
      <3> QED BY <3>1, <3>2 DEF Months
    <2>3. call'[c].cost <= run[r].request.bound
      BY <1>1, <1>6 DEF NewCall, NoCall
    <2>4. Room(v) = run[r].request.reserve
      BY <2>1 DEF Room, AskingPCs
    <2>5. ClosedOf(v, call') \subseteq ClosedOf(run[r], call)
      BY <1>5, <1>7, <2>1 DEF ClosedOf, OpenOf, OpenPCs
    <2>6. \A d \in v.made : call'[d].month # 0
      BY <1>5, <2>1, <2>2
    <2>7. /\ v.committed \in Nat /\ v.committed >= run[r].committed
          /\ v.committed + Room(v) <= RunMax[r]
      BY <1>6, <2>1, <2>4
    <2>8. /\ v.id \in v.made /\ call'[v.id].cost <= v.request.bound
          /\ v.pc # "record"
      BY <2>1, <2>3
    <2> QED BY <1>2, <1>4, <2>5, <2>6, <2>7, <2>8, QuietKept
  <1>9. CASE v \in {Ended(r), Failed(r)}
    <2>1. v.made = run[r].made /\ v.committed = run[r].committed /\ v.pc = "idle"
      BY <1>9, EndedIs
    <2>2. Room(v) = 0 /\ v.pc \notin OpenPCs /\ v.pc # "record"
      BY <2>1 DEF Room, AskingPCs, OpenPCs
    <2>3. ClosedOf(v, call') \subseteq ClosedOf(run[r], call)
      BY <1>5, <1>7, <2>1 DEF ClosedOf
    <2>4. \A d \in v.made : call'[d].month # 0
      BY <1>5, <2>1
    <2>5. /\ v.committed \in Nat /\ v.committed >= run[r].committed
          /\ v.committed + Room(v) <= RunMax[r]
      BY <1>6, <2>1, <2>2, KeepsType
    <2> QED BY <1>2, <1>4, <2>2, <2>3, <2>4, <2>5, QuietKept
  <1> QED BY <1>3, <1>8, <1>9

-------------------------------------------------------------------------------
(* The run's limit                                                         *)

LEMMA RunInvInit == Init => RunInv
  <1> SUFFICES ASSUME Init PROVE RunInv
    OBVIOUS
  <1>1. TypeInv
    BY TypeInit
  <1>2. \A r \in Runs : run[r] = NewRun
    BY DEF Init
  <1>3. /\ NewRun.made = {} /\ NewRun.committed = 0 /\ Room(NewRun) = 0
        /\ NewRun.pc \notin OpenPCs /\ NewRun.pc # "record"
        /\ ClosedOf(NewRun, call) = {}
    BY DEF NewRun, Room, AskingPCs, OpenPCs, ClosedOf
  <1>4. Total(Cost, {}) = 0
    BY <1>1, AmountsType, TotalOfNone
  <1>5. \A r \in Runs : RunMax[r] \in Nat
    BY BudgetAssumption DEF BudgetAssumption
  <1> QED BY <1>2, <1>3, <1>4, <1>5 DEF RunInv, RunKeeps, MadeIsUsed, Keeps

LEMMA RunInvStep == TypeInv /\ RunInv /\ [Next]_vars => RunInv'
  <1> SUFFICES ASSUME TypeInv, RunInv, [Next]_vars PROVE RunInv'
    OBVIOUS
  <1>1. TypeInv'
    BY TypeStep
  <1>2. ASSUME Falls, UNCHANGED run
        PROVE  \A s \in Runs : KeptAfter(s)
    BY <1>1, <1>2, OtherKept
  <1>3. ASSUME NEW r \in Runs, RunStep(r) PROVE \A s \in Runs : KeptAfter(s)
    <2>1. Falls /\ KeptAfter(r) /\ \A s \in Runs : s # r => run'[s] = run[s]
      <3>1. ASSUME NEW q \in Requests[r], Begin(r, q)
            PROVE  Falls /\ KeptAfter(r) /\ \A s \in Runs : s # r => run'[s] = run[s]
        BY <1>1, <3>1, BeginKept
      <3>2. ASSUME NEW o \in Outcomes, LoadReport(r, o)
            PROVE  Falls /\ KeptAfter(r) /\ \A s \in Runs : s # r => run'[s] = run[s]
        BY <1>1, <3>2, LoadReportKept
      <3>3. ASSUME NEW o \in Outcomes, Record(r, o)
            PROVE  Falls /\ KeptAfter(r) /\ \A s \in Runs : s # r => run'[s] = run[s]
        BY <1>1, <3>3, RecordKept
      <3>4. ASSUME NEW o \in Outcomes, Settle(r, o) \/ Poison(r, o)
            PROVE  Falls /\ KeptAfter(r) /\ \A s \in Runs : s # r => run'[s] = run[s]
        BY <1>1, <3>4, SettleKept
      <3>5. ASSUME NEW o \in Outcomes, NEW c \in Calls, Authorize(r, o, c)
            PROVE  Falls /\ KeptAfter(r) /\ \A s \in Runs : s # r => run'[s] = run[s]
        BY <1>1, <3>5, AuthorizeKept
      <3>6. ASSUME NEW amount \in 0 .. MaxReserve, Priced(r, amount)
            PROVE  Falls /\ KeptAfter(r) /\ \A s \in Runs : s # r => run'[s] = run[s]
        BY <1>1, <3>6, PricedKept
      <3>7. CASE Unpriced(r)
        BY <1>1, <3>7, UnpricedKept
      <3>8. CASE Unreadable(r)
        BY <1>1, <3>8, UnreadableKept
      <3>9. CASE Rejected(r)
        BY <1>1, <3>9, RejectedKept
      <3>10. CASE Ambiguous(r)
        BY <1>1, <3>10, AmbiguousKept
      <3>11. CASE Restart(r)
        BY <1>1, <3>11, RestartKept
      <3> QED BY <1>3, <3>1, <3>2, <3>3, <3>4, <3>5, <3>6, <3>7, <3>8, <3>9, <3>10, <3>11,
                 Zenon DEF RunStep
    <2>2. ASSUME NEW s \in Runs, s # r PROVE KeptAfter(s)
      BY <1>1, <2>1, <2>2, OtherKept
    <2> QED BY <2>1, <2>2
  <1>4. ASSUME NEW c \in Calls, LeaseRunsOut(c) PROVE \A s \in Runs : KeptAfter(s)
    BY <1>2, <1>4, LeaseFalls DEF LeaseRunsOut
  <1>5. ASSUME MonthTurns \/ UNCHANGED vars PROVE \A s \in Runs : KeptAfter(s)
    <2>1. run' = run /\ call' = call
      BY <1>5 DEF MonthTurns, vars
    <2>2. Falls
      BY <2>1, SameFalls
    <2> QED BY <1>2, <2>1, <2>2
  <1>6. \A s \in Runs : KeptAfter(s)
    <2>1. Next \/ UNCHANGED vars
      OBVIOUS
    <2> QED BY <1>3, <1>4, <1>5, <2>1, Zenon DEF Next
  <1> QED BY <1>6, NextRunInv DEF KeptAfter

\* The priced calls of a run cost no more than its limit: the closed ones what it
\* committed, the open one the room it still holds.
LEMMA RunInvBounds == TypeInv /\ RunInv => PricedRunWithinMax
  <1> SUFFICES ASSUME TypeInv, RunInv, NEW r \in Runs
               PROVE  Total(Cost, {c \in run[r].made : call[c].priced}) <= RunMax[r]
    BY DEF PricedRunWithinMax
  <1> DEFINE P == {c \in run[r].made : call[c].priced}
             T == ClosedOf(run[r], call)
  <1>1. /\ P \in SUBSET Calls /\ T \in SUBSET Calls /\ Total(Cost, T) \in Nat
        /\ Total(Cost, T) <= run[r].committed /\ run[r].committed \in Nat
        /\ RunMax[r] \in Nat /\ Cost \in Amounts
        /\ run[r].committed + Room(run[r]) <= RunMax[r] /\ Room(run[r]) \in Nat
    BY KeepsType, AmountsType DEF Keeps, Room
  <1>2. CASE run[r].pc \notin OpenPCs \/ run[r].id \notin P
    <2>1. P = T
      BY <1>2 DEF ClosedOf, OpenOf
    <2> HIDE DEF P, T
    <2>2. Total(Cost, P) <= RunMax[r]
      BY <1>1, <2>1
    <2> QED BY <2>2 DEF P
  <1>3. CASE run[r].pc \in OpenPCs /\ run[r].id \in P
    <2>1. P = T \cup {run[r].id} /\ T \cap {run[r].id} = {} /\ {run[r].id} \in SUBSET Calls
      BY <1>1, <1>3 DEF ClosedOf, OpenOf
    <2>2. /\ run[r].id \in Calls /\ call[run[r].id].cost \in Nat
          /\ call[run[r].id].cost <= run[r].request.bound
          /\ run[r].committed + run[r].request.bound <= RunMax[r]
          /\ run[r].request.bound \in Nat
      BY <1>3, OpenFits, KeepsType
    <2> HIDE DEF P, T
    <2>3. Total(Cost, T \cup {run[r].id}) = Total(Cost, T) + Total(Cost, {run[r].id})
      BY <1>1, <2>1, SpendSplits
    <2>4. Total(Cost, {run[r].id}) = call[run[r].id].cost
      BY <2>2, AmountsType, SpendOfOne
    <2>5. Total(Cost, P) <= RunMax[r]
      BY <1>1, <2>1, <2>2, <2>3, <2>4
    <2> QED BY <2>5 DEF P
  <1> QED BY <1>2, <1>3

\* The calls of one run that came back with token counts cost no more than its
\* own limit, whatever fails, is repeated or restarts (lib/ai-budget.js).
THEOREM RunLimitHolds == Spec => []PricedRunWithinMax
  <1>1. Init => TypeInv /\ RunInv
    BY TypeInit, RunInvInit
  <1>2. TypeInv /\ RunInv /\ [Next]_vars => TypeInv' /\ RunInv'
    BY TypeStep, RunInvStep
  <1>3. TypeInv /\ RunInv => PricedRunWithinMax
    BY RunInvBounds
  <1> QED BY <1>1, <1>2, <1>3, PTL DEF Spec

=============================================================================
