---------------------------- MODULE AnthropicBudget ----------------------------
(***************************************************************************)
(* The two spending limits of the model calls: the monthly ledger in Redis *)
(* (lib/anthropic-monthly-budget.js), which every process shares and three *)
(* Lua scripts change, and the ledger of one run (lib/ai-budget.js), which *)
(* lives in its process.  A call is authorised, sent, its usage recorded   *)
(* (lib/anthropic-usage.js), its lease settled: four remote steps, each of *)
(* which may fail, land unanswered or be repeated by the transport, and a  *)
(* process may die between any two.                                        *)
(*                                                                         *)
(* Amounts are micro-dollars.  What a call cost the provider's invoice is  *)
(* in call[c].cost, which the code cannot see until the answer arrives; it *)
(* is the request's upper bound while the provider may still bill it.      *)
(***************************************************************************)
EXTENDS Integers, FiniteSets, Totals

CONSTANTS Runs,            \* processes: research runs, Lab runs, weekly reviews
          Calls,           \* reservation ids (randomUUID)
          NoId,
          LastMonth,       \* bound: the UTC months are 1 .. LastMonth
          Cap,             \* ANTHROPIC_MONTHLY_MAX_USD
          Protected,       \* ANTHROPIC_MONTHLY_PROTECTED_RESERVE_USD
          RunMax,          \* RESEARCH_RUN_MAX_USD, by run
          MaxReserve,      \* bound: no reservation is larger
          Requests,        \* what a run may ask for: a Request
          MaxFaults,       \* bound: failures, lost answers, repeats, crashes
          LeaseMayRunOut   \* may a lease expire under a live call

Months == 1 .. LastMonth
Request == {q \in [bound : 0 .. MaxReserve, reserve : 0 .. MaxReserve,
                  protected : BOOLEAN] : q.bound <= q.reserve}
NoRequest == [bound |-> 0, reserve |-> 0, protected |-> FALSE]

ASSUME BudgetAssumption ==
  /\ LastMonth \in Nat /\ LastMonth >= 1
  /\ IsFiniteSet(Calls) /\ NoId \notin Calls
  /\ Cap \in Nat /\ Protected \in 0 .. Cap
  /\ RunMax \in [Runs -> Nat]
  /\ MaxReserve \in Nat /\ Requests \in [Runs -> SUBSET Request]
  /\ MaxFaults \in Nat /\ LeaseMayRunOut \in BOOLEAN

VARIABLES month,     \* the current UTC month
          ledger,    \* pm:anthropic-budget-status:<month> with its leases
          usage,     \* the sum of the usage rows of a month
          call,      \* what is behind a reservation id
          run,       \* one createAnthropicMonthlyBudget and run ledger per run
          repeated,  \* history: months in which an authorization ran twice
          faults
vars == <<month, ledger, usage, call, run, repeated, faults>>

NotLoaded == -1
NoCall == [month |-> 0, protected |-> FALSE, reserve |-> 0, cost |-> 0,
           priced |-> TRUE, due |-> FALSE]
EmptyLedger == [spent |-> 0, reserved |-> 0, leases |-> {}, poisoned |-> FALSE]
Answers == {"none", "priced", "unpriced", "rejected", "ambiguous"}
PCs == {"idle", "load", "authorize", "call", "record", "settle", "poison"}

Reserve == [c \in Calls |-> call[c].reserve]
Cost == [c \in Calls |-> call[c].cost]
CallsOf(m) == {c \in Calls : call[c].month = m}
Unused == {c \in Calls : call[c].month = 0}
Larger(a, b) == IF a > b THEN a ELSE b
Without(a, b) == Larger(0, a - b)

-------------------------------------------------------------------------------
(* A remote write: it is done and answered, done and the answer lost, not  *)
(* done, or done, lost, repeated by the client's transport and answered.   *)
Outcomes == {"done", "lost", "failed", "twice"}
CountFault(o) == /\ o # "done" => faults < MaxFaults
                 /\ faults' = IF o = "done" THEN faults ELSE faults + 1

NewRun == [pc |-> "idle", id |-> NoId, at |-> 1,
           request |-> NoRequest,
           seen |-> NotLoaded, poisoned |-> FALSE, committed |-> 0,
           made |-> {}, answer |-> "none"]

Init == /\ month = 1
        /\ ledger = [m \in Months |-> EmptyLedger]
        /\ usage = [m \in Months |-> 0]
        /\ call = [c \in Calls |-> NoCall]
        /\ run = [r \in Runs |-> NewRun]
        /\ repeated = {}
        /\ faults = 0

(* Leave the call with the state the next one starts from.                 *)
Ended(r) == [NewRun EXCEPT !.seen = run[r].seen, !.poisoned = run[r].poisoned,
                           !.committed = run[r].committed, !.made = run[r].made]
Failed(r) == [Ended(r) EXCEPT !.poisoned = TRUE]

-------------------------------------------------------------------------------
(* authorizeCall up to its first wait: nothing is asked of a poisoned      *)
(* budget, nothing the run ledger cannot hold.  The instant taken here     *)
(* chooses the month of the call.                                          *)
Affordable_Always(r, q) == TRUE                                 \* mutation
Affordable(r, q) == run[r].committed + q.reserve <= RunMax[r]
Begin(r, q) ==
  /\ run[r].pc = "idle"
  /\ ~run[r].poisoned
  /\ Affordable(r, q)
  /\ run' = [run EXCEPT ![r] = [@ EXCEPT
               !.pc = IF run[r].seen = NotLoaded THEN "load" ELSE "authorize",
               !.at = month, !.request = q]]
  /\ UNCHANGED <<month, ledger, usage, call, repeated, faults>>

(* The first call of a run reads the month's usage rows and its ledger,    *)
(* and keeps what it saw for every later call.                             *)
LoadReport(r, o) ==
  LET m == run[r].at IN
  /\ run[r].pc = "load"
  /\ o \in {"done", "failed"} /\ CountFault(o)
  /\ run' = [run EXCEPT ![r] =
       IF o = "failed" \/ ledger[m].poisoned THEN Failed(r)
       ELSE [@ EXCEPT !.pc = "authorize",
                      !.seen = Larger(usage[m], ledger[m].spent)]]
  /\ UNCHANGED <<month, ledger, usage, call, repeated>>

-------------------------------------------------------------------------------
(* AUTHORIZE_SCRIPT: expired leases are charged in full, then the request  *)
(* is granted if it fits next to everything spent and reserved.            *)
Due(L) == {c \in L.leases : call[c].due}
Swept_Free(L) == [L EXCEPT !.leases = @ \ Due(L),               \* mutation
                           !.reserved = Without(@, Total(Reserve, Due(L)))]
Swept(L) == [L EXCEPT !.leases = @ \ Due(L),
                      !.reserved = Without(@, Total(Reserve, Due(L))),
                      !.spent = @ + Total(Reserve, Due(L))]
Spent(L, r) == Larger(Swept(L).spent, run[r].seen)
Limit(r) == IF run[r].request.protected THEN Cap ELSE Cap - Protected
Fits_IgnoresLeases(L, r) ==                                     \* mutation
  Spent(L, r) + run[r].request.reserve <= Limit(r)
Fits(L, r) ==
  Spent(L, r) + Swept(L).reserved + run[r].request.reserve <= Limit(r)
Verdict(L, r) == IF L.poisoned THEN "POISONED"
                 ELSE IF Fits(L, r) THEN "AUTHORIZED" ELSE "EXHAUSTED"
AuthorizeScript(L, r, c) ==
  CASE Verdict(L, r) = "POISONED" -> [L EXCEPT !.leases = @ \ Due(L)]
    [] Verdict(L, r) = "EXHAUSTED" -> [Swept(L) EXCEPT !.spent = Spent(L, r)]
    [] Verdict(L, r) = "AUTHORIZED" ->
         [Swept(L) EXCEPT !.spent = Spent(L, r),
                          !.reserved = @ + run[r].request.reserve,
                          !.leases = @ \cup {c}]

(* The month whose keys the steps of a call use: that of its authorization. *)
MonthOf(r) == run[r].at

Authorize(r, o, c) ==
  LET m == MonthOf(r)
      once == AuthorizeScript(ledger[m], r, c)
      after == CASE o = "failed" -> ledger[m]
                 [] o = "twice" -> AuthorizeScript(once, r, c)
                 [] OTHER -> once
      verdict == IF o = "twice" THEN Verdict(once, r) ELSE Verdict(ledger[m], r)
      granted == o \in {"done", "twice"} /\ verdict = "AUTHORIZED"
      refused == o \in {"done", "twice"} /\ verdict = "EXHAUSTED"
  IN
  /\ run[r].pc = "authorize"
  /\ c \in Unused
  /\ CountFault(o)
  /\ ledger' = [ledger EXCEPT ![m] = after]
  /\ call' = IF c \notin after.leases THEN call ELSE [call EXCEPT ![c] =
       [month |-> m, protected |-> run[r].request.protected,
        reserve |-> run[r].request.reserve,
        cost |-> IF granted THEN run[r].request.bound ELSE 0,
        priced |-> TRUE, due |-> FALSE]]
  /\ run' = [run EXCEPT ![r] =
       CASE granted -> [@ EXCEPT !.pc = "call", !.id = c,
                              !.made = run[r].made \cup {c}]
         [] refused -> Ended(r)
         [] OTHER -> Failed(r)]
  /\ repeated' = IF o = "twice" THEN repeated \cup {m} ELSE repeated
  /\ UNCHANGED <<month, usage>>

-------------------------------------------------------------------------------
(* The provider: it answers with token counts, without them, or with       *)
(* counts the recorder rejects; it refuses; or nothing comes back.         *)
Priced(r, amount) ==
  /\ run[r].pc = "call" /\ amount <= call[run[r].id].cost
  /\ call' = [call EXCEPT ![run[r].id].cost = amount]
  /\ run' = [run EXCEPT ![r] = [@ EXCEPT !.pc = "record", !.answer = "priced"]]
  /\ UNCHANGED <<month, ledger, usage, repeated, faults>>

Unpriced(r) ==
  /\ run[r].pc = "call"
  /\ call' = [call EXCEPT ![run[r].id].priced = FALSE]
  /\ run' = [run EXCEPT ![r] = [@ EXCEPT !.pc = "record", !.answer = "unpriced"]]
  /\ UNCHANGED <<month, ledger, usage, repeated, faults>>

(* buildAnthropicUsageRecord throws: neither ledger is settled, the run    *)
(* keeps its reservation, the lease stays until it expires.                *)
Unreadable(r) ==
  /\ run[r].pc = "call"
  /\ run' = [run EXCEPT ![r] =
       [Ended(r) EXCEPT !.committed = @ + run[r].request.bound]]
  /\ UNCHANGED <<month, ledger, usage, call, repeated, faults>>

Rejected(r) ==
  /\ run[r].pc = "call"
  /\ call' = [call EXCEPT ![run[r].id].cost = 0]
  /\ run' = [run EXCEPT ![r] = [@ EXCEPT !.pc = "settle", !.answer = "rejected"]]
  /\ UNCHANGED <<month, ledger, usage, repeated, faults>>

Ambiguous(r) ==
  /\ run[r].pc = "call"
  /\ run' = [run EXCEPT ![r] = [@ EXCEPT !.pc = "settle", !.answer = "ambiguous",
                  !.committed = run[r].committed + run[r].request.bound]]
  /\ UNCHANGED <<month, ledger, usage, call, repeated, faults>>

(* recordAnthropicUsage, then the run ledger's settlement: both take the   *)
(* cost of the row, which is zero without token counts.  A row that may be *)
(* lost poisons the budget.                                                *)
Recorded(r) == IF run[r].answer = "priced" THEN call[run[r].id].cost ELSE 0
Copies(o) == CASE o = "failed" -> 0 [] o = "twice" -> 2 [] OTHER -> 1
Record(r, o) ==
  /\ run[r].pc = "record" /\ CountFault(o)
  /\ usage' = [usage EXCEPT ![MonthOf(r)] = @ + Copies(o) * Recorded(r)]
  /\ run' = [run EXCEPT ![r] = [@ EXCEPT
       !.committed = run[r].committed + Recorded(r),
       !.pc = IF o \in {"done", "twice"} THEN "settle" ELSE "poison",
       !.poisoned = o \notin {"done", "twice"}]]
  /\ UNCHANGED <<month, ledger, call, repeated>>

(* SETTLE_SCRIPT: only a lease that is still there is settled.             *)
Charge(r) == CASE run[r].answer = "priced" -> call[run[r].id].cost
               [] run[r].answer = "rejected" -> 0
               [] OTHER -> call[run[r].id].reserve
SettleScript(L, r) ==
  IF run[r].id \notin L.leases THEN L
  ELSE [L EXCEPT !.leases = @ \ {run[r].id},
                 !.reserved = Without(@, call[run[r].id].reserve),
                 !.spent = @ + Charge(r)]

(* A second execution finds no lease, so a repeated settlement fails like  *)
(* a missing one.  A settled answer above the cap poisons the month.       *)
Settle(r, o) ==
  LET m == MonthOf(r)
      after == IF o = "failed" THEN ledger[m] ELSE SettleScript(ledger[m], r)
      settled == o = "done" /\ run[r].id \in ledger[m].leases
      above == run[r].answer \in {"priced", "unpriced"} /\ after.spent > Cap
  IN
  /\ run[r].pc = "settle" /\ CountFault(o)
  /\ ledger' = [ledger EXCEPT ![m] = after]
  /\ run' = [run EXCEPT ![r] =
       CASE settled /\ above -> [@ EXCEPT !.pc = "poison", !.poisoned = TRUE]
         [] settled /\ ~above -> Ended(r)
         [] OTHER -> Failed(r)]
  /\ UNCHANGED <<month, usage, call, repeated>>

Poison(r, o) ==
  /\ run[r].pc = "poison" /\ CountFault(o)
  /\ ledger' = IF o = "failed" THEN ledger
               ELSE [ledger EXCEPT ![MonthOf(r)].poisoned = TRUE]
  /\ run' = [run EXCEPT ![r] = Failed(r)]
  /\ UNCHANGED <<month, usage, call, repeated>>

-------------------------------------------------------------------------------
(* A run ends, or its process dies; the next one starts with no memory.    *)
Restart(r) ==
  /\ CountFault(IF run[r].pc = "idle" THEN "done" ELSE "failed")
  /\ run' = [run EXCEPT ![r] = NewRun]
  /\ UNCHANGED <<month, ledger, usage, call, repeated>>

(* A lease reaches its expiry time; the next authorization notices.        *)
UnderWay(c) == \E r \in Runs : run[r].id = c
LeaseRunsOut(c) ==
  /\ \E m \in Months : c \in ledger[m].leases
  /\ ~call[c].due
  /\ LeaseMayRunOut \/ ~UnderWay(c)
  /\ call' = [call EXCEPT ![c].due = TRUE]
  /\ UNCHANGED <<month, ledger, usage, run, repeated, faults>>

MonthTurns == /\ month < LastMonth
              /\ month' = month + 1
              /\ UNCHANGED <<ledger, usage, call, run, repeated, faults>>

RunStep(r) ==
  \/ \E q \in Requests[r] : Begin(r, q)
  \/ \E o \in Outcomes : LoadReport(r, o) \/ Record(r, o) \/ Settle(r, o) \/ Poison(r, o)
  \/ \E o \in Outcomes, c \in Calls : Authorize(r, o, c)
  \/ \E amount \in 0 .. MaxReserve : Priced(r, amount)
  \/ Unpriced(r) \/ Unreadable(r) \/ Rejected(r) \/ Ambiguous(r)
  \/ Restart(r)

Next == \/ \E r \in Runs : RunStep(r)
        \/ \E c \in Calls : LeaseRunsOut(c)
        \/ MonthTurns

Spec == Init /\ [][Next]_vars

-------------------------------------------------------------------------------
RunState == [pc : PCs, id : Calls \cup {NoId}, at : Months, request : Request,
             seen : Nat \cup {NotLoaded},
             poisoned : BOOLEAN, committed : Nat, made : SUBSET Calls,
             answer : Answers]
CallState == [month : Months \cup {0}, protected : BOOLEAN,
              reserve : 0 .. MaxReserve, cost : 0 .. MaxReserve,
              priced : BOOLEAN, due : BOOLEAN]
Ledger == [spent : Nat, reserved : Nat, leases : SUBSET Calls, poisoned : BOOLEAN]

Sent == {"call", "record", "settle", "poison"}

(* Every value has its type, a lease is in the ledger of its call's month, *)
(* and a call under way was authorised in the month its run will settle.   *)
TypeOK ==
  /\ month \in Months
  /\ ledger \in [Months -> Ledger]
  /\ usage \in [Months -> Nat]
  /\ call \in [Calls -> CallState]
  /\ run \in [Runs -> RunState]
  /\ repeated \subseteq Months
  /\ faults \in 0 .. MaxFaults
  /\ \A m \in Months : ledger[m].leases \subseteq CallsOf(m)
  /\ \A r \in Runs : run[r].pc \in Sent => run[r].id \in CallsOf(run[r].at)

(* What is spent and reserved in a month covers what its calls cost, also  *)
(* those nobody will settle.                                               *)
LedgerCovers == \A m \in Months :
  Total(Cost, CallsOf(m)) <= ledger[m].spent + ledger[m].reserved

(* The calls of a month cost no more than the ceiling, however many        *)
(* processes authorise at once and die with calls under way.               *)
WithinCap == \A m \in Months : Total(Cost, CallsOf(m)) <= Cap

(* Discovery and weekly review calls never reach the protected pool.       *)
PoolKept == \A m \in Months :
  Total(Cost, {c \in CallsOf(m) : ~call[c].protected}) <= Cap - Protected

(* The reserved total holds every lease, and nothing else unless an        *)
(* authorization ran twice or the month is poisoned.                       *)
ReservedIsLeases == \A m \in Months :
  /\ Total(Reserve, ledger[m].leases) <= ledger[m].reserved
  /\ m \notin repeated /\ ~ledger[m].poisoned =>
       Total(Reserve, ledger[m].leases) = ledger[m].reserved

(* A month's spend grows only by leases it gives up, or to a total some    *)
(* run has read: no reservation is charged twice.                          *)
ChargedOnce == [][\A m \in Months :
  \/ ledger'[m].spent - ledger[m].spent
       <= Total(Reserve, ledger[m].leases \ ledger'[m].leases)
  \/ \E r \in Runs : ledger'[m].spent = run[r].seen]_vars

(* A poisoned month stays poisoned and grants nothing more.                *)
FailsClosed == [][\A m \in Months : ledger[m].poisoned =>
  /\ ledger'[m].poisoned
  /\ ledger'[m].leases \subseteq ledger[m].leases]_vars

(* The calls of one run that came back with token counts cost no more than *)
(* its own limit.  (One that did not costs the run ledger nothing.)        *)
PricedRunWithinMax == \A r \in Runs :
  Total(Cost, {c \in run[r].made : call[c].priced}) <= RunMax[r]
=============================================================================
