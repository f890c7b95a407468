------------------------- MODULE WithdrawalCommit -------------------------
(***************************************************************************)
(* The investor withdrawal: scripts/process-withdrawal.js (preview, lock,  *)
(* report) around lib/withdrawal-commit-runner.js (the commit sequence).   *)
(*                                                                         *)
(* One commit writes four tabs of a Google Sheet that has no transactions, *)
(* in a fixed order: the signed plan, the Trade Ledger row, the tax lots,  *)
(* the Investors row.  Any write may fail, may land although the caller    *)
(* sees an error, or may land twice when the transport retries it, and the *)
(* process may die between any two of them; the operator then runs the     *)
(* same command again under the same idempotency key.                      *)
(*                                                                         *)
(* Share and money amounts are naturals.  One ticker; the lots are         *)
(* numbered in FIFO (open date) order.  A lot is closed when it holds 0.   *)
(***************************************************************************)
EXTENDS Integers, Sequences, FiniteSets, Totals

CONSTANTS
    Runs,               \* invocations of the command that may overlap
    Keys,               \* idempotency keys the operator uses
    Investors,
    RequestsOf,         \* what the operator may type under each key; amount
                        \* = 0 is --full
    Navs,               \* NAV per unit of the possible signed 16:30 closes
    NumLots,            \* lots of the ticker, oldest first
    MaxShares,          \* bound on the shares of one lot
    InitialOpen,        \* shares open in each lot at the start
    CostPerShare,       \* cost basis of each lot
    SalePrice,
    InitialUnits,       \* units each investor holds at the start
    TransportRetries,   \* may one append land twice?
    LockMayExpire,      \* may the lock's TTL run out under a live holder?
    FillsDuringCommit,  \* may a broker fill be booked while the lock is held?
    MaxFaults,          \* bound on failed, lost, duplicated writes and crashes
    MaxFills,           \* bound on broker fills booked by the fill jobs
    MaxContributions,   \* bound on contributions recorded meanwhile
    NoRun, NoKey, NoPlan

LotIds      == 1 .. NumLots
Allocations == [LotIds -> 0 .. MaxShares]
Request     == [investor : Investors, amount : Nat, sell : Nat]
Entry       == [investor : Investors, amount : Nat, units : Int, nav : Nat]
Trade       == [shares : Nat, alloc : Allocations]
Plan        == {p \in [req : Request, entry : Entry, before : Allocations,
                       alloc : Allocations] :
                    \A i \in LotIds : p.alloc[i] <= p.before[i]}

ASSUME ConstantsAssumption ==
    /\ NumLots \in Nat /\ MaxShares \in Nat
    /\ MaxFaults \in Nat /\ MaxFills \in Nat /\ MaxContributions \in Nat
    /\ IsFiniteSet(Keys) /\ RequestsOf \in [Keys -> SUBSET Request]
    /\ Navs # {} /\ Navs \subseteq Nat \ {0}
    /\ InitialOpen \in Allocations
    /\ CostPerShare \in [LotIds -> Nat] /\ SalePrice \in Nat
    /\ InitialUnits \in [Investors -> Nat]
    /\ {TransportRetries, LockMayExpire, FillsDuringCommit} \subseteq BOOLEAN
    /\ NoRun \notin Runs /\ NoKey \notin Keys /\ NoPlan \notin Plan

VARIABLES
    operations,     \* Withdrawal Operations tab: the plan rows of each key
    tradeRows,      \* Trade Ledger tab: the rows bearing each key
    lotOpen,        \* Lots tab: shares open in each lot
    investors,      \* Investors tab: the rows bearing each key
    held,           \* Investors tab: the sum of each investor's Units column
    shadow,         \* keys mirrored to the Postgres shadow
    nav,            \* latest signed 16:30 NAV of the Performance tab
    lock,           \* holder of the capital-ledger workflow lock
    run,            \* local state of each invocation
    faults, fills, contributions,   \* counters for the bounds
    soldFor,        \* history: shares the lot writes of each key took out
    reported,       \* history: keys whose command reported success
    warned          \* history: keys whose overdraw was reported

tabs    == <<operations, tradeRows, lotOpen, investors, held, shadow>>
history == <<soldFor, reported, warned>>
env     == <<nav, faults, fills, contributions>>
vars    == <<tabs, lock, run, env, history>>

Steps == {"idle", "previewed", "locked", "appendPlan", "trades",
          "appendTrades", "lots", "entry", "shadow", "release", "report"}

\* What one invocation holds: its request and the preview's NAV and FIFO
\* allocation, then its plan and what it read of the tabs when it began.
RunState ==
    [step : Steps, key : Keys \cup {NoKey}, req : Request \cup {NoPlan},
     nav : Nat, preview : Allocations, rows : Seq(Entry), units : Int,
     lots : Allocations, plan : Plan \cup {NoPlan}, replayed : BOOLEAN,
     warn : BOOLEAN]

ZeroLots == [i \in LotIds |-> 0]

Idle == [step |-> "idle", key |-> NoKey, req |-> NoPlan, nav |-> 0,
         preview |-> ZeroLots, rows |-> <<>>, units |-> 0, lots |-> ZeroLots,
         plan |-> NoPlan, replayed |-> FALSE, warn |-> FALSE]

-----------------------------------------------------------------------------
(* Tax lots (lib/tax-lots.js consumeLotsFIFO)                              *)

SumLots(f) == Total(f, LotIds)

\* t is what a FIFO sale of n shares takes from each lot of open.
IsFifo(t, open, n) ==
    /\ \A i \in LotIds : t[i] <= open[i]
    /\ SumLots(t) = n
    /\ \A i, j \in LotIds : i < j /\ t[j] > 0 => t[i] = open[i]

RealizedGain(t) ==
    SumLots([i \in LotIds |-> t[i] * SalePrice]) - SumLots([i \in LotIds |-> t[i] * CostPerShare[i]])

-----------------------------------------------------------------------------
(* The plan (lib/withdrawal-commit.js)                                     *)

UnitsFor(amount, n) == amount \div n

EntryOf(req, n) ==
    [investor |-> req.investor, amount |-> req.amount,
     units |-> UnitsFor(req.amount, n), nav |-> n]

BuildPlan(req, n, open, t) ==
    [req |-> req, entry |-> EntryOf(req, n), before |-> open, alloc |-> t]

Touched(plan) == {i \in LotIds : plan.alloc[i] > 0}

\* Shares the planned final state leaves in lot i.
FinalOpen(plan, i) == plan.before[i] - plan.alloc[i]

LotsBefore_Unchecked(plan, lots) == TRUE                        \* mutation
LotsBefore(plan, lots) == \A i \in Touched(plan) : lots[i] = plan.before[i]

LotsAfter(plan, lots) ==
    \A i \in Touched(plan) : lots[i] = FinalOpen(plan, i)

TradeOf(plan) == [shares |-> plan.req.sell, alloc |-> plan.alloc]

\* The realized gain is what the Trade Ledger keeps of an allocation.
TradesMatchPlan(rows, plan) ==
    /\ Len(rows) = 1
    /\ rows[1].shares = plan.req.sell
    /\ RealizedGain(rows[1].alloc) = RealizedGain(plan.alloc)

-----------------------------------------------------------------------------
(* One append to a tab of the Sheet.                                       *)

Outcomes == {"ok", "failed", "lost"}
                \cup (IF TransportRetries THEN {"twice", "twiceLost"} ELSE {})

Copies(o) ==
    IF o = "failed" THEN 0 ELSE IF o \in {"ok", "lost"} THEN 1 ELSE 2

Raises(o) == o \in {"failed", "lost", "twiceLost"}

Appended(rows, row, o) == rows \o [i \in 1 .. Copies(o) |-> row]

CountFault(o) ==
    /\ o # "ok" => faults < MaxFaults
    /\ faults' = IF o = "ok" THEN faults ELSE faults + 1

-----------------------------------------------------------------------------
(* The lock (lib/workflow-lock.js) and the ends of a run                   *)

InCommit(r) == run[r].step \notin {"idle", "previewed", "report"}

Released(r) == IF lock = r THEN NoRun ELSE lock

Exit(r) == run' = [run EXCEPT ![r] = Idle] /\ lock' = Released(r)

Advance(r, step) == run' = [run EXCEPT ![r].step = step] /\ UNCHANGED lock

\* The effect of a write on its run: the next step, or the error path.
Continue(r, o, step) == IF Raises(o) THEN Exit(r) ELSE Advance(r, step)

-----------------------------------------------------------------------------
Init ==
    /\ operations = [k \in Keys |-> <<>>]
    /\ tradeRows = [k \in Keys |-> <<>>]
    /\ lotOpen = InitialOpen
    /\ investors = [k \in Keys |-> <<>>]
    /\ held = InitialUnits
    /\ shadow = {}
    /\ nav \in Navs
    /\ lock = NoRun
    /\ run = [r \in Runs |-> Idle]
    /\ faults = 0 /\ fills = 0 /\ contributions = 0
    /\ soldFor = [k \in Keys |-> 0]
    /\ reported = {} /\ warned = {}

\* The dry run every invocation starts with; it holds no lock.  An
\* invocation these conditions refuse exits having changed nothing.
PreviewAccepts(req, t) ==
    /\ held[req.investor] > 0
    /\ req.amount <= held[req.investor] * nav
    /\ IsFifo(t, lotOpen, req.sell)

Resolve(q) ==
    IF q.amount = 0 THEN [q EXCEPT !.amount = held[q.investor] * nav] ELSE q

Preview(r, k, q) ==
    /\ run[r].step = "idle"
    /\ \E t \in Allocations :
        /\ PreviewAccepts(Resolve(q), t)
        /\ run' = [run EXCEPT ![r] =
                     [Idle EXCEPT !.step = "previewed", !.key = k, !.nav = nav,
                                  !.req = Resolve(q), !.preview = t]]
    /\ UNCHANGED <<tabs, lock, env, history>>

Acquire(r) ==
    /\ run[r].step = "previewed"
    /\ IF lock = NoRun
       THEN lock' = r /\ run' = [run EXCEPT ![r].step = "locked"]
       ELSE UNCHANGED lock /\ run' = [run EXCEPT ![r] = Idle]
    /\ UNCHANGED <<tabs, env, history>>

\* Mutation: the run does not look at the Investors tab.
Snapshot_NoRows(r, plan, step, replayed) ==
    LET k == run[r].key
    IN  run' = [run EXCEPT ![r] =
                  [Idle EXCEPT !.step = step, !.key = k, !.plan = plan,
                               !.replayed = replayed, !.lots = lotOpen,
                               !.units = held[plan.entry.investor]]]

\* What runWithdrawalCommit keeps of its first reads for the rest of the run.
Snapshot(r, plan, step, replayed) ==
    LET k == run[r].key
    IN  run' = [run EXCEPT ![r] =
                  [Idle EXCEPT !.step = step, !.key = k, !.plan = plan, !.replayed = replayed,
                               !.rows = investors[k], !.lots = lotOpen,
                               !.units = held[plan.entry.investor]]]

CanReplay(r) ==
    LET rows == operations[run[r].key]
    IN  /\ rows # <<>>
        /\ \A i \in DOMAIN rows : rows[i] = rows[1]
        /\ rows[1].req = run[r].req

\* Mutation: no unit ceiling.
CanPlan_NoCeiling(r, t) ==
    LET me == run[r]
    IN  /\ operations[me.key] = <<>> /\ investors[me.key] = <<>>
        /\ nav = me.nav
        /\ IsFifo(t, lotOpen, me.req.sell)

CanPlan(r, t) ==
    LET me == run[r]
    IN  /\ operations[me.key] = <<>> /\ investors[me.key] = <<>>
        /\ nav = me.nav
        /\ UnitsFor(me.req.amount, nav) <= held[me.req.investor]
        /\ IsFifo(t, lotOpen, me.req.sell)
        /\ RealizedGain(t) = RealizedGain(me.preview)

BeginReplay(r) ==
    /\ run[r].step = "locked"
    /\ CanReplay(r)
    /\ Snapshot(r, operations[run[r].key][1], "trades", TRUE)
    /\ UNCHANGED <<tabs, lock, env, history>>

\* Mutation: the plan is not persisted first.
BeginFresh_NoPlanRow(r) ==
    /\ run[r].step = "locked"
    /\ \E t \in Allocations :
        /\ CanPlan(r, t)
        /\ Snapshot(r, BuildPlan(run[r].req, nav, lotOpen, t), "trades", FALSE)
    /\ UNCHANGED <<tabs, lock, env, history>>

BeginFresh(r) ==
    /\ run[r].step = "locked"
    /\ \E t \in Allocations :
        /\ CanPlan(r, t)
        /\ Snapshot(r, BuildPlan(run[r].req, nav, lotOpen, t), "appendPlan", FALSE)
    /\ UNCHANGED <<tabs, lock, env, history>>

AppendPlan(r) ==
    /\ run[r].step = "appendPlan"
    /\ \E o \in Outcomes :
        /\ CountFault(o)
        /\ operations' = [operations EXCEPT ![run[r].key] =
                            Appended(@, run[r].plan, o)]
        /\ Continue(r, o, "trades")
    /\ UNCHANGED <<tradeRows, lotOpen, investors, held, shadow, nav, fills,
                   contributions, history>>

NeedsTrade_Never(r) == FALSE                                    \* mutation
NeedsTrade(r) == run[r].plan.req.sell > 0

CheckTrades(r) ==
    /\ run[r].step = "trades"
    /\ \/ /\ NeedsTrade(r) => TradesMatchPlan(tradeRows[run[r].key], run[r].plan)
          /\ Advance(r, "lots")
       \/ /\ NeedsTrade(r) /\ tradeRows[run[r].key] = <<>>
          /\ Advance(r, "appendTrades")
    /\ UNCHANGED <<tabs, env, history>>

AppendTrades(r) ==
    /\ run[r].step = "appendTrades"
    /\ \E o \in Outcomes :
        /\ CountFault(o)
        /\ tradeRows' = [tradeRows EXCEPT ![run[r].key] =
                           Appended(@, TradeOf(run[r].plan), o)]
        /\ Continue(r, o, "lots")
    /\ UNCHANGED <<operations, lotOpen, investors, held, shadow, nav, fills,
                   contributions, history>>

\* The decision is taken on the lots read when the run began, the write is
\* absolute: the planned final state of every lot the plan touches.
LotsDone_Never(r) == Touched(run[r].plan) = {}                  \* mutation
LotsDone(r) == LotsAfter(run[r].plan, run[r].lots)

SkipLots(r) ==
    /\ run[r].step = "lots"
    /\ LotsDone(r)
    /\ Advance(r, "entry")
    /\ UNCHANGED <<tabs, env, history>>

WriteLots(r) ==
    LET k == run[r].key
        plan == run[r].plan
    IN  /\ run[r].step = "lots"
        /\ ~LotsDone(r) /\ LotsBefore(plan, run[r].lots)
        /\ \E o \in {"ok", "failed", "lost"} :
            /\ CountFault(o)
            /\ IF o = "failed" THEN UNCHANGED <<lotOpen, soldFor>>
               ELSE /\ lotOpen' = [i \in LotIds |->
                         IF i \in Touched(plan) THEN FinalOpen(plan, i)
                                              ELSE lotOpen[i]]
                    /\ soldFor' = [soldFor EXCEPT ![k] = @ + plan.req.sell]
            /\ Continue(r, o, "entry")
        /\ UNCHANGED <<operations, tradeRows, investors, held, shadow, nav,
                       fills, contributions, reported, warned>>

EntryRecorded(r) == run[r].rows = <<run[r].plan.entry>>

SkipEntry(r) ==
    /\ run[r].step = "entry"
    /\ EntryRecorded(r)
    /\ Advance(r, "shadow")
    /\ UNCHANGED <<tabs, env, history>>

\* A replay does not re-check the unit ceiling; it notes an overdraw.
AppendEntry(r) ==
    LET k == run[r].key
        entry == run[r].plan.entry
    IN  /\ run[r].step = "entry"
        /\ run[r].rows = <<>>
        /\ \E o \in Outcomes :
            /\ CountFault(o)
            /\ investors' = [investors EXCEPT ![k] = Appended(@, entry, o)]
            /\ held' = [held EXCEPT ![entry.investor] = @ - Copies(o) * entry.units]
            /\ IF Raises(o) THEN Exit(r)
               ELSE /\ run' = [run EXCEPT ![r].step = "shadow",
                         ![r].warn = run[r].replayed /\ run[r].units < entry.units]
                    /\ UNCHANGED lock
        /\ UNCHANGED <<operations, tradeRows, lotOpen, shadow, nav, fills,
                       contributions, history>>

\* Every throw of the commit sequence before the write it guards.
Refuse(r) ==
    /\ \/ /\ run[r].step = "locked"
          /\ ~CanReplay(r) /\ ~\E t \in Allocations : CanPlan(r, t)
       \/ /\ run[r].step = "trades" /\ NeedsTrade(r)
          /\ tradeRows[run[r].key] # <<>>
          /\ ~TradesMatchPlan(tradeRows[run[r].key], run[r].plan)
       \/ /\ run[r].step = "lots"
          /\ ~LotsDone(r) /\ ~LotsBefore(run[r].plan, run[r].lots)
       \/ /\ run[r].step = "entry"
          /\ run[r].rows # <<>> /\ ~EntryRecorded(r)
    /\ Exit(r)
    /\ UNCHANGED <<tabs, env, history>>

\* The shadow write never throws; it may fail silently.
ShadowWrite(r) ==
    /\ run[r].step = "shadow"
    /\ shadow' \in {shadow, shadow \cup {run[r].key}}
    /\ Advance(r, "release")
    /\ UNCHANGED <<operations, tradeRows, lotOpen, investors, held, env, history>>

\* A release that fails is swallowed: the lock's time to live frees it.  (At
\* the error exits such a failure leaves what a Crash of that step leaves.)
Release(r) ==
    /\ run[r].step = "release"
    /\ run' = [run EXCEPT ![r].step = "report"]
    /\ \/ lock' = Released(r) /\ UNCHANGED faults
       \/ faults < MaxFaults /\ faults' = faults + 1 /\ UNCHANGED lock
    /\ UNCHANGED <<tabs, nav, fills, contributions, history>>

\* After the lock is gone the command alerts an overdraw and reports success.
Report(r) ==
    /\ run[r].step = "report"
    /\ reported' = reported \cup {run[r].key}
    /\ warned' = IF run[r].warn THEN warned \cup {run[r].key} ELSE warned
    /\ run' = [run EXCEPT ![r] = Idle]
    /\ UNCHANGED <<tabs, lock, env, soldFor>>

\* The process dies; its lock, if it holds it, stays until the TTL ends.
Crash(r) ==
    /\ run[r].step # "idle"
    /\ faults < MaxFaults
    /\ faults' = faults + 1
    /\ run' = [run EXCEPT ![r] = Idle]
    /\ UNCHANGED <<tabs, lock, nav, fills, contributions, history>>

Orphaned_NoTtl == FALSE                                         \* mutation
Orphaned == lock # NoRun /\ ~InCommit(lock)

LockExpires ==
    /\ lock # NoRun
    /\ Orphaned \/ LockMayExpire
    /\ lock' = NoRun
    /\ UNCHANGED <<tabs, run, env, history>>

-----------------------------------------------------------------------------
(* The rest of the system, seen from a withdrawal                          *)

\* jobs/holdings-sync.js signs a new 16:30 close into the Performance tab.
PublishNav ==
    /\ nav' \in Navs
    /\ UNCHANGED <<tabs, lock, run, faults, fills, contributions, history>>

\* A broker SELL fill booked by the fill jobs, under the accounting lock,
\* which a withdrawal does not take: one share FIFO out of the lots.
BookFill ==
    /\ fills < MaxFills
    /\ FillsDuringCommit \/ lock = NoRun
    /\ \E t \in Allocations :
        /\ IsFifo(t, lotOpen, 1)
        /\ lotOpen' = [i \in LotIds |-> lotOpen[i] - t[i]]
    /\ fills' = fills + 1
    /\ UNCHANGED <<operations, tradeRows, investors, held, shadow, lock, run,
                   nav, faults, contributions, history>>

\* scripts/record-contribution.js, under the same capital-ledger lock.
RecordContribution(i) ==
    /\ contributions < MaxContributions
    /\ lock = NoRun
    /\ held' = [held EXCEPT ![i] = @ + 1]
    /\ contributions' = contributions + 1
    /\ UNCHANGED <<operations, tradeRows, lotOpen, investors, shadow, lock, run,
                   nav, faults, fills, history>>

-----------------------------------------------------------------------------
CommitStep(r) ==
    \/ Acquire(r) \/ BeginReplay(r) \/ BeginFresh(r) \/ AppendPlan(r)
    \/ CheckTrades(r) \/ AppendTrades(r) \/ SkipLots(r) \/ WriteLots(r)
    \/ SkipEntry(r) \/ AppendEntry(r) \/ Refuse(r) \/ ShadowWrite(r)
    \/ Release(r) \/ Report(r)

Environment ==
    \/ LockExpires \/ PublishNav \/ BookFill
    \/ \E i \in Investors : RecordContribution(i)

Next ==
    \/ \E r \in Runs, k \in Keys : \E q \in RequestsOf[k] : Preview(r, k, q)
    \/ \E r \in Runs : CommitStep(r) \/ Crash(r)
    \/ Environment

Spec == Init /\ [][Next]_vars

-----------------------------------------------------------------------------
(* Properties                                                              *)

\* Every variable keeps its type: the tabs hold rows of the declared shapes,
\* an invocation is at one of the steps of the command.
TypeOK ==
    /\ operations \in [Keys -> Seq(Plan)]
    /\ tradeRows \in [Keys -> Seq(Trade)]
    /\ lotOpen \in Allocations
    /\ investors \in [Keys -> Seq(Entry)]
    /\ held \in [Investors -> Int]
    /\ shadow \subseteq Keys /\ reported \subseteq Keys /\ warned \subseteq Keys
    /\ nav \in Navs
    /\ lock \in Runs \cup {NoRun}
    /\ run \in [Runs -> RunState]
    /\ faults \in 0 .. MaxFaults /\ fills \in 0 .. MaxFills
    /\ contributions \in 0 .. MaxContributions
    /\ soldFor \in [Keys -> Nat]

PlansOf(k) == {operations[k][i] : i \in DOMAIN operations[k]}

\* No money state moves under a key before a plan for it is persisted: every
\* Trade Ledger and Investors row under a key, and every share its lot writes
\* took, is what some persisted plan of that key says
\* (withdrawal-commit-runner.js: "the signed plan is persisted BEFORE any
\* money state moves").  It does not rest on the lock.
PlanBeforeMoney ==
    \A k \in Keys :
        /\ \A i \in DOMAIN tradeRows[k] :
              \E p \in PlansOf(k) : tradeRows[k][i] = TradeOf(p)
        /\ \A i \in DOMAIN investors[k] :
              \E p \in PlansOf(k) : investors[k][i] = p.entry
        /\ soldFor[k] > 0 => operations[k] # <<>>

\* A retry never computes a second plan: whatever crashes, failures and
\* duplicated appends happened, all plan rows of a key are one plan.
OnePlanPerKey == \A k \in Keys : \A p, q \in PlansOf(k) : p = q

\* Without transport-level duplication no retry books a key twice.
BookedAtMostOnce ==
    \A k \in Keys : Len(tradeRows[k]) <= 1 /\ Len(investors[k]) <= 1

\* The shares in the Lots tab are exactly what was there, less what the
\* withdrawals' lot writes and the booked fills took out: no write of the
\* commit undoes another writer's, and none is applied twice.
LotsConserved ==
    SumLots(lotOpen) + Total(soldFor, Keys) + fills = SumLots(InitialOpen)

\* A fresh commit cannot overdraw the investor: only a replay, which does not
\* repeat the unit ceiling, may take the Units column below zero.
OnlyReplaysOverdraw ==
    [][\A i \in Investors : held[i] >= 0 /\ held'[i] < 0 =>
          \E r \in Runs : run[r].replayed /\ run[r].plan.entry.investor = i]_vars

\* A key whose Trade Ledger or Investors row was duplicated is frozen: every
\* later run of it fails closed instead of booking it a third time.
DuplicatesFailClosed ==
    [][\A k \in Keys :
          /\ Len(tradeRows[k]) > 1 => tradeRows'[k] = tradeRows[k]
          /\ Len(investors[k]) > 1 => investors'[k] = investors[k]]_vars

Promise == INSTANCE WithdrawalPromise WITH
    Plans <- Plan,
    Unbound <- NoPlan,
    bound <- [k \in Keys |-> IF operations[k] = <<>> THEN NoPlan
                             ELSE operations[k][1]],
    traded <- {k \in Keys : tradeRows[k] # <<>>},
    out <- soldFor,
    burned <- [k \in Keys |-> IF investors[k] = <<>> THEN 0
                              ELSE Len(investors[k]) * investors[k][1].units]

\* The commit sequence, with its crashes, lost writes and retries, implements
\* WithdrawalPromise: each stage of a key's one plan happens once, in order.
KeepsPromise == Promise!Spec

-----------------------------------------------------------------------------
(* Liveness: the operator repeats a command that did not finish            *)

\* The operator types an unfinished request again under the same key.
Retry(k) ==
    /\ operations[k] # <<>> /\ investors[k] = <<>>
    /\ \E r \in Runs : Preview(r, k, operations[k][1].req)

Fairness ==
    /\ \A r \in Runs : WF_vars(CommitStep(r))
    /\ WF_vars(LockExpires)
    /\ \A k \in Keys : SF_vars(Retry(k))

FairSpec == Spec /\ Fairness

Duplicated ==
    \E k \in Keys : Len(tradeRows[k]) > 1 \/ Len(investors[k]) > 1

\* Once its plan is persisted, a withdrawal the operator keeps repeating is
\* finished, whatever write failed or was lost and wherever a process died;
\* only a row the transport duplicated can stop it.
PlannedIsFinished ==
    \A k \in Keys : operations[k] # <<>> ~> (investors[k] # <<>> \/ Duplicated)

\* No crash leaves the capital ledger locked for ever.
LockIsFreed == (lock # NoRun) ~> (lock = NoRun)
=============================================================================
