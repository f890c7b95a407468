----------------------------- MODULE WithdrawalProofs -----------------------------
(***************************************************************************)
(* Proofs about the withdrawal commit, for any number of runs, keys,       *)
(* investors, lots, faults and fills: its types, what holds whatever       *)
(* fails, and what the capital-ledger lock adds (WithdrawalCommit).        *)
(***************************************************************************)
EXTENDS WithdrawalCommit, TotalsProofs, SequenceTheorems, TLAPS

\* The steps of a run that has its plan, and those after it was persisted.
PersistedSteps == {"trades", "appendTrades", "lots", "entry", "shadow",
                   "release", "report"}
PlanSteps == {"appendPlan"} \cup PersistedSteps

\* What a run that has begun holds, beside its type.
RunsHold ==
    \A r \in Runs :
        /\ run[r].step # "idle" => run[r].key \in Keys
        /\ run[r].step \in {"previewed", "locked"} => run[r].req \in Request
        /\ run[r].step \in PlanSteps => run[r].plan \in Plan

TypeInv == TypeOK /\ RunsHold

-----------------------------------------------------------------------------
(* One append to a tab                                                     *)

\* An append adds at most two copies of the row.
LEMMA CopiesType == \A o : Copies(o) \in 0 .. 2
  BY DEF Copies

\* The rows after an append are rows of the tab, longer by the copies; every
\* row there was is kept, and what was added is the row.
LEMMA AppendedRows ==
  ASSUME NEW S, NEW rows \in Seq(S), NEW row \in S, NEW o
  PROVE  /\ Appended(rows, row, o) \in Seq(S)
         /\ Len(Appended(rows, row, o)) = Len(rows) + Copies(o)
         /\ DOMAIN Appended(rows, row, o) = 1 .. (Len(rows) + Copies(o))
         /\ \A i \in 1 .. Len(rows) : Appended(rows, row, o)[i] = rows[i]
         /\ \A i \in 1 .. (Len(rows) + Copies(o)) :
               i > Len(rows) => Appended(rows, row, o)[i] = row
  <1>1. PICK n \in Nat : n = Copies(o)
    BY CopiesType
  <1>2. PICK new : new = [i \in 1 .. n |-> row]
    OBVIOUS
  <1>3. new \in Seq(S) /\ Len(new) = n /\ \A i \in 1 .. n : new[i] = row
    BY <1>2
  <1>4. Appended(rows, row, o) = rows \o new
    BY <1>1, <1>2 DEF Appended
  <1>5. /\ rows \o new \in Seq(S)
        /\ Len(rows \o new) = Len(rows) + n
        /\ \A i \in 1 .. Len(rows) + n :
              (rows \o new)[i] = IF i <= Len(rows) THEN rows[i]
                                                   ELSE new[i - Len(rows)]
    BY <1>3, ConcatProperties
  <1>6. DOMAIN (rows \o new) = 1 .. (Len(rows) + n) /\ Len(rows) \in Nat
    BY <1>5, LenProperties
  <1>7. \A i \in 1 .. (Len(rows) + n) : i > Len(rows) => (rows \o new)[i] = row
    BY <1>3, <1>5, <1>6
  <1>8. \A i \in 1 .. Len(rows) : (rows \o new)[i] = rows[i]
    BY <1>5, <1>6
  <1> QED
    BY <1>1, <1>4, <1>5, <1>6, <1>7, <1>8
-----------------------------------------------------------------------------
(* Type correctness                                                        *)

LEMMA IdleType == Idle \in RunState
  BY ConstantsAssumption DEF Idle, RunState, Steps, ZeroLots, Allocations, LotIds

\* An entry and a plan built from well-typed parts are well typed.
LEMMA PlanType ==
  ASSUME NEW req \in Request, NEW n \in Nat \ {0}, NEW open \in Allocations,
         NEW t \in Allocations, IsFifo(t, open, req.sell)
  PROVE  BuildPlan(req, n, open, t) \in Plan
  <1>1. EntryOf(req, n) \in Entry
    BY DEF EntryOf, Entry, Request, UnitsFor
  <1> QED
    BY <1>1 DEF BuildPlan, Plan, IsFifo

\* What a plan leaves of a lot it touches is a share count.
LEMMA FinalOpenType ==
  ASSUME NEW p \in Plan, NEW i \in LotIds
  PROVE  FinalOpen(p, i) \in 0 .. MaxShares
  BY ConstantsAssumption DEF FinalOpen, Plan, Allocations

\* Ending or advancing a run keeps the types of run and lock.
LEMMA ExitType ==
  ASSUME TypeInv, NEW r \in Runs, Exit(r)
  PROVE  /\ run' \in [Runs -> RunState] /\ lock' \in Runs \cup {NoRun}
         /\ RunsHold'
  <1>1. run' = [run EXCEPT ![r] = Idle] /\ run'[r] = Idle
    BY DEF Exit, TypeInv, TypeOK
  <1>2. RunsHold'
    BY <1>1 DEF TypeInv, TypeOK, RunsHold, Idle, PlanSteps, PersistedSteps
  <1> QED
    BY <1>1, <1>2, IdleType DEF Exit, Released, TypeInv, TypeOK

LEMMA AdvanceType ==
  ASSUME TypeInv, NEW r \in Runs, NEW step \in PersistedSteps,
         run[r].step \in PlanSteps, Advance(r, step)
  PROVE  /\ run' \in [Runs -> RunState] /\ lock' \in Runs \cup {NoRun}
         /\ RunsHold'
  <1>1. /\ run' = [run EXCEPT ![r].step = step]
        /\ step \in Steps \ {"idle", "previewed", "locked"}
    BY DEF Advance, PersistedSteps, Steps
  <1>2. run' \in [Runs -> RunState]
    <2>1. run \in [Runs -> RunState] /\ run[r] \in RunState
      BY DEF TypeInv, TypeOK
    <2>2. [run[r] EXCEPT !.step = step] \in RunState
      BY <1>1, <2>1 DEF RunState
    <2> QED
      BY <1>1, <2>1, <2>2
  <1>3. RunsHold'
    BY <1>1 DEF TypeInv, TypeOK, RunsHold, RunState, PlanSteps, PersistedSteps
  <1> QED
    BY <1>2, <1>3 DEF Advance, TypeInv, TypeOK

LEMMA CountFaultType ==
  ASSUME TypeInv, NEW o, CountFault(o)
  PROVE  faults' \in 0 .. MaxFaults
  BY ConstantsAssumption DEF TypeInv, TypeOK, CountFault
\* Starting on a persisted or a new plan keeps the types.
LEMMA SnapshotType ==
  ASSUME TypeInv, NEW r \in Runs, run[r].step = "locked", NEW p \in Plan,
         NEW step \in PlanSteps, NEW b \in BOOLEAN, Snapshot(r, p, step, b)
  PROVE  run' \in [Runs -> RunState] /\ RunsHold'
  <1> DEFINE new == [Idle EXCEPT !.step = step, !.key = run[r].key, !.plan = p,
                                 !.replayed = b, !.rows = investors[run[r].key],
                                 !.lots = lotOpen,
                                 !.units = held[p.entry.investor]]
  <1>1. run' = [run EXCEPT ![r] = new]
    BY DEF Snapshot
  <1>2. run[r].key \in Keys /\ step \in Steps
    BY DEF TypeInv, RunsHold, PlanSteps, PersistedSteps, Steps
  <1>3. /\ investors[run[r].key] \in Seq(Entry) /\ lotOpen \in Allocations
        /\ held[p.entry.investor] \in Int
    BY <1>2 DEF TypeInv, TypeOK, Plan, Entry
  <1>4. new \in RunState
    BY <1>2, <1>3, IdleType DEF RunState
  <1>5. new.step = step /\ new.key = run[r].key /\ new.plan = p
    BY DEF Idle
  <1> HIDE DEF new
  <1>6. run' \in [Runs -> RunState]
    BY <1>1, <1>4 DEF TypeInv, TypeOK
  <1>7. RunsHold'
    BY <1>1, <1>2, <1>5 DEF TypeInv, TypeOK, RunsHold, PlanSteps, PersistedSteps
  <1> QED
    BY <1>6, <1>7

\* Every step of a commit keeps the types.
LEMMA CommitStepType ==
  ASSUME TypeInv, NEW r \in Runs, CommitStep(r)
  PROVE  TypeInv'
  <1> USE DEF TypeInv
  <1>1. CASE Acquire(r)
    <2>1. run' \in [Runs -> RunState]
      <3>1. run \in [Runs -> RunState] /\ run[r] \in RunState
        BY DEF TypeOK
      <3>2. [run[r] EXCEPT !.step = "locked"] \in RunState
        BY <3>1 DEF RunState, Steps
      <3> QED
        BY <1>1, <3>1, <3>2, IdleType DEF Acquire
    <2>2. /\ \/ run'[r] = Idle
             \/ /\ run'[r].step = "locked" /\ run'[r].key = run[r].key
                /\ run'[r].req = run[r].req
          /\ \A q \in Runs \ {r} : run'[q] = run[q]
      <3>1. run \in [Runs -> RunState] /\ run[r] \in RunState
        BY DEF TypeOK
      <3>2. CASE run' = [run EXCEPT ![r].step = "locked"]
        BY <3>1, <3>2 DEF RunState
      <3>3. CASE run' = [run EXCEPT ![r] = Idle]
        BY <3>1, <3>3
      <3> QED
        BY <1>1, <3>2, <3>3 DEF Acquire
    <2>3. run[r].step = "previewed"
      BY <1>1 DEF Acquire
    <2>4. RunsHold'
      BY <2>2, <2>3 DEF RunsHold, Idle, PlanSteps, PersistedSteps
    <2> QED
      BY <1>1, <2>1, <2>4 DEF Acquire, TypeOK, tabs, env, history
  <1>2. CASE BeginReplay(r)
    <2>1. operations[run[r].key][1] \in Plan
      <3>1. run[r].key \in Keys /\ operations[run[r].key] \in Seq(Plan)
        BY <1>2 DEF BeginReplay, TypeOK, RunsHold
      <3>2. operations[run[r].key] # <<>>
        BY <1>2 DEF BeginReplay, CanReplay
      <3> QED
        BY <3>1, <3>2
    <2>2. run' \in [Runs -> RunState] /\ RunsHold'
      BY <1>2, <2>1, SnapshotType DEF BeginReplay, PlanSteps, PersistedSteps
    <2> QED
      BY <1>2, <2>2 DEF BeginReplay, TypeOK, tabs, env, history
  <1>3. CASE BeginFresh(r)
    <2>1. PICK t \in Allocations :
            /\ CanPlan(r, t)
            /\ Snapshot(r, BuildPlan(run[r].req, nav, lotOpen, t), "appendPlan",
                        FALSE)
      BY <1>3 DEF BeginFresh
    <2>2. run[r].req \in Request /\ nav \in Nat \ {0} /\ lotOpen \in Allocations
      BY <1>3, ConstantsAssumption DEF BeginFresh, TypeOK, RunsHold
    <2>3. BuildPlan(run[r].req, nav, lotOpen, t) \in Plan
      BY <2>1, <2>2, PlanType DEF CanPlan
    <2>4. run[r].step = "locked"
      BY <1>3 DEF BeginFresh
    <2>5. run' \in [Runs -> RunState] /\ RunsHold'
      BY <2>1, <2>3, <2>4, SnapshotType DEF PlanSteps
    <2> QED
      BY <1>3, <2>5 DEF BeginFresh, TypeOK, tabs, env, history
  <1>4. CASE AppendPlan(r)
    <2>1. run[r].key \in Keys /\ run[r].plan \in Plan
      BY <1>4 DEF AppendPlan, RunsHold, PlanSteps
    <2>2. PICK o \in Outcomes :
            /\ CountFault(o)
            /\ operations' = [operations EXCEPT ![run[r].key] =
                                Appended(@, run[r].plan, o)]
            /\ Continue(r, o, "trades")
      BY <1>4 DEF AppendPlan
    <2>3. operations' \in [Keys -> Seq(Plan)]
      BY <2>1, <2>2, AppendedRows DEF TypeOK
    <2>4. /\ run' \in [Runs -> RunState] /\ lock' \in Runs \cup {NoRun}
          /\ RunsHold'
      BY <1>4, <2>2, ExitType, AdvanceType
         DEF AppendPlan, Continue, PlanSteps, PersistedSteps
    <2> QED
      BY <1>4, <2>2, <2>3, <2>4, CountFaultType DEF AppendPlan, TypeOK, history
  <1>5. CASE CheckTrades(r)
    <2>1. /\ run' \in [Runs -> RunState] /\ lock' \in Runs \cup {NoRun}
          /\ RunsHold'
      BY <1>5, AdvanceType DEF CheckTrades, PlanSteps, PersistedSteps
    <2> QED
      BY <1>5, <2>1 DEF CheckTrades, TypeOK, tabs, env, history
  <1>6. CASE AppendTrades(r)
    <2>1. run[r].key \in Keys /\ run[r].plan \in Plan
      BY <1>6 DEF AppendTrades, RunsHold, PlanSteps, PersistedSteps
    <2>2. TradeOf(run[r].plan) \in Trade
      BY <2>1 DEF TradeOf, Trade, Plan, Request
    <2>3. PICK o \in Outcomes :
            /\ CountFault(o)
            /\ tradeRows' = [tradeRows EXCEPT ![run[r].key] =
                               Appended(@, TradeOf(run[r].plan), o)]
            /\ Continue(r, o, "lots")
      BY <1>6 DEF AppendTrades
    <2>4. tradeRows' \in [Keys -> Seq(Trade)]
      BY <2>1, <2>2, <2>3, AppendedRows DEF TypeOK
    <2>5. /\ run' \in [Runs -> RunState] /\ lock' \in Runs \cup {NoRun}
          /\ RunsHold'
      BY <1>6, <2>3, ExitType, AdvanceType
         DEF AppendTrades, Continue, PlanSteps, PersistedSteps
    <2> QED
      BY <1>6, <2>3, <2>4, <2>5, CountFaultType DEF AppendTrades, TypeOK, history
  <1>7. CASE SkipLots(r)
    <2>1. /\ run' \in [Runs -> RunState] /\ lock' \in Runs \cup {NoRun}
          /\ RunsHold'
      BY <1>7, AdvanceType DEF SkipLots, PlanSteps, PersistedSteps
    <2> QED
      BY <1>7, <2>1 DEF SkipLots, TypeOK, tabs, env, history
  <1>8. CASE WriteLots(r)
    <2>1. run[r].key \in Keys /\ run[r].plan \in Plan
      BY <1>8 DEF WriteLots, RunsHold, PlanSteps, PersistedSteps
    <2>2. PICK o \in {"ok", "failed", "lost"} :
            /\ CountFault(o)
            /\ IF o = "failed" THEN UNCHANGED <<lotOpen, soldFor>>
               ELSE /\ lotOpen' = [i \in LotIds |->
                         IF i \in Touched(run[r].plan)
                         THEN FinalOpen(run[r].plan, i) ELSE lotOpen[i]]
                    /\ soldFor' = [soldFor EXCEPT ![run[r].key] =
                                     @ + run[r].plan.req.sell]
            /\ Continue(r, o, "entry")
      BY <1>8 DEF WriteLots
    <2>3. lotOpen' \in Allocations
      <3>1. CASE o = "failed"
        BY <2>2, <3>1 DEF TypeOK
      <3>2. CASE o # "failed"
        <4>1. \A i \in LotIds : FinalOpen(run[r].plan, i) \in 0 .. MaxShares
          BY <2>1, FinalOpenType
        <4>2. lotOpen' = [i \in LotIds |->
                            IF i \in Touched(run[r].plan)
                            THEN FinalOpen(run[r].plan, i) ELSE lotOpen[i]]
          BY <2>2, <3>2
        <4>3. \A i \in LotIds : lotOpen[i] \in 0 .. MaxShares
          BY DEF TypeOK, Allocations
        <4> HIDE DEF FinalOpen, Touched
        <4> QED
          BY <4>1, <4>2, <4>3 DEF Allocations
      <3> QED
        BY <3>1, <3>2
    <2>4. soldFor' \in [Keys -> Nat]
      <3>1. run[r].plan.req.sell \in Nat
        BY <2>1 DEF Plan, Request
      <3>2. CASE o = "failed"
        BY <2>2, <3>2 DEF TypeOK
      <3>3. CASE o # "failed"
        <4>1. soldFor' = [soldFor EXCEPT ![run[r].key] =
                             @ + run[r].plan.req.sell]
          BY <2>2, <3>3
        <4>2. soldFor \in [Keys -> Nat] /\ soldFor[run[r].key] \in Nat
          BY <2>1 DEF TypeOK
        <4>3. PICK n \in Nat : n = soldFor[run[r].key] + run[r].plan.req.sell
          BY <3>1, <4>2
        <4>4. soldFor' = [soldFor EXCEPT ![run[r].key] = n]
          BY <4>1, <4>3
        <4> QED
          BY <4>2, <4>4
      <3> QED
        BY <3>2, <3>3
    <2>5. /\ run' \in [Runs -> RunState] /\ lock' \in Runs \cup {NoRun}
          /\ RunsHold'
      BY <1>8, <2>2, ExitType, AdvanceType
         DEF WriteLots, Continue, PlanSteps, PersistedSteps
    <2> QED
      BY <1>8, <2>2, <2>3, <2>4, <2>5, CountFaultType DEF WriteLots, TypeOK
  <1>9. CASE SkipEntry(r)
    <2>1. /\ run' \in [Runs -> RunState] /\ lock' \in Runs \cup {NoRun}
          /\ RunsHold'
      BY <1>9, AdvanceType DEF SkipEntry, PlanSteps, PersistedSteps
    <2> QED
      BY <1>9, <2>1 DEF SkipEntry, TypeOK, tabs, env, history
  <1>10. CASE AppendEntry(r)
    <2>1. run[r].key \in Keys /\ run[r].plan \in Plan
      BY <1>10 DEF AppendEntry, RunsHold, PlanSteps, PersistedSteps
    <2>2. /\ run[r].plan.entry \in Entry
          /\ run[r].plan.entry.investor \in Investors
          /\ run[r].plan.entry.units \in Int
      BY <2>1 DEF Plan, Entry
    <2>3. PICK o \in Outcomes :
            /\ CountFault(o)
            /\ investors' = [investors EXCEPT ![run[r].key] =
                               Appended(@, run[r].plan.entry, o)]
            /\ held' = [held EXCEPT ![run[r].plan.entry.investor] =
                          @ - Copies(o) * run[r].plan.entry.units]
            /\ IF Raises(o) THEN Exit(r)
               ELSE /\ run' = [run EXCEPT ![r].step = "shadow",
                         ![r].warn = run[r].replayed
                              /\ run[r].units < run[r].plan.entry.units]
                    /\ UNCHANGED lock
      BY <1>10 DEF AppendEntry
    <2>4. investors' \in [Keys -> Seq(Entry)]
      BY <2>1, <2>2, <2>3, AppendedRows DEF TypeOK
    <2>5. held' \in [Investors -> Int]
      <3>1. PICK c \in 0 .. 2 : c = Copies(o)
        BY CopiesType
      <3>2. c * run[r].plan.entry.units \in Int
        BY <2>2, <3>1
      <3> QED
        BY <2>2, <2>3, <3>1, <3>2 DEF TypeOK
    <2>6. /\ run' \in [Runs -> RunState] /\ lock' \in Runs \cup {NoRun}
          /\ RunsHold'
      <3>1. CASE Raises(o)
        BY <2>3, <3>1, ExitType
      <3>2. CASE ~Raises(o)
        <4>1. PICK w \in BOOLEAN :
                run' = [run EXCEPT ![r].step = "shadow", ![r].warn = w]
          BY <2>3, <3>2
        <4>2. run \in [Runs -> RunState] /\ run[r] \in RunState
          BY DEF TypeOK
        <4>3. [[run[r] EXCEPT !.step = "shadow"] EXCEPT !.warn = w] \in RunState
          BY <4>2 DEF RunState, Steps
        <4>4. run' = [run EXCEPT ![r] =
                        [[run[r] EXCEPT !.step = "shadow"] EXCEPT !.warn = w]]
          BY <4>1, <4>2
        <4>5. /\ run'[r].key = run[r].key /\ run'[r].plan = run[r].plan
              /\ run'[r].step = "shadow"
              /\ \A q \in Runs \ {r} : run'[q] = run[q]
          BY <4>2, <4>4 DEF RunState
        <4>6. RunsHold'
          BY <2>1, <4>5 DEF RunsHold, PlanSteps, PersistedSteps
        <4> QED
          BY <2>3, <3>2, <4>2, <4>3, <4>4, <4>6 DEF TypeOK
      <3> QED
        BY <3>1, <3>2
    <2> QED
      BY <1>10, <2>3, <2>4, <2>5, <2>6, CountFaultType
         DEF AppendEntry, TypeOK, history
  <1>11. CASE Refuse(r)
    BY <1>11, ExitType DEF Refuse, TypeOK, tabs, env, history
  <1>12. CASE ShadowWrite(r)
    <2>1. /\ run' \in [Runs -> RunState] /\ lock' \in Runs \cup {NoRun}
          /\ RunsHold'
      BY <1>12, AdvanceType DEF ShadowWrite, PlanSteps, PersistedSteps
    <2>2. shadow' \subseteq Keys
      <3>1. run[r].key \in Keys /\ shadow \subseteq Keys
        BY <1>12 DEF ShadowWrite, TypeOK, RunsHold
      <3>2. shadow' = shadow \/ shadow' = shadow \cup {run[r].key}
        BY <1>12 DEF ShadowWrite
      <3> QED
        BY <3>1, <3>2
    <2> QED
      BY <1>12, <2>1, <2>2 DEF ShadowWrite, TypeOK, env, history
  <1>13. CASE Release(r)
    <2>1. run' \in [Runs -> RunState]
      <3>1. run \in [Runs -> RunState] /\ run[r] \in RunState
        BY DEF TypeOK
      <3>2. [run[r] EXCEPT !.step = "report"] \in RunState
        BY <3>1 DEF RunState, Steps
      <3> QED
        BY <1>13, <3>1, <3>2 DEF Release
    <2>2. RunsHold'
      BY <1>13, <2>1 DEF Release, TypeOK, RunsHold, RunState, PlanSteps,
                         PersistedSteps
    <2> QED
      BY <1>13, <2>1, <2>2, ConstantsAssumption DEF Release, Released, TypeOK, tabs, history
  <1>14. CASE Report(r)
    <2>1. run[r].key \in Keys
      BY <1>14 DEF Report, RunsHold
    <2>2. run' \in [Runs -> RunState] /\ RunsHold'
      BY <1>14, IdleType DEF Report, TypeOK, RunsHold, Idle, PlanSteps,
                             PersistedSteps
    <2> QED
      BY <1>14, <2>1, <2>2 DEF Report, TypeOK, tabs, env
  <1> QED
    BY <1>1, <1>2, <1>3, <1>4, <1>5, <1>6, <1>7, <1>8, <1>9, <1>10, <1>11,
       <1>12, <1>13, <1>14 DEF CommitStep

\* A preview keeps the types: an amount worked out for --full is a natural
\* because the preview refuses an investor who holds nothing.
LEMMA PreviewType ==
  ASSUME TypeInv, NEW r \in Runs, NEW k \in Keys, NEW q \in RequestsOf[k],
         Preview(r, k, q)
  PROVE  TypeInv'
  <1> USE DEF TypeInv
  <1>1. PICK t \in Allocations :
          /\ PreviewAccepts(Resolve(q), t)
          /\ run' = [run EXCEPT ![r] =
                       [Idle EXCEPT !.step = "previewed", !.key = k, !.nav = nav,
                                    !.req = Resolve(q), !.preview = t]]
    BY DEF Preview
  <1>2. q \in Request /\ q.investor \in Investors /\ nav \in Nat
    BY ConstantsAssumption DEF Request, TypeOK
  <1>3. Resolve(q) \in Request
    <2>1. CASE q.amount = 0
      <3>1. Resolve(q) = [q EXCEPT !.amount = held[q.investor] * nav]
        BY <2>1 DEF Resolve
      <3>2. Resolve(q).investor = q.investor
        BY <1>2, <3>1 DEF Request
      <3>3. held[q.investor] \in Nat
        BY <1>1, <1>2, <3>2 DEF PreviewAccepts, TypeOK
      <3>4. PICK m \in Nat : m = held[q.investor] * nav
        BY <1>2, <3>3
      <3> QED
        BY <1>2, <3>1, <3>4 DEF Request
    <2>2. CASE q.amount # 0
      BY <1>2, <2>2 DEF Resolve
    <2> QED
      BY <2>1, <2>2
  <1> DEFINE new == [Idle EXCEPT !.step = "previewed", !.key = k, !.nav = nav,
                                 !.req = Resolve(q), !.preview = t]
  <1>4. new \in RunState
    BY <1>2, <1>3, IdleType DEF RunState, Steps
  <1>5. new.step = "previewed" /\ new.key = k /\ new.req = Resolve(q)
    BY DEF Idle
  <1> HIDE DEF new
  <1>6. run' = [run EXCEPT ![r] = new]
    BY <1>1 DEF new
  <1>7. run' \in [Runs -> RunState]
    BY <1>4, <1>6 DEF TypeOK
  <1>8. RunsHold'
    BY <1>3, <1>5, <1>6 DEF TypeOK, RunsHold, PlanSteps, PersistedSteps
  <1> QED
    BY <1>7, <1>8 DEF Preview, TypeOK, tabs, env, history

LEMMA CrashType ==
  ASSUME TypeInv, NEW r \in Runs, Crash(r)
  PROVE  TypeInv'
  <1>1. run' \in [Runs -> RunState] /\ RunsHold'
    BY IdleType DEF TypeInv, TypeOK, RunsHold, Crash, Idle, PlanSteps,
                    PersistedSteps
  <1> QED
    BY <1>1, ConstantsAssumption DEF Crash, TypeInv, TypeOK, tabs, history

\* What the rest of the system does keeps the types.
LEMMA EnvironmentType ==
  ASSUME TypeInv, Environment
  PROVE  TypeInv'
  <1> USE DEF TypeInv
  <1>1. CASE LockExpires
    BY <1>1 DEF LockExpires, TypeOK, RunsHold, tabs, env, history
  <1>2. CASE PublishNav
    BY <1>2 DEF PublishNav, TypeOK, RunsHold, tabs, history
  <1>3. CASE BookFill
    <2>1. PICK t \in Allocations :
            /\ IsFifo(t, lotOpen, 1)
            /\ lotOpen' = [i \in LotIds |-> lotOpen[i] - t[i]]
      BY <1>3 DEF BookFill
    <2>2. \A i \in LotIds : lotOpen[i] - t[i] \in 0 .. MaxShares
      <3>1. SUFFICES ASSUME NEW i \in LotIds
                     PROVE  lotOpen[i] - t[i] \in 0 .. MaxShares
        OBVIOUS
      <3>2. lotOpen[i] \in 0 .. MaxShares /\ t[i] \in 0 .. MaxShares
        BY DEF TypeOK, Allocations
      <3> QED
        BY <2>1, <3>2, ConstantsAssumption DEF IsFifo
    <2>3. lotOpen' \in Allocations
      BY <2>1, <2>2 DEF Allocations
    <2>4. fills' \in 0 .. MaxFills
      BY <1>3, ConstantsAssumption DEF BookFill, TypeOK
    <2> QED
      BY <1>3, <2>3, <2>4 DEF BookFill, TypeOK, RunsHold, history
  <1>4. CASE \E i \in Investors : RecordContribution(i)
    <2>1. PICK i \in Investors : RecordContribution(i)
      BY <1>4
    <2>2. held' \in [Investors -> Int]
      BY <2>1 DEF RecordContribution, TypeOK
    <2>3. contributions' \in 0 .. MaxContributions
      BY <2>1, ConstantsAssumption DEF RecordContribution, TypeOK
    <2> QED
      BY <2>1, <2>2, <2>3 DEF RecordContribution, TypeOK, RunsHold, history
  <1> QED
    BY <1>1, <1>2, <1>3, <1>4 DEF Environment

LEMMA InitType == Init => TypeInv
  <1> SUFFICES ASSUME Init PROVE TypeInv
    OBVIOUS
  <1>1. TypeOK
    BY ConstantsAssumption, IdleType DEF Init, TypeOK
  <1>2. RunsHold
    BY DEF Init, RunsHold, Idle, PlanSteps, PersistedSteps
  <1> QED
    BY <1>1, <1>2 DEF TypeInv

LEMMA NextType == TypeInv /\ [Next]_vars => TypeInv'
  <1> SUFFICES ASSUME TypeInv, [Next]_vars PROVE TypeInv'
    OBVIOUS
  <1>1. CASE \E r \in Runs, k \in Keys : \E q \in RequestsOf[k] : Preview(r, k, q)
    BY <1>1, PreviewType
  <1>2. CASE \E r \in Runs : CommitStep(r) \/ Crash(r)
    BY <1>2, CommitStepType, CrashType
  <1>3. CASE Environment
    BY <1>3, EnvironmentType
  <1>4. CASE UNCHANGED vars
    BY <1>4 DEF vars, tabs, env, history, TypeInv, TypeOK, RunsHold
  <1> QED
    BY <1>1, <1>2, <1>3, <1>4 DEF Next

\* The tabs keep their row shapes, the lots stay within 0 .. MaxShares (no
\* plan and no fill takes more than a lot holds) and every invocation is at a
\* step of the command, whatever the number of runs, keys, lots and faults.
THEOREM TypeCorrect == Spec => []TypeOK
  <1>1. TypeInv => TypeOK
    BY DEF TypeInv
  <1> QED
    BY InitType, NextType, <1>1, PTL DEF Spec

-----------------------------------------------------------------------------
(***************************************************************************)
(* The safety of the withdrawal commit: what holds whatever fails, what    *)
(* needs the lock, and what needs the transport not to duplicate.          *)
(***************************************************************************)

\* A run at these steps has read the tabs and not yet written its row.
OpenSteps == {"appendPlan", "trades", "appendTrades", "lots", "entry"}

-----------------------------------------------------------------------------
(* How a step moves a run                                                  *)

LEMMA AdvanceRun ==
  ASSUME TypeInv, NEW r \in Runs, NEW step, Advance(r, step)
  PROVE  /\ run'[r].step = step /\ run'[r].key = run[r].key
         /\ run'[r].plan = run[r].plan /\ run'[r].rows = run[r].rows
         /\ run'[r].units = run[r].units /\ run'[r].replayed = run[r].replayed
         /\ \A q \in Runs \ {r} : run'[q] = run[q]
         /\ lock' = lock
  BY DEF Advance, TypeInv, TypeOK, RunState

LEMMA ExitRun ==
  ASSUME TypeInv, NEW r \in Runs, Exit(r)
  PROVE  /\ run'[r].step = "idle"
         /\ \A q \in Runs \ {r} : run'[q] = run[q]
         /\ lock' = (IF lock = r THEN NoRun ELSE lock)
  BY DEF Exit, Released, Idle, TypeInv, TypeOK

LEMMA SnapshotRun ==
  ASSUME TypeInv, NEW r \in Runs, NEW p, NEW step, NEW b, Snapshot(r, p, step, b)
  PROVE  /\ run'[r].step = step /\ run'[r].key = run[r].key
         /\ run'[r].plan = p /\ run'[r].rows = investors[run[r].key]
         /\ run'[r].units = held[p.entry.investor] /\ run'[r].replayed = b
         /\ \A q \in Runs \ {r} : run'[q] = run[q]
  <1> DEFINE new == [Idle EXCEPT !.step = step, !.key = run[r].key, !.plan = p,
                                 !.replayed = b, !.rows = investors[run[r].key],
                                 !.lots = lotOpen,
                                 !.units = held[p.entry.investor]]
  <1>1. run' = [run EXCEPT ![r] = new]
    BY DEF Snapshot
  <1>2. /\ new.step = step /\ new.key = run[r].key /\ new.plan = p
        /\ new.rows = investors[run[r].key] /\ new.replayed = b
        /\ new.units = held[p.entry.investor]
    BY DEF Idle
  <1> HIDE DEF new
  <1> QED
    BY <1>1, <1>2 DEF TypeInv, TypeOK

\* Where a commit step takes its run: it ends; it takes the lock; it begins;
\* or it goes on with the plan, the rows and the units it began with.
RunMoves(r) ==
    \/ run'[r].step = "idle"
    \/ Acquire(r) /\ run'[r].step = "locked"
    \/ BeginReplay(r) \/ BeginFresh(r)
    \/ /\ run[r].step \in PlanSteps /\ run'[r].step \in PersistedSteps
       /\ run'[r].key = run[r].key /\ run'[r].plan = run[r].plan
       /\ run'[r].rows = run[r].rows /\ run'[r].units = run[r].units
       /\ run'[r].replayed = run[r].replayed
       /\ run[r].step = "appendPlan" => run'[r].step = "trades"
       /\ run'[r].step \in OpenSteps => run[r].step \in OpenSteps

LEMMA CommitMoves ==
  ASSUME TypeInv, NEW r \in Runs, CommitStep(r)
  PROVE  RunMoves(r) /\ \A q \in Runs \ {r} : run'[q] = run[q]
  <1> USE DEF RunMoves, PlanSteps, PersistedSteps, OpenSteps
  <1>1. CASE Acquire(r)
    <2>1. CASE run' = [run EXCEPT ![r].step = "locked"]
      BY <1>1, <2>1 DEF TypeInv, TypeOK, RunState
    <2>2. CASE run' = [run EXCEPT ![r] = Idle]
      BY <2>2 DEF Idle, TypeInv, TypeOK
    <2> QED
      BY <1>1, <2>1, <2>2 DEF Acquire
  <1>2. CASE BeginReplay(r)
    BY <1>2, SnapshotRun DEF BeginReplay
  <1>3. CASE BeginFresh(r)
    BY <1>3, SnapshotRun DEF BeginFresh
  <1>4. CASE AppendPlan(r)
    BY <1>4, AdvanceRun, ExitRun DEF AppendPlan, Continue
  <1>5. CASE CheckTrades(r)
    BY <1>5, AdvanceRun DEF CheckTrades
  <1>6. CASE AppendTrades(r)
    BY <1>6, AdvanceRun, ExitRun DEF AppendTrades, Continue
  <1>7. CASE SkipLots(r)
    BY <1>7, AdvanceRun DEF SkipLots
  <1>8. CASE WriteLots(r)
    BY <1>8, AdvanceRun, ExitRun DEF WriteLots, Continue
  <1>9. CASE SkipEntry(r)
    BY <1>9, AdvanceRun DEF SkipEntry
  <1>10. CASE AppendEntry(r)
    <2>1. PICK o \in Outcomes :
            IF Raises(o) THEN Exit(r)
            ELSE /\ run' = [run EXCEPT ![r].step = "shadow",
                      ![r].warn = run[r].replayed
                           /\ run[r].units < run[r].plan.entry.units]
                 /\ UNCHANGED lock
      BY <1>10 DEF AppendEntry
    <2>2. CASE Raises(o)
      BY <2>1, <2>2, ExitRun
    <2>3. CASE ~Raises(o)
      <3>1. PICK w : run' = [run EXCEPT ![r].step = "shadow", ![r].warn = w]
        BY <2>1, <2>3
      <3>2. run[r].step = "entry"
        BY <1>10 DEF AppendEntry
      <3> QED
        BY <3>1, <3>2 DEF TypeInv, TypeOK, RunState
    <2> QED
      BY <2>2, <2>3
  <1>11. CASE Refuse(r)
    BY <1>11, ExitRun DEF Refuse
  <1>12. CASE ShadowWrite(r)
    BY <1>12, AdvanceRun DEF ShadowWrite
  <1>13. CASE Release(r)
    BY <1>13 DEF Release, TypeInv, TypeOK, RunState
  <1>14. CASE Report(r)
    BY <1>14 DEF Report, Idle, TypeInv, TypeOK
  <1> QED
    BY <1>1, <1>2, <1>3, <1>4, <1>5, <1>6, <1>7, <1>8, <1>9, <1>10, <1>11,
       <1>12, <1>13, <1>14 DEF CommitStep

\* A preview and a crash move one run, to a step that has no plan.
LEMMA OutsideMoves ==
  ASSUME TypeInv, NEW r \in Runs,
         \/ Crash(r)
         \/ \E k \in Keys : \E q \in RequestsOf[k] : Preview(r, k, q)
  PROVE  /\ run'[r].step \in {"idle", "previewed"}
         /\ \A q \in Runs \ {r} : run'[q] = run[q]
         /\ lock' = lock
         /\ UNCHANGED <<tabs, soldFor>>
  <1>1. CASE Crash(r)
    BY <1>1 DEF Crash, Idle, TypeInv, TypeOK, history
  <1>2. CASE \E k \in Keys : \E q \in RequestsOf[k] : Preview(r, k, q)
    BY <1>2 DEF Preview, Idle, TypeInv, TypeOK, history
  <1> QED
    BY <1>1, <1>2

-----------------------------------------------------------------------------
(* Whatever fails: no money moves before its plan is persisted             *)

\* A run past the append of its plan has that plan in the tab.
PlanInPlace ==
    \A r \in Runs : run[r].step \in PersistedSteps =>
        run[r].plan \in PlansOf(run[r].key)

PlanInv == TypeInv /\ PlanInPlace /\ PlanBeforeMoney

\* What a commit step does to the Withdrawal Operations tab: nothing, or it
\* appends its plan; a run that goes on has its plan in the tab.
LEMMA OperationsGrow ==
  ASSUME TypeInv, NEW r \in Runs, CommitStep(r)
  PROVE  /\ \A k \in Keys : \A p \in PlansOf(k) :
               \E i \in DOMAIN operations'[k] : operations'[k][i] = p
         /\ AppendPlan(r) /\ run'[r].step = "trades" =>
               \E i \in DOMAIN operations'[run[r].key] :
                   operations'[run[r].key][i] = run[r].plan
  <1>1. CASE AppendPlan(r)
    <2>1. PICK o \in Outcomes :
            /\ operations' = [operations EXCEPT ![run[r].key] =
                                Appended(@, run[r].plan, o)]
            /\ Continue(r, o, "trades")
      BY <1>1 DEF AppendPlan
    <2>2. run[r].key \in Keys /\ run[r].plan \in Plan
      BY <1>1 DEF AppendPlan, TypeInv, RunsHold, PlanSteps
    <2>3. PICK k0 \in Keys : k0 = run[r].key
      BY <2>2
    <2>4. operations[k0] \in Seq(Plan)
      BY DEF TypeInv, TypeOK
    <2>5. operations'[k0] = Appended(operations[k0], run[r].plan, o)
      BY <2>1, <2>3 DEF TypeInv, TypeOK
    <2>6. /\ DOMAIN operations[k0] = 1 .. Len(operations[k0])
          /\ Len(operations[k0]) \in Nat
      BY <2>4
    <2>7. /\ DOMAIN operations'[k0] = 1 .. (Len(operations[k0]) + Copies(o))
          /\ \A i \in 1 .. Len(operations[k0]) :
                operations'[k0][i] = operations[k0][i]
          /\ \A i \in 1 .. (Len(operations[k0]) + Copies(o)) :
                i > Len(operations[k0]) => operations'[k0][i] = run[r].plan
      BY <2>2, <2>4, <2>5, AppendedRows
    <2>8. Copies(o) \in 0 .. 2
      BY CopiesType
    <2>9. \A p \in PlansOf(k0) :
             \E i \in DOMAIN operations'[k0] : operations'[k0][i] = p
      BY <2>6, <2>7, <2>8 DEF PlansOf
    <2>10. \A k \in Keys \ {k0} : operations'[k] = operations[k]
      BY <2>1, <2>3 DEF TypeInv, TypeOK
    <2>11. ASSUME run'[r].step = "trades" 
          PROVE  \E i \in DOMAIN operations'[k0] : operations'[k0][i] = run[r].plan
      <3>1. ~Raises(o)
        BY <2>1, <2>11, ExitRun DEF Continue
      <3>2. Copies(o) > 0
        BY <3>1 DEF Copies, Raises
      <3>3. Len(operations[k0]) + 1 \in DOMAIN operations'[k0]
        BY <2>6, <2>7, <2>8, <3>2
      <3>4. operations'[k0][Len(operations[k0]) + 1] = run[r].plan
        BY <2>6, <2>7, <3>3
      <3> QED
        BY <3>3, <3>4
    <2> QED
      BY <2>3, <2>9, <2>10, <2>11 DEF PlansOf
  <1>2. CASE ~AppendPlan(r)
    <2>1. operations' = operations
      BY <1>2 DEF CommitStep, Acquire, BeginReplay, BeginFresh, CheckTrades,
                  AppendTrades, SkipLots, WriteLots, SkipEntry, AppendEntry,
                  Refuse, ShadowWrite, Release, Report, tabs
    <2> QED
      BY <1>2, <2>1 DEF PlansOf
  <1> QED
    BY <1>1, <1>2

LEMMA PlanInPlaceStep ==
  ASSUME PlanInv, NEW r \in Runs, CommitStep(r)
  PROVE  PlanInPlace'
  <1>1. /\ RunMoves(r) /\ \A q \in Runs \ {r} : run'[q] = run[q]
        /\ \A k \in Keys : \A p \in PlansOf(k) :
              \E i \in DOMAIN operations'[k] : operations'[k][i] = p
    BY CommitMoves, OperationsGrow DEF PlanInv
  <1>2. ASSUME NEW q \in Runs \ {r}, run'[q].step \in PersistedSteps
        PROVE  (run[q].plan \in PlansOf(run[q].key))'
    <2>1. run'[q] = run[q] /\ run[q].key \in Keys
      BY <1>1, <1>2 DEF PlanInv, TypeInv, RunsHold, PersistedSteps
    <2> QED
      <3>1. run[q].plan \in PlansOf(run[q].key)
        BY <1>2, <2>1 DEF PlanInv, PlanInPlace
      <3>2. \E i \in DOMAIN operations'[run[q].key] :
               operations'[run[q].key][i] = run[q].plan
        BY <1>1, <2>1, <3>1
      <3> QED
        BY <2>1, <3>2 DEF PlansOf
  <1>3. ASSUME run'[r].step \in PersistedSteps
        PROVE  (run[r].plan \in PlansOf(run[r].key))'
    <2>1. CASE BeginReplay(r)
      <3>1. /\ run'[r].key = run[r].key
            /\ run'[r].plan = operations[run[r].key][1]
        <4>1. TypeInv
          BY DEF PlanInv
        <4> DEFINE p == operations[run[r].key][1]
        <4>2. Snapshot(r, p, "trades", TRUE)
          BY <2>1 DEF BeginReplay
        <4> HIDE DEF p
        <4>3. run'[r].key = run[r].key /\ run'[r].plan = p
          BY <4>1, <4>2, SnapshotRun
        <4> QED
          BY <4>3 DEF p
      <3>2. run[r].key \in Keys /\ operations[run[r].key] \in Seq(Plan)
        BY <2>1 DEF BeginReplay, PlanInv, TypeInv, TypeOK, RunsHold
      <3>3. 1 \in DOMAIN operations[run[r].key]
        BY <2>1, <3>2 DEF BeginReplay, CanReplay
      <3>4. operations[run[r].key][1] \in PlansOf(run[r].key)
        BY <3>3 DEF PlansOf
      <3> QED
        <4>1. \E i \in DOMAIN operations'[run[r].key] :
                 operations'[run[r].key][i] = operations[run[r].key][1]
          BY <1>1, <3>2, <3>4
        <4> QED
          BY <3>1, <4>1 DEF PlansOf
    <2>2. CASE BeginFresh(r)
      <3>1. run'[r].step = "appendPlan"
        <4>1. PICK p, b : Snapshot(r, p, "appendPlan", b)
          BY <2>2 DEF BeginFresh
        <4> QED
          BY <4>1, SnapshotRun DEF PlanInv
      <3> QED
        BY <1>3, <3>1 DEF PersistedSteps
    <2>3. CASE /\ run[r].step \in PlanSteps
               /\ run'[r].key = run[r].key /\ run'[r].plan = run[r].plan
               /\ run[r].step = "appendPlan" => run'[r].step = "trades"
      <3>1. run[r].key \in Keys
        BY <2>3 DEF PlanInv, TypeInv, RunsHold, PlanSteps, PersistedSteps
      <3>2. CASE run[r].step \in PersistedSteps
        BY <1>1, <2>3, <3>1, <3>2 DEF PlanInv, PlanInPlace, PlansOf
      <3>3. CASE run[r].step = "appendPlan"
        <4>1. AppendPlan(r)
          BY <1>3, <3>3 DEF CommitStep, Acquire, BeginReplay, BeginFresh,
               CheckTrades, AppendTrades, SkipLots, WriteLots, SkipEntry,
               AppendEntry, Refuse, ShadowWrite, Release, Report
        <4> QED
          BY <2>3, <3>3, <4>1, OperationsGrow DEF PlanInv, PlansOf
      <3> QED
        BY <2>3, <3>2, <3>3 DEF PlanSteps
    <2> QED
      BY <1>1, <1>3, <2>1, <2>2, <2>3 DEF RunMoves, PersistedSteps
  <1> QED
    BY <1>2, <1>3 DEF PlanInPlace

\* A money row of a key is backed by a plan of that key.
Backed(k) ==
    /\ \A i \in DOMAIN tradeRows[k] :
          \E p \in PlansOf(k) : tradeRows[k][i] = TradeOf(p)
    /\ \A i \in DOMAIN investors[k] :
          \E p \in PlansOf(k) : investors[k][i] = p.entry
    /\ soldFor[k] > 0 => operations[k] # <<>>

\* An append of a row that satisfies P to a tab all of whose rows do.
LEMMA AppendKeeps ==
  ASSUME NEW S, NEW rows \in Seq(S), NEW row \in S, NEW o, NEW Good,
         row \in Good, \A i \in DOMAIN rows : rows[i] \in Good
  PROVE  \A i \in DOMAIN Appended(rows, row, o) : Appended(rows, row, o)[i] \in Good
  <1>1. DOMAIN rows = 1 .. Len(rows) /\ Len(rows) \in Nat
    OBVIOUS
  <1>2. PICK new : new = Appended(rows, row, o)
    OBVIOUS
  <1>3. /\ DOMAIN new = 1 .. (Len(rows) + Copies(o))
        /\ \A i \in 1 .. Len(rows) : new[i] = rows[i]
        /\ \A i \in 1 .. (Len(rows) + Copies(o)) : i > Len(rows) => new[i] = row
    BY <1>2, AppendedRows
  <1>4. Copies(o) \in 0 .. 2
    BY CopiesType
  <1> QED
    BY <1>1, <1>2, <1>3, <1>4

LEMMA PlanBeforeMoneyStep ==
  ASSUME PlanInv, NEW r \in Runs, CommitStep(r), NEW k \in Keys
  PROVE  Backed(k)'
  <1> DEFINE Trades == {TradeOf(p) : p \in PlansOf(k)}
             Entries == {p.entry : p \in PlansOf(k)}
  <1>1. /\ TypeOK /\ RunsHold
        /\ \A i \in DOMAIN tradeRows[k] : tradeRows[k][i] \in Trades
        /\ \A i \in DOMAIN investors[k] : investors[k][i] \in Entries
        /\ soldFor[k] > 0 => operations[k] # <<>>
        /\ \A p \in PlansOf(k) :
              \E i \in DOMAIN operations'[k] : operations'[k][i] = p
    BY OperationsGrow DEF PlanInv, TypeInv, PlanBeforeMoney
  <1>2. run[r].step \in PersistedSteps => run[r].plan \in PlansOf(run[r].key)
    BY DEF PlanInv, PlanInPlace
  <1>3. \A i \in DOMAIN tradeRows'[k] : tradeRows'[k][i] \in Trades
    <2>1. CASE AppendTrades(r) /\ run[r].key = k
      <3>1. PICK o \in Outcomes :
              tradeRows' = [tradeRows EXCEPT ![run[r].key] =
                              Appended(@, TradeOf(run[r].plan), o)]
        BY <2>1 DEF AppendTrades
      <3>2. tradeRows'[k] = Appended(tradeRows[k], TradeOf(run[r].plan), o)
        BY <1>1, <2>1, <3>1 DEF TypeOK
      <3>3. run[r].plan \in PlansOf(k) /\ run[r].plan \in Plan
        BY <1>1, <1>2, <2>1 DEF AppendTrades, RunsHold, PlanSteps, PersistedSteps
      <3>4. TradeOf(run[r].plan) \in Trade /\ TradeOf(run[r].plan) \in Trades
        BY <3>3 DEF TradeOf, Trade, Plan, Request
      <3>5. tradeRows[k] \in Seq(Trade)
        BY <1>1 DEF TypeOK
      <3> HIDE DEF Trades
      <3> QED
        BY <1>1, <3>2, <3>4, <3>5, AppendKeeps
    <2>2. CASE ~(AppendTrades(r) /\ run[r].key = k)
      <3>1. tradeRows'[k] = tradeRows[k]
        BY <1>1, <2>2 DEF TypeOK, CommitStep, Acquire, BeginReplay, BeginFresh,
             AppendPlan, CheckTrades, AppendTrades, SkipLots, WriteLots,
             SkipEntry, AppendEntry, Refuse, ShadowWrite, Release, Report, tabs
      <3> QED
        BY <1>1, <3>1
    <2> QED
      BY <2>1, <2>2
  <1>4. \A i \in DOMAIN investors'[k] : investors'[k][i] \in Entries
    <2>1. CASE AppendEntry(r) /\ run[r].key = k
      <3>1. PICK o \in Outcomes :
              investors' = [investors EXCEPT ![run[r].key] =
                              Appended(@, run[r].plan.entry, o)]
        BY <2>1 DEF AppendEntry
      <3>2. investors'[k] = Appended(investors[k], run[r].plan.entry, o)
        BY <1>1, <2>1, <3>1 DEF TypeOK
      <3>3. run[r].plan \in PlansOf(k) /\ run[r].plan \in Plan
        BY <1>1, <1>2, <2>1 DEF AppendEntry, RunsHold, PlanSteps, PersistedSteps
      <3>4. run[r].plan.entry \in Entry /\ run[r].plan.entry \in Entries
        BY <3>3 DEF Plan
      <3>5. investors[k] \in Seq(Entry)
        BY <1>1 DEF TypeOK
      <3> HIDE DEF Entries
      <3> QED
        BY <1>1, <3>2, <3>4, <3>5, AppendKeeps
    <2>2. CASE ~(AppendEntry(r) /\ run[r].key = k)
      <3>1. investors'[k] = investors[k]
        BY <1>1, <2>2 DEF TypeOK, CommitStep, Acquire, BeginReplay, BeginFresh,
             AppendPlan, CheckTrades, AppendTrades, SkipLots, WriteLots,
             SkipEntry, AppendEntry, Refuse, ShadowWrite, Release, Report, tabs
      <3> QED
        BY <1>1, <3>1
    <2> QED
      BY <2>1, <2>2
  <1>5. soldFor'[k] > 0 => operations'[k] # <<>>
    <2>1. operations[k] \in Seq(Plan)
      BY <1>1 DEF TypeOK
    <2>2. operations[k] # <<>> => operations'[k] # <<>>
      <3>1. operations[k] # <<>> => operations[k][1] \in PlansOf(k)
        BY <2>1 DEF PlansOf
      <3> QED
        BY <1>1, <3>1
    <2>3. CASE WriteLots(r) /\ run[r].key = k
      <3>1. run[r].plan \in PlansOf(k)
        BY <1>2, <2>3 DEF WriteLots, PersistedSteps
      <3>2. operations[k] # <<>>
        BY <3>1 DEF PlansOf
      <3> QED
        BY <2>2, <3>2
    <2>4. CASE ~(WriteLots(r) /\ run[r].key = k)
      <3>1. soldFor'[k] = soldFor[k]
        BY <1>1, <2>4 DEF TypeOK, CommitStep, Acquire, BeginReplay, BeginFresh,
             AppendPlan, CheckTrades, AppendTrades, SkipLots, WriteLots,
             SkipEntry, AppendEntry, Refuse, ShadowWrite, Release, Report, tabs,
             history
      <3> QED
        BY <1>1, <2>2, <3>1
    <2> QED
      BY <2>3, <2>4
  <1> HIDE DEF Trades, Entries
  <1>6. \A x \in Trades : \E i \in DOMAIN operations'[k] : x = TradeOf(operations'[k][i])
    BY <1>1 DEF Trades
  <1>7. \A x \in Entries : \E i \in DOMAIN operations'[k] : x = operations'[k][i].entry
    BY <1>1 DEF Entries
  <1> QED
    BY <1>3, <1>4, <1>5, <1>6, <1>7 DEF Backed, PlansOf

LEMMA PlanInvNext == PlanInv /\ [Next]_vars => PlanInv'
  <1> SUFFICES ASSUME PlanInv, [Next]_vars PROVE PlanInv'
    OBVIOUS
  <1>1. TypeInv /\ TypeInv'
    BY NextType DEF PlanInv
  <1>2. CASE \E r \in Runs : CommitStep(r)
    <2>1. PICK r \in Runs : CommitStep(r)
      BY <1>2
    <2>2. PlanInPlace'
      BY <2>1, PlanInPlaceStep
    <2>3. \A k \in Keys : Backed(k)'
      BY <2>1, PlanBeforeMoneyStep
    <2>4. PlanBeforeMoney'
      BY <2>3 DEF PlanBeforeMoney, Backed
    <2> QED
      BY <1>1, <2>2, <2>4 DEF PlanInv
  <1>3. CASE \E r \in Runs :
               \/ Crash(r)
               \/ \E k \in Keys : \E q \in RequestsOf[k] : Preview(r, k, q)
    <2>1. PICK r \in Runs :
            /\ run'[r].step \in {"idle", "previewed"}
            /\ \A q \in Runs \ {r} : run'[q] = run[q]
            /\ UNCHANGED <<tabs, soldFor>>
      BY <1>1, <1>3, OutsideMoves
    <2>2. PlanInPlace'
      <3>1. ASSUME NEW q \in Runs, run'[q].step \in PersistedSteps
            PROVE  (run[q].plan \in PlansOf(run[q].key))'
        <4>1. run'[q] = run[q] /\ operations' = operations
          BY <2>1, <3>1 DEF PersistedSteps, tabs
        <4> QED
          BY <3>1, <4>1 DEF PlanInv, PlanInPlace, PlansOf
      <3> QED
        BY <3>1 DEF PlanInPlace
    <2>3. PlanBeforeMoney'
      BY <2>1 DEF PlanInv, PlanBeforeMoney, PlansOf, tabs
    <2> QED
      BY <1>1, <2>2, <2>3 DEF PlanInv
  <1>4. CASE Environment \/ UNCHANGED vars
    <2>1. UNCHANGED <<operations, tradeRows, investors, run, soldFor>>
      BY <1>4 DEF Environment, LockExpires, PublishNav, BookFill,
                  RecordContribution, tabs, history, vars
    <2> QED
      BY <1>1, <2>1 DEF PlanInv, PlanInPlace, PlanBeforeMoney, PlansOf
  <1> QED
    BY <1>2, <1>3, <1>4 DEF Next

\* The plan is persisted before any money state moves under its key: whatever
\* fails, whoever crashes, and even if the lock expires under its holder.
THEOREM PlanBeforeMoneyHolds == Spec => []PlanBeforeMoney
  <1>1. Init => PlanInv
    <2> SUFFICES ASSUME Init PROVE PlanInv
      OBVIOUS
    <2>1. TypeInv
      BY InitType
    <2>2. PlanInPlace
      BY DEF Init, Idle, PlanInPlace, PersistedSteps
    <2>3. PlanBeforeMoney
      BY DEF Init, PlanBeforeMoney
    <2> QED
      BY <2>1, <2>2, <2>3 DEF PlanInv
  <1>2. PlanInv => PlanBeforeMoney
    BY DEF PlanInv
  <1> QED
    BY <1>1, <1>2, PlanInvNext, PTL DEF Spec

-----------------------------------------------------------------------------
(***************************************************************************)
(* What the capital-ledger lock gives a withdrawal as long as it outlives  *)
(* its holder's commit: the tabs a run has read do not change under it.    *)
(***************************************************************************)

\* A run inside its commit holds the lock.
Mutex == \A r \in Runs : InCommit(r) => lock = r

\* A run about to append its plan is the first under its key.
FreshIsFirst ==
    \A r \in Runs : run[r].step = "appendPlan" => operations[run[r].key] = <<>>

\* The Investors rows a run read when it began are still the rows.
RowsCurrent ==
    \A r \in Runs : run[r].step \in OpenSteps =>
        run[r].rows = investors[run[r].key]

\* A run about to append a sale still finds none under its key.
TradesChecked ==
    \A r \in Runs : run[r].step = "appendTrades" =>
        tradeRows[run[r].key] = <<>>

\* A run with a plan of its own still finds the units it is to burn.
UnitsSuffice ==
    \A r \in Runs : run[r].step \in OpenSteps /\ ~run[r].replayed =>
        run[r].plan.entry.units <= held[run[r].plan.entry.investor]

LockInv ==
    /\ PlanInv /\ Mutex /\ FreshIsFirst /\ OnePlanPerKey
    /\ RowsCurrent /\ TradesChecked /\ UnitsSuffice

-----------------------------------------------------------------------------
(* Mutual exclusion                                                        *)

LEMMA CommitLock ==
  ASSUME TypeInv, NEW r \in Runs, CommitStep(r)
  PROVE  \/ Acquire(r)
         \/ lock' = lock /\ InCommit(r)
         \/ lock' = lock /\ run'[r].step \in {"idle", "report"}
         \/ /\ run'[r].step \in {"idle", "report"}
            /\ lock' = (IF lock = r THEN NoRun ELSE lock)
  <1>1. CASE Acquire(r)
    BY <1>1
  <1>2. CASE BeginReplay(r) \/ BeginFresh(r)
    BY <1>2 DEF BeginReplay, BeginFresh, InCommit
  <1>3. CASE AppendPlan(r) \/ AppendTrades(r) \/ WriteLots(r)
    BY <1>3, AdvanceRun, ExitRun
       DEF AppendPlan, AppendTrades, WriteLots, Continue, InCommit
  <1>4. CASE CheckTrades(r) \/ SkipLots(r) \/ SkipEntry(r) \/ ShadowWrite(r)
    BY <1>4, AdvanceRun
       DEF CheckTrades, SkipLots, SkipEntry, ShadowWrite, InCommit
  <1>5. CASE AppendEntry(r)
    BY <1>5, ExitRun DEF AppendEntry, InCommit
  <1>6. CASE Refuse(r)
    BY <1>6, ExitRun DEF Refuse
  <1>7. CASE Release(r)
    BY <1>7 DEF Release, Released, TypeInv, TypeOK, RunState
  <1>8. CASE Report(r)
    BY <1>8 DEF Report, Idle, TypeInv, TypeOK
  <1> QED
    BY <1>1, <1>2, <1>3, <1>4, <1>5, <1>6, <1>7, <1>8 DEF CommitStep

LEMMA MutexStep ==
  ASSUME TypeInv, Mutex, NEW r \in Runs, CommitStep(r)
  PROVE  Mutex'
  <1>1. \A q \in Runs \ {r} : run'[q] = run[q]
    BY CommitMoves
  <1>2. NoRun \notin Runs
    BY ConstantsAssumption
  <1>3. CASE Acquire(r)
    <2>1. CASE lock = NoRun
      BY <1>1, <1>2, <1>3, <2>1 DEF Acquire, Mutex, InCommit
    <2>2. CASE lock # NoRun
      <3>1. lock' = lock /\ run'[r].step = "idle"
        BY <1>3, <2>2 DEF Acquire, Idle, TypeInv, TypeOK
      <3> QED
        BY <1>1, <3>1 DEF Mutex, InCommit
    <2> QED
      BY <2>1, <2>2
  <1>4. CASE lock' = lock /\ (InCommit(r) \/ run'[r].step \in {"idle", "report"})
    BY <1>1, <1>4 DEF Mutex, InCommit
  <1>5. CASE /\ run'[r].step \in {"idle", "report"}
             /\ lock' = (IF lock = r THEN NoRun ELSE lock)
    BY <1>1, <1>5 DEF Mutex, InCommit
  <1> QED
    BY <1>3, <1>4, <1>5, CommitLock

\* While one run is inside its commit no other run touches the tabs.
LEMMA OthersWait ==
  ASSUME TypeInv, Mutex, NEW r \in Runs, NEW q \in Runs, q # r, InCommit(q),
         CommitStep(r)
  PROVE  UNCHANGED tabs
  <1>1. ~InCommit(r)
    BY DEF Mutex
  <1> QED
    BY <1>1 DEF CommitStep, InCommit, Acquire, BeginReplay, BeginFresh,
       AppendPlan, CheckTrades, AppendTrades, SkipLots, WriteLots, SkipEntry,
       AppendEntry, Refuse, ShadowWrite, Release, Report

-----------------------------------------------------------------------------
(* What a run has read stays true until it writes                          *)

\* FreshIsFirst, RowsCurrent, TradesChecked and UnitsSuffice, of one run.
Current(q) ==
    /\ run[q].step = "appendPlan" => operations[run[q].key] = <<>>
    /\ run[q].step \in OpenSteps => run[q].rows = investors[run[q].key]
    /\ run[q].step = "appendTrades" => tradeRows[run[q].key] = <<>>
    /\ run[q].step \in OpenSteps /\ ~run[q].replayed =>
          run[q].plan.entry.units <= held[run[q].plan.entry.investor]

LEMMA OtherStaysCurrent ==
  ASSUME LockInv, NEW r \in Runs, CommitStep(r), NEW q \in Runs \ {r}
  PROVE  Current(q)'
  <1>1. TypeInv /\ run'[q] = run[q]
    BY CommitMoves DEF LockInv, PlanInv
  <1>2. CASE InCommit(q)
    <2>1. UNCHANGED tabs
      BY <1>1, <1>2, OthersWait DEF LockInv
    <2> QED
      BY <1>1, <2>1 DEF LockInv, Current, FreshIsFirst, RowsCurrent,
                        TradesChecked, UnitsSuffice, tabs
  <1>3. CASE ~InCommit(q)
    BY <1>1, <1>3 DEF InCommit, Current, OpenSteps
  <1> QED
    BY <1>2, <1>3

\* A run begins on the tabs as they are; a plan of its own passed the ceiling.
LEMMA BeginsCurrent ==
  ASSUME LockInv, NEW r \in Runs, BeginReplay(r) \/ BeginFresh(r)
  PROVE  Current(r)'
  <1>1. TypeInv /\ UNCHANGED tabs
    BY DEF LockInv, PlanInv, BeginReplay, BeginFresh
  <1>2. CASE BeginReplay(r)
    <2>1. /\ run'[r].step = "trades" /\ run'[r].key = run[r].key
          /\ run'[r].rows = investors[run[r].key] /\ run'[r].replayed = TRUE
      <3>1. PICK p, b : Snapshot(r, p, "trades", b)
        BY <1>2 DEF BeginReplay
      <3>2. /\ run'[r].step = "trades" /\ run'[r].key = run[r].key
            /\ run'[r].rows = investors[run[r].key]
        BY <1>1, <3>1, SnapshotRun
      <3>3. run'[r].replayed = TRUE
        BY <1>1, <1>2 DEF BeginReplay, Snapshot, Idle, TypeInv, TypeOK
      <3> QED
        BY <3>2, <3>3
    <2> QED
      BY <1>1, <2>1 DEF Current, tabs
  <1>3. CASE BeginFresh(r)
    <2>1. PICK t \in Allocations :
            /\ CanPlan(r, t)
            /\ Snapshot(r, BuildPlan(run[r].req, nav, lotOpen, t), "appendPlan",
                        FALSE)
      BY <1>3 DEF BeginFresh
    <2>2. PICK p, b : /\ p = BuildPlan(run[r].req, nav, lotOpen, t)
                      /\ Snapshot(r, p, "appendPlan", b)
      BY <2>1
    <2>3. /\ run'[r].step = "appendPlan" /\ run'[r].key = run[r].key
          /\ run'[r].rows = investors[run[r].key] /\ run'[r].plan = p
      BY <1>1, <2>2, SnapshotRun
    <2>4. /\ p.entry.investor = run[r].req.investor
          /\ p.entry.units = UnitsFor(run[r].req.amount, nav)
      BY <2>2 DEF BuildPlan, EntryOf
    <2>5. /\ operations[run[r].key] = <<>>
          /\ UnitsFor(run[r].req.amount, nav) <= held[run[r].req.investor]
      BY <2>1 DEF CanPlan
    <2> QED
      BY <1>1, <2>3, <2>4, <2>5 DEF Current, tabs
  <1> QED
    BY <1>2, <1>3

\* Going on, a run stays current: before its Investors row it writes neither
\* the rows nor the units, and it goes to append a sale only if it found none.
LEMMA GoesOnCurrent ==
  ASSUME LockInv, NEW r \in Runs, CommitStep(r), run[r].step \in OpenSteps,
         run'[r].step \in OpenSteps \ {"appendPlan"},
         run'[r].key = run[r].key, run'[r].plan = run[r].plan,
         run'[r].rows = run[r].rows, run'[r].replayed = run[r].replayed
  PROVE  Current(r)'
  <1>1. TypeInv /\ Current(r)
    BY DEF LockInv, PlanInv, Current, FreshIsFirst, RowsCurrent, TradesChecked,
           UnitsSuffice
  <1>2. CASE AppendEntry(r)
    <2>1. PICK o : IF Raises(o) THEN Exit(r)
                   ELSE run' = [run EXCEPT ![r].step = "shadow",
                           ![r].warn = run[r].replayed
                                /\ run[r].units < run[r].plan.entry.units]
      BY <1>2 DEF AppendEntry
    <2>2. run'[r].step \in {"idle", "shadow"}
      BY <1>1, <2>1, ExitRun DEF TypeInv, TypeOK, RunState
    <2> QED
      BY <2>2 DEF OpenSteps
  <1>3. CASE ~AppendEntry(r)
    <2>1. investors' = investors /\ held' = held
      BY <1>3 DEF CommitStep, Acquire, BeginReplay, BeginFresh, AppendPlan,
         CheckTrades, AppendTrades, SkipLots, WriteLots, SkipEntry, Refuse,
         ShadowWrite, Release, Report, tabs
    <2>2. run'[r].step = "appendTrades" => tradeRows'[run'[r].key] = <<>>
      <3>1. SUFFICES ASSUME run'[r].step = "appendTrades"
                     PROVE  tradeRows'[run'[r].key] = <<>>
        OBVIOUS
      <3>2. CheckTrades(r)
        <4>1. ~(AppendPlan(r) \/ AppendTrades(r) \/ WriteLots(r))
          BY <1>1, <3>1, AdvanceRun, ExitRun
             DEF AppendPlan, AppendTrades, WriteLots, Continue
        <4>2. ~(SkipLots(r) \/ SkipEntry(r) \/ ShadowWrite(r))
          BY <1>1, <3>1, AdvanceRun DEF SkipLots, SkipEntry, ShadowWrite
        <4>3. ~(Refuse(r) \/ Acquire(r) \/ BeginReplay(r) \/ BeginFresh(r))
          BY <1>1, <3>1, ExitRun
             DEF Refuse, Acquire, BeginReplay, BeginFresh, OpenSteps
        <4>4. ~(Release(r) \/ Report(r))
          BY DEF Release, Report, OpenSteps
        <4> QED
          BY <1>3, <4>1, <4>2, <4>3, <4>4 DEF CommitStep
      <3>3. tradeRows' = tradeRows /\ tradeRows[run[r].key] = <<>>
        BY <1>1, <3>1, <3>2, AdvanceRun DEF CheckTrades, tabs
      <3> QED
        BY <3>3
    <2> QED
      BY <1>1, <2>1, <2>2 DEF Current
  <1> QED
    BY <1>2, <1>3

LEMMA CurrentStep ==
  ASSUME LockInv, NEW r \in Runs, CommitStep(r)
  PROVE  (FreshIsFirst /\ RowsCurrent /\ TradesChecked /\ UnitsSuffice)'
  <1>1. RunMoves(r)
    BY CommitMoves DEF LockInv, PlanInv
  <1>2. Current(r)'
    <2>1. CASE run'[r].step \notin OpenSteps
      BY <2>1 DEF Current, OpenSteps
    <2>2. CASE BeginReplay(r) \/ BeginFresh(r)
      BY <2>2, BeginsCurrent
    <2>3. CASE /\ run'[r].step \in OpenSteps
               /\ ~(BeginReplay(r) \/ BeginFresh(r))
      <3>1. /\ run[r].step \in OpenSteps
            /\ run'[r].step \in OpenSteps \ {"appendPlan"}
            /\ run'[r].key = run[r].key /\ run'[r].plan = run[r].plan
            /\ run'[r].rows = run[r].rows
            /\ run'[r].replayed = run[r].replayed
        BY <1>1, <2>3 DEF RunMoves, OpenSteps, PersistedSteps
      <3> QED
        BY <3>1, GoesOnCurrent
    <2> QED
      BY <2>1, <2>2, <2>3
  <1>3. \A q \in Runs : Current(q)'
    BY <1>2, OtherStaysCurrent
  <1> QED
    BY <1>3 DEF Current, FreshIsFirst, RowsCurrent, TradesChecked, UnitsSuffice

\* The first append of a plan under a key leaves copies of one plan.
LEMMA OnePlanStep ==
  ASSUME LockInv, NEW r \in Runs, CommitStep(r)
  PROVE  OnePlanPerKey'
  <1>1. TypeInv
    BY DEF LockInv, PlanInv
  <1>2. CASE AppendPlan(r)
    <2>1. PICK o : operations' = [operations EXCEPT ![run[r].key] =
                                    Appended(@, run[r].plan, o)]
      BY <1>2 DEF AppendPlan
    <2>2. run[r].key \in Keys /\ run[r].plan \in Plan
      BY <1>1, <1>2 DEF AppendPlan, TypeInv, RunsHold, PlanSteps
    <2>3. operations[run[r].key] = <<>>
      BY <1>2 DEF AppendPlan, LockInv, FreshIsFirst
    <2>4. operations'[run[r].key] =
             Appended(operations[run[r].key], run[r].plan, o)
      BY <1>1, <2>1, <2>2 DEF TypeInv, TypeOK
    <2>5. \A i \in DOMAIN operations'[run[r].key] :
             operations'[run[r].key][i] \in {run[r].plan}
      <3>1. PICK plans : plans = {run[r].plan}
        OBVIOUS
      <3>2. /\ operations[run[r].key] \in Seq(Plan) /\ run[r].plan \in plans
            /\ \A i \in DOMAIN operations[run[r].key] :
                  operations[run[r].key][i] \in plans
        BY <1>1, <2>2, <2>3, <3>1 DEF TypeInv, TypeOK
      <3>3. \A i \in DOMAIN operations'[run[r].key] :
               operations'[run[r].key][i] \in plans
        BY <2>2, <2>4, <3>2, AppendKeeps
      <3> QED
        BY <3>1, <3>3
    <2>6. \A k \in Keys \ {run[r].key} : operations'[k] = operations[k]
      BY <1>1, <2>1 DEF TypeInv, TypeOK
    <2> QED
      BY <2>5, <2>6 DEF LockInv, OnePlanPerKey, PlansOf
  <1>3. CASE ~AppendPlan(r)
    <2>1. operations' = operations
      BY <1>3 DEF CommitStep, Acquire, BeginReplay, BeginFresh, CheckTrades,
                  AppendTrades, SkipLots, WriteLots, SkipEntry, AppendEntry,
                  Refuse, ShadowWrite, Release, Report, tabs
    <2> QED
      BY <2>1 DEF LockInv, OnePlanPerKey, PlansOf
  <1> QED
    BY <1>2, <1>3

LEMMA LockInvNext ==
  ASSUME ~LockMayExpire, LockInv, [Next]_vars
  PROVE  LockInv'
  <1>1. PlanInv' /\ TypeInv
    BY PlanInvNext DEF LockInv, PlanInv
  <1>2. CASE \E r \in Runs : CommitStep(r)
    <2>1. PICK r \in Runs : CommitStep(r)
      BY <1>2
    <2>2. Mutex'
      BY <1>1, <2>1, MutexStep DEF LockInv
    <2> QED
      BY <1>1, <2>1, <2>2, CurrentStep, OnePlanStep DEF LockInv
  <1>3. CASE \E r \in Runs :
               \/ Crash(r)
               \/ \E k \in Keys : \E q \in RequestsOf[k] : Preview(r, k, q)
    <2>1. PICK r \in Runs :
            /\ run'[r].step \in {"idle", "previewed"}
            /\ \A q \in Runs \ {r} : run'[q] = run[q]
            /\ lock' = lock
            /\ UNCHANGED <<tabs, soldFor>>
      BY <1>1, <1>3, OutsideMoves
    <2>2. Mutex'
      BY <2>1 DEF LockInv, Mutex, InCommit
    <2>3. \A q \in Runs : Current(q)'
      <3>1. Current(r)'
        BY <2>1 DEF Current, OpenSteps
      <3>2. \A q \in Runs \ {r} : Current(q)'
        BY <2>1 DEF LockInv, Current, FreshIsFirst, RowsCurrent, TradesChecked,
                    UnitsSuffice, tabs
      <3> QED
        BY <3>1, <3>2
    <2>4. OnePlanPerKey'
      BY <2>1 DEF LockInv, OnePlanPerKey, PlansOf, tabs
    <2> QED
      BY <1>1, <2>2, <2>3, <2>4 DEF LockInv, Current, FreshIsFirst, RowsCurrent,
                                    TradesChecked, UnitsSuffice
  <1>4. CASE Environment \/ UNCHANGED vars
    <2>1. UNCHANGED <<operations, tradeRows, investors, run>>
      BY <1>4 DEF Environment, LockExpires, PublishNav, BookFill,
                  RecordContribution, tabs, history, vars
    <2>2. Mutex'
      <3>1. CASE LockExpires
        BY <3>1, <2>1, ConstantsAssumption
           DEF LockExpires, Orphaned, LockInv, Mutex, InCommit
      <3>2. CASE ~LockExpires
        <4>1. lock' = lock
          BY <1>4, <3>2 DEF Environment, PublishNav, BookFill,
                            RecordContribution, vars
        <4> QED
          BY <2>1, <4>1 DEF LockInv, Mutex, InCommit
      <3> QED
        BY <3>1, <3>2
    <2>3. UnitsSuffice'
      <3>1. \A i \in Investors : held[i] \in Int /\ held'[i] \in Int /\ held[i] <= held'[i]
        BY <1>1, <1>4 DEF PlanInv, TypeInv, TypeOK, Environment, LockExpires,
           PublishNav, BookFill, RecordContribution, tabs, vars
      <3>2. ASSUME NEW q \in Runs, run[q].step \in OpenSteps, ~run[q].replayed
            PROVE  run[q].plan.entry.units <= held'[run[q].plan.entry.investor]
        <4>1. run[q].plan \in Plan
          BY <1>1, <3>2 DEF TypeInv, RunsHold, OpenSteps, PlanSteps, PersistedSteps
        <4>2. /\ run[q].plan.entry.investor \in Investors
              /\ run[q].plan.entry.units \in Int
          BY <4>1 DEF Plan, Entry
        <4>3. run[q].plan.entry.units <= held[run[q].plan.entry.investor]
          BY <3>2 DEF LockInv, UnitsSuffice
        <4> QED
          BY <3>1, <4>2, <4>3
      <3> QED
        BY <2>1, <3>2 DEF UnitsSuffice
    <2> QED
      BY <1>1, <2>1, <2>2, <2>3 DEF LockInv, FreshIsFirst, OnePlanPerKey,
         PlansOf, RowsCurrent, TradesChecked
  <1> QED
    BY <1>2, <1>3, <1>4 DEF Next

LEMMA LockInvInit == Init => LockInv
  <1> SUFFICES ASSUME Init PROVE LockInv
    OBVIOUS
  <1>1. PlanInv
    <2>1. TypeInv
      BY InitType
    <2> QED
      BY <2>1 DEF Init, Idle, PlanInv, PlanInPlace, PersistedSteps,
                  PlanBeforeMoney
  <1> QED
    BY <1>1 DEF Init, Idle, LockInv, Mutex, InCommit, FreshIsFirst,
       OnePlanPerKey, PlansOf, RowsCurrent, TradesChecked, UnitsSuffice, OpenSteps

\* A key never has two plans, if the lock outlives its holder's commit.
THEOREM OnePlanPerKeyHolds ==
  ASSUME ~LockMayExpire
  PROVE  Spec => []OnePlanPerKey
  <1>1. LockInv /\ [Next]_vars => LockInv'
    BY LockInvNext
  <1>2. LockInv => OnePlanPerKey
    BY DEF LockInv
  <1> QED
    BY LockInvInit, <1>1, <1>2, PTL DEF Spec

-----------------------------------------------------------------------------
(* What the lock gives the money rows                                      *)

\* A step that changes a money row of a key found no such row under it.
LEMMA RowsOnce ==
  ASSUME LockInv, NEW r \in Runs, CommitStep(r), NEW k \in Keys
  PROVE  /\ tradeRows'[k] # tradeRows[k] =>
               /\ tradeRows[k] = <<>>
               /\ \E o \in Outcomes, t \in Trade : tradeRows'[k] = Appended(<<>>, t, o)
         /\ investors'[k] # investors[k] =>
               /\ investors[k] = <<>>
               /\ \E o \in Outcomes, e \in Entry : investors'[k] = Appended(<<>>, e, o)
  <1>1. TypeOK /\ RunsHold
    BY DEF LockInv, PlanInv, TypeInv
  <1>2. CASE AppendTrades(r)
    <2>1. PICK o \in Outcomes :
            tradeRows' = [tradeRows EXCEPT ![run[r].key] =
                            Appended(@, TradeOf(run[r].plan), o)]
      BY <1>2 DEF AppendTrades
    <2>2. run[r].key \in Keys /\ run[r].plan \in Plan
      BY <1>1, <1>2 DEF AppendTrades, RunsHold, PlanSteps, PersistedSteps
    <2>3. TradeOf(run[r].plan) \in Trade
      BY <2>2 DEF TradeOf, Trade, Plan, Request
    <2>4. tradeRows[run[r].key] = <<>>
      BY <1>2 DEF AppendTrades, LockInv, TradesChecked
    <2>5. tradeRows'[run[r].key] = Appended(<<>>, TradeOf(run[r].plan), o)
      BY <1>1, <2>1, <2>2, <2>4 DEF TypeOK
    <2>6. \A j \in Keys \ {run[r].key} : tradeRows'[j] = tradeRows[j]
      BY <1>1, <2>1 DEF TypeOK
    <2>7. investors' = investors
      BY <1>2 DEF AppendTrades
    <2> QED
      BY <2>3, <2>4, <2>5, <2>6, <2>7
  <1>3. CASE AppendEntry(r)
    <2>1. PICK o \in Outcomes :
            investors' = [investors EXCEPT ![run[r].key] =
                            Appended(@, run[r].plan.entry, o)]
      BY <1>3 DEF AppendEntry
    <2>2. run[r].key \in Keys /\ run[r].plan \in Plan
      BY <1>1, <1>3 DEF AppendEntry, RunsHold, PlanSteps, PersistedSteps
    <2>3. run[r].plan.entry \in Entry
      BY <2>2 DEF Plan
    <2>4. investors[run[r].key] = <<>>
      BY <1>3 DEF AppendEntry, LockInv, RowsCurrent, OpenSteps
    <2>5. investors'[run[r].key] = Appended(<<>>, run[r].plan.entry, o)
      BY <1>1, <2>1, <2>2, <2>4 DEF TypeOK
    <2>6. \A j \in Keys \ {run[r].key} : investors'[j] = investors[j]
      BY <1>1, <2>1 DEF TypeOK
    <2>7. tradeRows' = tradeRows
      BY <1>3 DEF AppendEntry
    <2> QED
      BY <2>3, <2>4, <2>5, <2>6, <2>7
  <1>4. CASE ~AppendTrades(r) /\ ~AppendEntry(r)
    <2>1. tradeRows' = tradeRows /\ investors' = investors
      BY <1>4 DEF CommitStep, Acquire, BeginReplay, BeginFresh, AppendPlan,
         CheckTrades, SkipLots, WriteLots, SkipEntry, Refuse, ShadowWrite,
         Release, Report, tabs
    <2> QED
      BY <2>1
  <1> QED
    BY <1>2, <1>3, <1>4

\* No step but a commit step writes the money rows.
LEMMA RowsOfCommits ==
  ASSUME TypeInv, [Next]_vars, ~\E r \in Runs : CommitStep(r)
  PROVE  UNCHANGED <<tradeRows, investors>>
  <1>1. CASE \E r \in Runs :
               \/ Crash(r)
               \/ \E k \in Keys : \E q \in RequestsOf[k] : Preview(r, k, q)
    BY <1>1, OutsideMoves DEF tabs
  <1>2. CASE Environment \/ UNCHANGED vars
    BY <1>2 DEF Environment, LockExpires, PublishNav, BookFill,
                RecordContribution, tabs, vars
  <1> QED
    BY <1>1, <1>2 DEF Next

\* A duplicated row freezes its key, if the lock outlives its holder's commit.
THEOREM DuplicatesFailClosedHolds ==
  ASSUME ~LockMayExpire
  PROVE  Spec => DuplicatesFailClosed
  <1> DEFINE Frozen ==
        \A k \in Keys :
           /\ Len(tradeRows[k]) > 1 => tradeRows'[k] = tradeRows[k]
           /\ Len(investors[k]) > 1 => investors'[k] = investors[k]
  <1>1. LockInv /\ [Next]_vars => LockInv'
    BY LockInvNext
  <1>2. LockInv /\ [Next]_vars => [Frozen]_vars
    <2> SUFFICES ASSUME LockInv, [Next]_vars PROVE Frozen
      OBVIOUS
    <2>1. CASE \E r \in Runs : CommitStep(r)
      <3>1. Len(<<>>) = 0
        OBVIOUS
      <3> QED
        BY <2>1, <3>1, RowsOnce
    <2>2. CASE ~\E r \in Runs : CommitStep(r)
      BY <2>2, RowsOfCommits DEF LockInv, PlanInv
    <2> QED
      BY <2>1, <2>2
  <1> QED
    BY LockInvInit, <1>1, <1>2, PTL DEF Spec, DuplicatesFailClosed

\* No retry books a key twice, if the lock outlives its holder's commit and
\* the transport does not duplicate an append by itself.
THEOREM BookedAtMostOnceHolds ==
  ASSUME ~LockMayExpire, ~TransportRetries
  PROVE  Spec => []BookedAtMostOnce
  <1>1. Init => LockInv /\ BookedAtMostOnce
    <2>1. Len(<<>>) = 0
      OBVIOUS
    <2> QED
      BY <2>1, LockInvInit DEF Init, BookedAtMostOnce
  <1>2. LockInv /\ BookedAtMostOnce /\ [Next]_vars =>
           LockInv' /\ BookedAtMostOnce'
    <2> SUFFICES ASSUME LockInv, BookedAtMostOnce, [Next]_vars
                 PROVE  LockInv' /\ BookedAtMostOnce'
      OBVIOUS
    <2>1. \A S, row, o : row \in S /\ o \in Outcomes => Len(Appended(<<>>, row, o)) <= 1
      <3>1. SUFFICES ASSUME NEW S, NEW row \in S, NEW o \in Outcomes
                     PROVE  Len(Appended(<<>>, row, o)) <= 1
        OBVIOUS
      <3>2. PICK empty \in Seq(S) : empty = <<>> /\ Len(empty) = 0
        <4>1. <<>> \in Seq(S) /\ Len(<<>>) = 0
          OBVIOUS
        <4> QED
          BY <4>1, Zenon
      <3>3. Len(Appended(empty, row, o)) = Len(empty) + Copies(o)
        BY AppendedRows
      <3>4. Copies(o) <= 1
        BY DEF Outcomes, Copies
      <3> QED
        BY <3>2, <3>3, <3>4, CopiesType
    <2>2. CASE \E r \in Runs : CommitStep(r)
      <3>1. PICK r \in Runs : CommitStep(r)
        BY <2>2
      <3>2. ASSUME NEW k \in Keys
            PROVE  Len(tradeRows'[k]) <= 1 /\ Len(investors'[k]) <= 1
        <4>1. Len(tradeRows[k]) <= 1 /\ Len(investors[k]) <= 1
          BY DEF BookedAtMostOnce
        <4>2. tradeRows'[k] = tradeRows[k] \/ Len(tradeRows'[k]) <= 1
          BY <2>1, <3>1, RowsOnce
        <4>3. investors'[k] = investors[k] \/ Len(investors'[k]) <= 1
          BY <2>1, <3>1, RowsOnce
        <4> QED
          BY <4>1, <4>2, <4>3
      <3> QED
        BY <3>2, LockInvNext DEF BookedAtMostOnce
    <2>3. CASE ~\E r \in Runs : CommitStep(r)
      BY <2>3, RowsOfCommits, LockInvNext DEF BookedAtMostOnce, LockInv, PlanInv
    <2> QED
      BY <2>2, <2>3
  <1> QED
    BY <1>1, <1>2, PTL DEF Spec

\* Only a replay overdraws, under the same two assumptions: a run with a plan
\* of its own still finds the units its ceiling was checked against.
THEOREM OnlyReplaysOverdrawHolds ==
  ASSUME ~LockMayExpire, ~TransportRetries
  PROVE  Spec => OnlyReplaysOverdraw
  <1> DEFINE ByReplay ==
        \A i \in Investors : held[i] >= 0 /\ held'[i] < 0 =>
          \E r \in Runs : run[r].replayed /\ run[r].plan.entry.investor = i
  <1>1. LockInv /\ [Next]_vars => LockInv'
    BY LockInvNext
  <1>2. LockInv /\ [Next]_vars => [ByReplay]_vars
    <2> SUFFICES ASSUME LockInv, [Next]_vars,
                        NEW i \in Investors, held[i] >= 0, held'[i] < 0
                 PROVE  \E r \in Runs :
                           run[r].replayed /\ run[r].plan.entry.investor = i
      OBVIOUS
    <2>1. TypeInv
      BY DEF LockInv, PlanInv
    <2>2. PICK r \in Runs : AppendEntry(r)
      <3>1. CASE \E r \in Runs : CommitStep(r) /\ ~AppendEntry(r)
        <4>1. held' = held
          BY <3>1 DEF CommitStep, Acquire, BeginReplay, BeginFresh, AppendPlan,
             CheckTrades, AppendTrades, SkipLots, WriteLots, SkipEntry, Refuse,
             ShadowWrite, Release, Report, tabs
        <4>2. held[i] \in Int
          BY <2>1 DEF TypeInv, TypeOK
        <4> QED
          BY <4>1, <4>2
      <3>2. CASE \E r \in Runs :
                   \/ Crash(r)
                   \/ \E k \in Keys : \E q \in RequestsOf[k] : Preview(r, k, q)
        <4>1. held' = held /\ held[i] \in Int
          BY <2>1, <3>2, OutsideMoves DEF tabs, TypeInv, TypeOK
        <4> QED
          BY <4>1
      <3>3. CASE Environment \/ UNCHANGED vars
        <4>1. held[i] \in Int /\ held'[i] \in {held[i], held[i] + 1}
          BY <2>1, <3>3 DEF Environment, LockExpires, PublishNav, BookFill,
             RecordContribution, tabs, vars, TypeInv, TypeOK
        <4> QED
          BY <4>1
      <3> QED
        BY <3>1, <3>2, <3>3 DEF Next
    <2>3. PICK o \in Outcomes :
            held' = [held EXCEPT ![run[r].plan.entry.investor] =
                       @ - Copies(o) * run[r].plan.entry.units]
      BY <2>2 DEF AppendEntry
    <2>4. run[r].plan \in Plan
      BY <2>1, <2>2 DEF AppendEntry, TypeInv, RunsHold, PlanSteps, PersistedSteps
    <2>5. /\ run[r].plan.entry.units \in Int
          /\ run[r].plan.entry.investor \in Investors
      BY <2>4 DEF Plan, Entry
    <2>6. run[r].plan.entry.investor = i
      BY <2>1, <2>3, <2>5 DEF TypeInv, TypeOK
    <2>7. held'[i] = held[i] - Copies(o) * run[r].plan.entry.units
      BY <2>1, <2>3, <2>6 DEF TypeInv, TypeOK
    <2>8. held[i] \in Int
      BY <2>1 DEF TypeInv, TypeOK
    <2>9. CASE ~run[r].replayed
      <3>1. run[r].plan.entry.units <= held[i]
        BY <2>2, <2>6, <2>9 DEF AppendEntry, LockInv, UnitsSuffice, OpenSteps
      <3>2. Copies(o) = 0 \/ Copies(o) = 1
        BY DEF Outcomes, Copies
      <3>3. held'[i] \in {held[i], held[i] - run[r].plan.entry.units}
        BY <2>5, <2>7, <2>8, <3>2
      <3> QED
        BY <2>5, <2>8, <3>1, <3>3
    <2> QED
      BY <2>6, <2>9
  <1> QED
    BY LockInvInit, <1>1, <1>2, PTL DEF Spec, OnlyReplaysOverdraw

-----------------------------------------------------------------------------
(***************************************************************************)
(* The lots.  A commit decides and writes on the lots it read when it      *)
(* began; while the lock keeps every other writer out those are the lots   *)
(* there are, and the absolute write is the planned sale exactly.          *)
(***************************************************************************)

\* The plans whose allocation adds up to the shares they sell.
Sells == {p \in Plan : SumLots(p.alloc) = p.req.sell}

PlansSell ==
    /\ \A k \in Keys : \A i \in DOMAIN operations[k] : operations[k][i] \in Sells
    /\ \A r \in Runs : run[r].step \in PlanSteps => run[r].plan \in Sells

\* A run at these steps has read the lots and not yet written them.
LotSteps == {"appendPlan", "trades", "appendTrades", "lots"}

LotsCurrent ==
    \A r \in Runs : run[r].step \in LotSteps => run[r].lots = lotOpen

ShareInv == LockInv /\ PlansSell /\ LotsCurrent /\ LotsConserved

LEMMA AdvanceLots ==
  ASSUME TypeInv, NEW r \in Runs, NEW step, Advance(r, step)
  PROVE  run'[r].lots = run[r].lots
  BY DEF Advance, TypeInv, TypeOK, RunState

LEMMA SnapshotLots ==
  ASSUME TypeInv, NEW r \in Runs, NEW p, NEW step, NEW b, Snapshot(r, p, step, b)
  PROVE  run'[r].lots = lotOpen
  <1> DEFINE new == [Idle EXCEPT !.step = step, !.key = run[r].key, !.plan = p,
                                 !.replayed = b, !.rows = investors[run[r].key],
                                 !.lots = lotOpen,
                                 !.units = held[p.entry.investor]]
  <1>1. run' = [run EXCEPT ![r] = new]
    BY DEF Snapshot
  <1>2. new.lots = lotOpen
    BY DEF Idle
  <1> HIDE DEF new
  <1> QED
    BY <1>1, <1>2 DEF TypeInv, TypeOK

\* A run that is still to write the lots has just read them, or keeps what it
\* read; its step leaves the tab alone.
LEMMA LotMoves ==
  ASSUME TypeInv, NEW r \in Runs, CommitStep(r), run'[r].step \in LotSteps
  PROVE  /\ lotOpen' = lotOpen
         /\ \/ run'[r].lots = lotOpen
            \/ run[r].step \in LotSteps /\ run'[r].lots = run[r].lots
  <1> USE DEF LotSteps
  <1>1. CASE BeginReplay(r)
    BY <1>1, SnapshotLots DEF BeginReplay, tabs
  <1>2. CASE BeginFresh(r)
    BY <1>2, SnapshotLots DEF BeginFresh, tabs
  <1>3. CASE AppendPlan(r)
    BY <1>3, AdvanceLots, ExitRun DEF AppendPlan, Continue
  <1>4. CASE CheckTrades(r)
    BY <1>4, AdvanceLots DEF CheckTrades, tabs
  <1>5. CASE AppendTrades(r)
    BY <1>5, AdvanceLots, ExitRun DEF AppendTrades, Continue
  <1>6. CASE Acquire(r)
    <2>1. run'[r].step \in {"idle", "locked"}
      BY <1>6 DEF Acquire, Idle, TypeInv, TypeOK, RunState
    <2> QED
      BY <2>1
  <1>7. CASE SkipLots(r) \/ WriteLots(r) \/ SkipEntry(r) \/ ShadowWrite(r)
    BY <1>7, AdvanceRun, ExitRun DEF SkipLots, WriteLots, SkipEntry, ShadowWrite, Continue
  <1>8. CASE AppendEntry(r)
    <2>1. PICK o \in Outcomes :
            IF Raises(o) THEN Exit(r)
            ELSE /\ run' = [run EXCEPT ![r].step = "shadow",
                      ![r].warn = run[r].replayed
                           /\ run[r].units < run[r].plan.entry.units]
                 /\ UNCHANGED lock
      BY <1>8 DEF AppendEntry
    <2>2. CASE ~Raises(o)
      <3>1. PICK w : run' = [run EXCEPT ![r].step = "shadow", ![r].warn = w]
        BY <2>1, <2>2
      <3> QED
        BY <3>1 DEF TypeInv, TypeOK, RunState
    <2> QED
      BY <2>1, <2>2, ExitRun
  <1>9. CASE Refuse(r)
    BY <1>9, ExitRun DEF Refuse
  <1>10. CASE Release(r) \/ Report(r)
    BY <1>10 DEF Release, Report, Idle, TypeInv, TypeOK, RunState
  <1> QED
    BY <1>1, <1>2, <1>3, <1>4, <1>5, <1>6, <1>7, <1>8, <1>9, <1>10 DEF CommitStep

LEMMA LotsCurrentStep ==
  ASSUME ShareInv, NEW r \in Runs, CommitStep(r)
  PROVE  LotsCurrent'
  <1>1. TypeInv /\ Mutex
    BY DEF ShareInv, LockInv, PlanInv
  <1>2. run'[r].step \in LotSteps => run'[r].lots = lotOpen'
    BY <1>1, LotMoves DEF ShareInv, LotsCurrent
  <1>3. ASSUME NEW q \in Runs \ {r}, run'[q].step \in LotSteps
        PROVE  run'[q].lots = lotOpen'
    <2>1. run'[q] = run[q]
      BY <1>1, CommitMoves
    <2>2. InCommit(q)
      BY <1>3, <2>1 DEF InCommit, LotSteps
    <2>3. lotOpen' = lotOpen
      BY <1>1, <2>2, OthersWait DEF tabs
    <2> QED
      BY <1>3, <2>1, <2>3 DEF ShareInv, LotsCurrent
  <1> QED
    BY <1>2, <1>3 DEF LotsCurrent

LEMMA PlansSellStep ==
  ASSUME ShareInv, NEW r \in Runs, CommitStep(r)
  PROVE  PlansSell'
  <1>1. TypeInv /\ TypeOK /\ RunsHold /\ PlansSell
    BY DEF ShareInv, LockInv, PlanInv, TypeInv
  <1>2. RunMoves(r) /\ \A q \in Runs \ {r} : run'[q] = run[q]
    BY <1>1, CommitMoves
  <1>3. ASSUME NEW k \in Keys
        PROVE  \A i \in DOMAIN operations'[k] : operations'[k][i] \in Sells
    <2>1. CASE AppendPlan(r) /\ run[r].key = k
      <3>1. PICK o \in Outcomes :
              operations' = [operations EXCEPT ![run[r].key] =
                               Appended(@, run[r].plan, o)]
        BY <2>1 DEF AppendPlan
      <3>2. operations'[k] = Appended(operations[k], run[r].plan, o)
        BY <1>1, <2>1, <3>1 DEF TypeOK
      <3>3. run[r].plan \in Sells /\ run[r].plan \in Plan
        BY <1>1, <2>1 DEF AppendPlan, PlansSell, PlanSteps, Sells
      <3>4. operations[k] \in Seq(Plan) /\ \A i \in DOMAIN operations[k] : operations[k][i] \in Sells
        BY <1>1 DEF TypeOK, PlansSell
      <3> QED
        BY <3>2, <3>3, <3>4, AppendKeeps
    <2>2. CASE ~(AppendPlan(r) /\ run[r].key = k)
      <3>1. operations'[k] = operations[k]
        BY <1>1, <2>2 DEF TypeOK, CommitStep, Acquire, BeginReplay, BeginFresh,
             AppendPlan, CheckTrades, AppendTrades, SkipLots, WriteLots,
             SkipEntry, AppendEntry, Refuse, ShadowWrite, Release, Report, tabs
      <3> QED
        BY <1>1, <3>1 DEF PlansSell
    <2> QED
      BY <2>1, <2>2
  <1>4. ASSUME run'[r].step \in PlanSteps
        PROVE  run'[r].plan \in Sells
    <2>1. CASE BeginReplay(r)
      <3> DEFINE p == operations[run[r].key][1]
      <3>1. run[r].key \in Keys /\ operations[run[r].key] \in Seq(Plan)
        BY <1>1, <2>1 DEF BeginReplay, TypeOK, RunsHold
      <3>2. 1 \in DOMAIN operations[run[r].key]
        BY <2>1, <3>1 DEF BeginReplay, CanReplay
      <3>3. p \in Sells
        BY <1>1, <3>1, <3>2 DEF PlansSell
      <3>4. Snapshot(r, p, "trades", TRUE)
        BY <2>1 DEF BeginReplay
      <3> HIDE DEF p
      <3> QED
        BY <1>1, <3>3, <3>4, SnapshotRun
    <2>2. CASE BeginFresh(r)
      <3>1. PICK t \in Allocations :
              /\ CanPlan(r, t)
              /\ Snapshot(r, BuildPlan(run[r].req, nav, lotOpen, t), "appendPlan", FALSE)
        BY <2>2 DEF BeginFresh
      <3>2. run[r].req \in Request /\ nav \in Nat \ {0} /\ lotOpen \in Allocations
        BY <1>1, <2>2, ConstantsAssumption DEF BeginFresh, TypeOK, RunsHold
      <3>3. IsFifo(t, lotOpen, run[r].req.sell)
        BY <3>1 DEF CanPlan
      <3>4. BuildPlan(run[r].req, nav, lotOpen, t) \in Plan
        BY <3>2, <3>3, PlanType
      <3>5. BuildPlan(run[r].req, nav, lotOpen, t) \in Sells
        BY <3>3, <3>4 DEF Sells, BuildPlan, IsFifo
      <3> QED
        BY <1>1, <3>1, <3>5, SnapshotRun
    <2>3. CASE run[r].step \in PlanSteps /\ run'[r].plan = run[r].plan
      BY <1>1, <2>3 DEF PlansSell
    <2> QED
      BY <1>2, <1>4, <2>1, <2>2, <2>3 DEF RunMoves, PlanSteps, PersistedSteps
  <1> QED
    BY <1>1, <1>2, <1>3, <1>4 DEF PlansSell

\* What the lot write of a current plan leaves: the planned shares less, lot by
\* lot, so as many less in all as the plan sells.
LEMMA WriteSells ==
  ASSUME NEW p \in Sells, NEW open \in Allocations, LotsBefore(p, open), NEW left,
         left = [i \in LotIds |-> IF i \in Touched(p) THEN FinalOpen(p, i) ELSE open[i]]
  PROVE  SumLots(open) = SumLots(left) + p.req.sell
  <1>1. IsFiniteSet(LotIds)
    BY FS_Interval, ConstantsAssumption DEF LotIds
  <1>2. p \in Plan /\ p.before \in Allocations /\ p.alloc \in Allocations
    BY DEF Sells, Plan
  <1>3. ASSUME NEW i \in LotIds
        PROVE  left[i] \in Nat /\ p.alloc[i] \in Nat /\ open[i] = left[i] + p.alloc[i]
    <2>1. /\ open[i] \in 0 .. MaxShares /\ p.alloc[i] \in 0 .. MaxShares
          /\ p.before[i] \in 0 .. MaxShares
      BY <1>2 DEF Allocations
    <2>2. FinalOpen(p, i) \in 0 .. MaxShares
      BY <1>2, FinalOpenType
    <2>3. CASE i \in Touched(p)
      <3>1. left[i] = FinalOpen(p, i) /\ open[i] = p.before[i]
        BY <2>3 DEF LotsBefore
      <3> QED
        BY <2>1, <2>2, <3>1, ConstantsAssumption DEF FinalOpen
    <2>4. CASE i \notin Touched(p)
      <3>1. left[i] = open[i] /\ ~(p.alloc[i] > 0)
        BY <2>4 DEF Touched
      <3> QED
        BY <2>1, <3>1, ConstantsAssumption
    <2> QED
      BY <2>3, <2>4
  <1>4. Total(open, LotIds) = Total(left, LotIds) + Total(p.alloc, LotIds)
    BY <1>1, <1>3, TotalAdds
  <1> QED
    BY <1>4 DEF Sells, SumLots

\* A step of a commit conserves the shares: only its lot write moves any.
LEMMA ConservedStep ==
  ASSUME ShareInv, NEW r \in Runs, CommitStep(r)
  PROVE  LotsConserved'
  <1>1. TypeInv /\ TypeOK /\ RunsHold /\ PlansSell /\ LotsCurrent /\ LotsConserved
    BY DEF ShareInv, LockInv, PlanInv, TypeInv
  <1>2. CASE WriteLots(r)
    <2>1. /\ run[r].step = "lots" /\ LotsBefore(run[r].plan, run[r].lots)
          /\ fills' = fills
      BY <1>2 DEF WriteLots
    <2>2. PICK o \in {"ok", "failed", "lost"} :
            IF o = "failed" THEN UNCHANGED <<lotOpen, soldFor>>
            ELSE /\ lotOpen' = [i \in LotIds |->
                      IF i \in Touched(run[r].plan)
                      THEN FinalOpen(run[r].plan, i) ELSE lotOpen[i]]
                 /\ soldFor' = [soldFor EXCEPT ![run[r].key] = @ + run[r].plan.req.sell]
      BY <1>2 DEF WriteLots
    <2>3. CASE o = "failed"
      BY <1>1, <2>1, <2>2, <2>3 DEF LotsConserved
    <2>4. CASE o # "failed"
      <3>1. run[r].lots = lotOpen /\ lotOpen \in Allocations
        BY <1>1, <2>1 DEF LotsCurrent, LotSteps, TypeOK
      <3>2. run[r].plan \in Sells /\ run[r].key \in Keys
        BY <1>1, <2>1 DEF PlansSell, PlanSteps, PersistedSteps, RunsHold
      <3>3. SumLots(lotOpen) = SumLots(lotOpen') + run[r].plan.req.sell
        BY <2>1, <2>2, <2>4, <3>1, <3>2, WriteSells
      <3>4. PICK n \in Nat : n = run[r].plan.req.sell
        BY <3>2 DEF Sells, Plan, Request
      <3>5. soldFor \in [Keys -> Nat] /\ soldFor[run[r].key] \in Nat
        BY <1>1, <3>2 DEF TypeOK
      <3>6. soldFor' = [soldFor EXCEPT ![run[r].key] = @ + n]
        BY <2>2, <2>4, <3>4
      <3>7. /\ soldFor'[run[r].key] = soldFor[run[r].key] + n
            /\ \A k \in Keys \ {run[r].key} : soldFor'[k] = soldFor[k]
            /\ \A k \in Keys : soldFor[k] \in Nat /\ soldFor'[k] \in Nat
        BY <3>2, <3>5, <3>6
      <3>8. IsFiniteSet(Keys)
        BY ConstantsAssumption
      <3>9. Total(soldFor', Keys) + soldFor[run[r].key] =
               Total(soldFor, Keys) + soldFor'[run[r].key]
        BY <3>2, <3>7, <3>8, TotalChanges
      <3>10. Total(soldFor, Keys) \in Nat /\ Total(soldFor', Keys) \in Nat
        BY <3>7, <3>8, TotalType
      <3>11. Total(soldFor', Keys) = Total(soldFor, Keys) + n
        BY <3>5, <3>7, <3>9, <3>10
      <3>12. SumLots(lotOpen') \in Nat /\ SumLots(lotOpen) \in Nat
        <4>1. TypeInv'
          BY <1>1, CommitStepType
        <4>2. \A i \in LotIds : lotOpen[i] \in Nat /\ lotOpen'[i] \in Nat
          BY <1>1, <4>1 DEF TypeInv, TypeOK, Allocations
        <4>3. IsFiniteSet(LotIds)
          BY FS_Interval, ConstantsAssumption DEF LotIds
        <4> QED
          BY <4>2, <4>3, TotalType DEF SumLots
      <3>13. fills \in Nat
        BY <1>1 DEF TypeOK
      <3>14. SumLots(lotOpen) + Total(soldFor, Keys) + fills = SumLots(InitialOpen)
        BY <1>1 DEF LotsConserved
      <3>15. SumLots(lotOpen') + Total(soldFor', Keys) + fills' = SumLots(InitialOpen)
        BY <2>1, <3>3, <3>4, <3>10, <3>11, <3>12, <3>13, <3>14
      <3> QED
        BY <3>15 DEF LotsConserved, SumLots, Total, Units
    <2> QED
      BY <2>3, <2>4
  <1>3. CASE ~WriteLots(r)
    <2>1. UNCHANGED <<lotOpen, soldFor, fills>>
      BY <1>3 DEF CommitStep, Acquire, BeginReplay, BeginFresh, AppendPlan,
         CheckTrades, AppendTrades, SkipLots, SkipEntry, AppendEntry, Refuse,
         ShadowWrite, Release, Report, tabs, env, history
    <2> QED
      BY <1>1, <2>1 DEF LotsConserved
  <1> QED
    BY <1>2, <1>3

\* A fill takes its one share out of the lots while no commit is under way.
LEMMA FillStep ==
  ASSUME ShareInv, BookFill, ~FillsDuringCommit
  PROVE  LotsConserved' /\ LotsCurrent'
  <1>1. TypeOK /\ Mutex /\ LotsConserved
    BY DEF ShareInv, LockInv, PlanInv, TypeInv
  <1>2. /\ lock = NoRun /\ run' = run /\ soldFor' = soldFor /\ fills' = fills + 1
    BY DEF BookFill, history
  <1>3. \A r \in Runs : ~InCommit(r)
    BY <1>1, <1>2, ConstantsAssumption DEF Mutex
  <1>4. LotsCurrent'
    BY <1>2, <1>3 DEF LotsCurrent, InCommit, LotSteps
  <1>5. PICK t \in Allocations :
          IsFifo(t, lotOpen, 1) /\ lotOpen' = [i \in LotIds |-> lotOpen[i] - t[i]]
    BY DEF BookFill
  <1>6. IsFiniteSet(LotIds)
    BY FS_Interval, ConstantsAssumption DEF LotIds
  <1>7. ASSUME NEW i \in LotIds
        PROVE  lotOpen'[i] \in Nat /\ t[i] \in Nat /\ lotOpen[i] = lotOpen'[i] + t[i]
    <2>1. lotOpen[i] \in 0 .. MaxShares /\ t[i] \in 0 .. MaxShares
      BY <1>1 DEF TypeOK, Allocations
    <2>2. t[i] <= lotOpen[i] /\ lotOpen'[i] = lotOpen[i] - t[i]
      BY <1>5 DEF IsFifo
    <2> QED
      BY <2>1, <2>2, ConstantsAssumption
  <1>8. Total(lotOpen, LotIds) = Total(lotOpen', LotIds) + Total(t, LotIds)
    BY <1>6, <1>7, TotalAdds
  <1>9. Total(t, LotIds) = 1
    BY <1>5 DEF IsFifo, SumLots
  <1>10. Total(lotOpen', LotIds) \in Nat
    BY <1>6, <1>7, TotalType
  <1>11. Total(soldFor, Keys) \in Nat /\ fills \in Nat
    BY <1>1, TotalType, ConstantsAssumption DEF TypeOK
  <1>12. Total(lotOpen, LotIds) + Total(soldFor, Keys) + fills = Total(InitialOpen, LotIds)
    BY <1>1 DEF LotsConserved, SumLots
  <1>13. Total(lotOpen', LotIds) + Total(soldFor, Keys) + (fills + 1) = Total(InitialOpen, LotIds)
    BY <1>8, <1>9, <1>10, <1>11, <1>12
  <1> QED
    BY <1>2, <1>4, <1>13 DEF LotsConserved, SumLots, Total, Units

LEMMA ShareInvNext ==
  ASSUME ~LockMayExpire, ~FillsDuringCommit
  PROVE  ShareInv /\ [Next]_vars => ShareInv'
  <1> SUFFICES ASSUME ShareInv, [Next]_vars PROVE ShareInv'
    OBVIOUS
  <1>1. TypeInv /\ LockInv'
    BY LockInvNext DEF ShareInv, LockInv, PlanInv
  <1>2. CASE \E r \in Runs : CommitStep(r)
    BY <1>1, <1>2, LotsCurrentStep, PlansSellStep, ConservedStep DEF ShareInv
  <1>3. CASE \E r \in Runs :
               \/ Crash(r)
               \/ \E k \in Keys : \E q \in RequestsOf[k] : Preview(r, k, q)
    <2>1. PICK r \in Runs :
            \/ Crash(r)
            \/ \E k \in Keys : \E q \in RequestsOf[k] : Preview(r, k, q)
      BY <1>3
    <2>2. /\ run'[r].step \in {"idle", "previewed"}
          /\ \A q \in Runs \ {r} : run'[q] = run[q]
          /\ UNCHANGED <<operations, lotOpen, soldFor>>
      BY <1>1, <2>1, OutsideMoves DEF tabs
    <2>3. fills' = fills
      BY <2>1 DEF Crash, Preview, env
    <2>4. PlansSell'
      BY <2>2 DEF ShareInv, PlansSell, PlanSteps, PersistedSteps
    <2>5. LotsCurrent'
      BY <2>2 DEF ShareInv, LotsCurrent, LotSteps
    <2>6. LotsConserved'
      BY <2>2, <2>3 DEF ShareInv, LotsConserved
    <2> QED
      BY <1>1, <2>4, <2>5, <2>6 DEF ShareInv
  <1>4. CASE Environment \/ UNCHANGED vars
    <2>1. UNCHANGED <<operations, run>>
      BY <1>4 DEF Environment, LockExpires, PublishNav, BookFill,
                  RecordContribution, tabs, vars
    <2>2. PlansSell'
      BY <2>1 DEF ShareInv, PlansSell
    <2>3. CASE BookFill
      BY <1>1, <2>2, <2>3, FillStep DEF ShareInv
    <2>4. CASE ~BookFill
      <3>1. UNCHANGED <<lotOpen, soldFor, fills>>
        BY <1>4, <2>4 DEF Environment, LockExpires, PublishNav, RecordContribution,
                          tabs, env, history, vars
      <3> QED
        BY <1>1, <2>1, <2>2, <3>1 DEF ShareInv, LotsCurrent, LotsConserved
    <2> QED
      BY <2>3, <2>4
  <1> QED
    BY <1>2, <1>3, <1>4 DEF Next

\* At the start nothing was sold and no run has read a lot.
LEMMA ShareInvInit == Init => ShareInv
  <1> SUFFICES ASSUME Init PROVE ShareInv
    OBVIOUS
  <1>1. PlansSell /\ LotsCurrent
    BY DEF Init, Idle, PlansSell, LotsCurrent, PlanSteps, PersistedSteps, LotSteps
  <1>2. LotsConserved
    <2>1. \A k \in Keys : soldFor[k] = 0
      BY DEF Init
    <2>2. Units(soldFor, Keys) = {}
      BY <2>1 DEF Units
    <2>3. Total(soldFor, Keys) = 0
      BY <2>2, FS_EmptySet DEF Total
    <2>4. SumLots(InitialOpen) \in Nat
      <3>1. IsFiniteSet(LotIds)
        BY FS_Interval, ConstantsAssumption DEF LotIds
      <3>2. \A i \in LotIds : InitialOpen[i] \in Nat
        BY ConstantsAssumption DEF Allocations
      <3> QED
        BY <3>1, <3>2, TotalType DEF SumLots
    <2>5. lotOpen = InitialOpen /\ fills = 0
      BY DEF Init
    <2> QED
      BY <2>3, <2>4, <2>5 DEF LotsConserved
  <1> QED
    BY <1>1, <1>2, LockInvInit DEF ShareInv

\* The Lots tab conserves shares: whatever fails or is retried, and however
\* many keys, lots and fills, what is open is what there was less each sale
\* once, if the lock outlives its holder's commit and no fill is booked in it.
THEOREM LotsConservedHolds ==
  ASSUME ~LockMayExpire, ~FillsDuringCommit
  PROVE  Spec => []LotsConserved
  <1>1. Init => ShareInv
    BY ShareInvInit
  <1>2. ShareInv /\ [Next]_vars => ShareInv'
    BY ShareInvNext
  <1>3. ShareInv => LotsConserved
    BY DEF ShareInv
  <1> QED
    BY <1>1, <1>2, <1>3, PTL DEF Spec

-----------------------------------------------------------------------------
(***************************************************************************)
(* The refinement of WithdrawalPromise.  The runner tells from the lots    *)
(* alone whether its sale has been taken out of them, so this needs that   *)
(* nobody else can bring the lots to where the sale would leave them: one  *)
(* key sells, and more shares than the fills booked meanwhile.             *)
(***************************************************************************)

\* Only s sells shares, each time more than the booked fills take together.
SoleSeller(s) ==
    \A k \in Keys : \A q \in RequestsOf[k] : q.sell > 0 => k = s /\ q.sell > MaxFills

Sizes(k) == {q.sell : q \in RequestsOf[k]}

\* What is to be sold under a key was asked for under it.
Asked ==
    /\ \A r \in Runs : run[r].step \in {"previewed", "locked"} =>
          run[r].req.sell \in Sizes(run[r].key)
    /\ \A r \in Runs : run[r].step = "appendPlan" =>
          run[r].plan.req.sell \in Sizes(run[r].key)
    /\ \A k \in Keys : \A p \in PlansOf(k) : p.req.sell \in Sizes(k)

\* Shares only leave the lots, from the start to a plan and from it to now.
LotsShrink ==
    /\ \A i \in LotIds : lotOpen[i] <= InitialOpen[i]
    /\ \A k \in Keys : \A p \in PlansOf(k) : \A i \in LotIds :
          lotOpen[i] <= p.before[i] /\ p.before[i] <= InitialOpen[i]
    /\ \A r \in Runs : run[r].step = "appendPlan" => run[r].plan.before = run[r].lots

\* The lot writes of a key have taken nothing, or its plan's sale once.
SoldOnce == \A k \in Keys : \A p \in PlansOf(k) : soldFor[k] \in {0, p.req.sell}

\* Lots a key has sold out of do not come back to where its plan found them.
SoldStays ==
    \A k \in Keys : soldFor[k] > 0 =>
        \A p \in PlansOf(k) : \A i \in Touched(p) : lotOpen[i] <= FinalOpen(p, i)

\* A run is past a stage only when the tabs show the stage done.
StagesInOrder ==
    \A r \in Runs :
        /\ run[r].step = "appendTrades" => run[r].plan.req.sell > 0
        /\ run[r].step = "lots" /\ run[r].plan.req.sell > 0 =>
              tradeRows[run[r].key] # <<>>
        /\ run[r].step = "entry" => soldFor[run[r].key] = run[r].plan.req.sell

OrderInv ==
    ShareInv /\ Asked /\ LotsShrink /\ SoldOnce /\ SoldStays /\ StagesInOrder

\* The plan rows of a key stay, or the first plan is appended under it.
LEMMA PlanRows ==
  ASSUME LockInv, NEW r \in Runs, CommitStep(r), NEW k \in Keys
  PROVE  \/ operations'[k] = operations[k]
         \/ /\ AppendPlan(r) /\ k = run[r].key /\ operations[k] = <<>>
            /\ run[r].plan \in Plan /\ operations'[k] \in Seq(Plan)
            /\ \A i \in DOMAIN operations'[k] : operations'[k][i] = run[r].plan
  <1>1. TypeOK /\ RunsHold
    BY DEF LockInv, PlanInv, TypeInv
  <1>2. CASE AppendPlan(r) /\ run[r].key = k
    <2>1. PICK o \in Outcomes :
            operations' = [operations EXCEPT ![run[r].key] = Appended(@, run[r].plan, o)]
      BY <1>2 DEF AppendPlan
    <2>2. operations'[k] = Appended(operations[k], run[r].plan, o)
      BY <1>1, <1>2, <2>1 DEF TypeOK
    <2>3. operations[k] = <<>>
      BY <1>2 DEF AppendPlan, LockInv, FreshIsFirst
    <2>4. run[r].plan \in Plan /\ operations[k] \in Seq(Plan)
      BY <1>1, <1>2 DEF AppendPlan, RunsHold, PlanSteps, TypeOK
    <2>5. Len(operations[k]) = 0 /\ Copies(o) \in 0 .. 2
      BY <2>3, CopiesType
    <2>6. /\ operations'[k] \in Seq(Plan)
          /\ DOMAIN operations'[k] = 1 .. (Len(operations[k]) + Copies(o))
          /\ \A i \in 1 .. (Len(operations[k]) + Copies(o)) :
                i > Len(operations[k]) => operations'[k][i] = run[r].plan
      BY <2>2, <2>4, AppendedRows
    <2> QED
      BY <1>2, <2>3, <2>4, <2>5, <2>6
  <1>3. CASE ~(AppendPlan(r) /\ run[r].key = k)
    BY <1>1, <1>3 DEF TypeOK, CommitStep, Acquire, BeginReplay, BeginFresh,
       AppendPlan, CheckTrades, AppendTrades, SkipLots, WriteLots, SkipEntry,
       AppendEntry, Refuse, ShadowWrite, Release, Report, tabs
  <1> QED
    BY <1>2, <1>3

\* What a lot write does: nothing, or it takes its plan's sale out of the lots
\* it read, which are the lots there are.
LEMMA LotWrites ==
  ASSUME ShareInv, NEW r \in Runs, CommitStep(r)
  PROVE  \/ UNCHANGED <<lotOpen, soldFor>>
         \/ /\ WriteLots(r) /\ run[r].key \in Keys /\ run[r].plan \in Sells
            /\ run[r].lots = lotOpen
            /\ run[r].plan \in PlansOf(run[r].key)
            /\ \A i \in LotIds :
                  lotOpen'[i] = IF i \in Touched(run[r].plan)
                                THEN FinalOpen(run[r].plan, i) ELSE lotOpen[i]
            /\ soldFor' = [soldFor EXCEPT ![run[r].key] = @ + run[r].plan.req.sell]
  <1>1. TypeOK /\ RunsHold /\ PlanInPlace /\ PlansSell /\ LotsCurrent
    BY DEF ShareInv, LockInv, PlanInv, TypeInv
  <1>2. CASE WriteLots(r)
    <2>1. PICK o \in {"ok", "failed", "lost"} :
            IF o = "failed" THEN UNCHANGED <<lotOpen, soldFor>>
            ELSE /\ lotOpen' = [i \in LotIds |->
                      IF i \in Touched(run[r].plan)
                      THEN FinalOpen(run[r].plan, i) ELSE lotOpen[i]]
                 /\ soldFor' = [soldFor EXCEPT ![run[r].key] = @ + run[r].plan.req.sell]
      BY <1>2 DEF WriteLots
    <2>2. run[r].step = "lots"
      BY <1>2 DEF WriteLots
    <2>3. /\ run[r].key \in Keys /\ run[r].plan \in Sells /\ run[r].lots = lotOpen
          /\ run[r].plan \in PlansOf(run[r].key)
      BY <1>1, <2>2 DEF RunsHold, PlansSell, PlanSteps, PersistedSteps,
         LotsCurrent, LotSteps, PlanInPlace
    <2> QED
      BY <1>2, <2>1, <2>3
  <1>3. CASE ~WriteLots(r)
    BY <1>3 DEF CommitStep, Acquire, BeginReplay, BeginFresh, AppendPlan,
       CheckTrades, AppendTrades, SkipLots, SkipEntry, AppendEntry, Refuse,
       ShadowWrite, Release, Report, tabs, history
  <1> QED
    BY <1>2, <1>3

\* A key that sold finds its lots below its plan's before-state: it writes once.
LEMMA WritesOnce ==
  ASSUME OrderInv, NEW r \in Runs, WriteLots(r)
  PROVE  /\ run[r].key \in Keys /\ run[r].plan \in Sells
         /\ soldFor[run[r].key] = 0 /\ run[r].plan.req.sell \in Nat
         /\ tradeRows[run[r].key] # <<>> /\ run[r].plan.req.sell > 0
         /\ run[r].plan \in PlansOf(run[r].key)
         /\ \A i \in Touched(run[r].plan) : lotOpen[i] = run[r].plan.before[i]
  <1>1. TypeOK /\ RunsHold /\ PlanInPlace /\ PlansSell /\ LotsCurrent
    BY DEF OrderInv, ShareInv, LockInv, PlanInv, TypeInv
  <1>2. /\ run[r].step = "lots" /\ LotsBefore(run[r].plan, run[r].lots)
        /\ ~LotsDone(r)
    BY DEF WriteLots
  <1>3. /\ run[r].key \in Keys /\ run[r].plan \in Sells /\ run[r].lots = lotOpen
        /\ run[r].plan \in PlansOf(run[r].key)
    BY <1>1, <1>2 DEF RunsHold, PlansSell, PlanSteps, PersistedSteps,
       LotsCurrent, LotSteps, PlanInPlace
  <1>4. PICK i \in Touched(run[r].plan) : lotOpen[i] # FinalOpen(run[r].plan, i)
    BY <1>2, <1>3 DEF LotsDone, LotsAfter
  <1>5. \A j \in Touched(run[r].plan) : lotOpen[j] = run[r].plan.before[j]
    BY <1>2, <1>3 DEF LotsBefore
  <1>6. /\ run[r].plan.req.sell \in Nat /\ i \in LotIds
        /\ run[r].plan.alloc \in Allocations /\ run[r].plan.before \in Allocations
        /\ SumLots(run[r].plan.alloc) = run[r].plan.req.sell
    BY <1>3, <1>4 DEF Sells, Plan, Request, Touched
  <1>7. /\ run[r].plan.alloc[i] \in 0 .. MaxShares
        /\ run[r].plan.before[i] \in 0 .. MaxShares
    BY <1>6 DEF Allocations
  <1>8. run[r].plan.alloc[i] > 0 /\ ~(lotOpen[i] <= FinalOpen(run[r].plan, i))
    BY <1>4, <1>5, <1>7, ConstantsAssumption DEF Touched, FinalOpen
  <1>9. soldFor[run[r].key] \in Nat
    BY <1>1, <1>3 DEF TypeOK
  <1>10. soldFor[run[r].key] = 0
    BY <1>3, <1>4, <1>8, <1>9 DEF OrderInv, SoldStays
  <1>11. run[r].plan.req.sell > 0
    <2>1. IsFiniteSet(LotIds)
      BY FS_Interval, ConstantsAssumption DEF LotIds
    <2>2. \A j \in LotIds : run[r].plan.alloc[j] \in Nat
      BY <1>6, ConstantsAssumption DEF Allocations
    <2>3. Total(run[r].plan.alloc, LotIds) = 0 => run[r].plan.alloc[i] = 0
      BY <2>1, <2>2, <1>6, TotalZero
    <2> QED
      BY <1>6, <1>8, <2>3 DEF SumLots
  <1>12. tradeRows[run[r].key] # <<>>
    BY <1>2, <1>11 DEF OrderInv, StagesInOrder
  <1> QED
    BY <1>3, <1>5, <1>6, <1>10, <1>11, <1>12

\* Lots found where the sale leaves them were left there by this key: no other
\* key sells, and the fills booked so far have not taken as many shares.
LEMMA FoundIsOwn ==
  ASSUME OrderInv, NEW s, SoleSeller(s), NEW r \in Runs, SkipLots(r)
  PROVE  soldFor[run[r].key] = run[r].plan.req.sell
  <1> DEFINE k == run[r].key
             p == run[r].plan
  <1>1. /\ TypeOK /\ RunsHold /\ PlanInPlace /\ PlansSell /\ LotsCurrent
        /\ PlanBeforeMoney /\ LotsConserved /\ Asked /\ LotsShrink /\ SoldOnce
    BY DEF OrderInv, ShareInv, LockInv, PlanInv, TypeInv
  <1>2. run[r].step = "lots" /\ LotsAfter(p, run[r].lots)
    BY DEF SkipLots, LotsDone
  <1>3. k \in Keys /\ p \in Sells /\ run[r].lots = lotOpen /\ p \in PlansOf(k)
    BY <1>1, <1>2 DEF RunsHold, PlansSell, PlanSteps, PersistedSteps,
       LotsCurrent, LotSteps, PlanInPlace
  <1> HIDE DEF k, p
  <1>4. /\ p.req.sell \in Nat /\ p.alloc \in Allocations /\ p.before \in Allocations
        /\ SumLots(p.alloc) = p.req.sell
    BY <1>3 DEF Sells, Plan, Request
  <1>5. SUFFICES ASSUME soldFor[k] = 0, p.req.sell > 0
                 PROVE  FALSE
    BY <1>1, <1>3, <1>4 DEF SoldOnce, k, p
  <1>6. k = s /\ p.req.sell > MaxFills
    <2>1. p.req.sell \in Sizes(k)
      BY <1>1, <1>3 DEF Asked
    <2> QED
      BY <1>3, <1>5, <2>1 DEF Sizes, SoleSeller
  <1>7. \A j \in Keys : soldFor[j] = 0
    <2> SUFFICES ASSUME NEW j \in Keys, soldFor[j] # 0 PROVE FALSE
      OBVIOUS
    <2>1. /\ soldFor[j] > 0 /\ operations[j] # <<>> /\ operations[j] \in Seq(Plan)
          /\ soldFor[j] \in Nat
      BY <1>1 DEF TypeOK, PlanBeforeMoney
    <2>2. PICK d : d \in PlansOf(j)
      <3>1. 1 \in DOMAIN operations[j]
        BY <2>1
      <3> QED
        BY <3>1 DEF PlansOf
    <2>3. soldFor[j] = d.req.sell /\ d.req.sell \in Sizes(j)
      BY <1>1, <2>1, <2>2 DEF SoldOnce, Asked
    <2>4. j = s
      BY <2>1, <2>3 DEF Sizes, SoleSeller
    <2> QED
      BY <1>5, <1>6, <2>1, <2>4
  <1>8. Total(soldFor, Keys) = 0
    <2>1. Units(soldFor, Keys) = {}
      BY <1>7 DEF Units
    <2> QED
      BY <2>1, FS_EmptySet DEF Total
  <1>9. IsFiniteSet(LotIds)
    BY FS_Interval, ConstantsAssumption DEF LotIds
  <1>10. PICK kept : kept = [i \in LotIds |-> lotOpen[i] + p.alloc[i]]
    OBVIOUS
  <1>11. ASSUME NEW i \in LotIds
         PROVE  /\ lotOpen[i] \in Nat /\ p.alloc[i] \in Nat
                /\ kept[i] = lotOpen[i] + p.alloc[i]
                /\ kept[i] \in Nat /\ InitialOpen[i] \in Nat
                /\ kept[i] <= InitialOpen[i]
    <2>1. /\ lotOpen[i] \in 0 .. MaxShares /\ p.alloc[i] \in 0 .. MaxShares
          /\ p.before[i] \in 0 .. MaxShares /\ InitialOpen[i] \in 0 .. MaxShares
      BY <1>1, <1>4, ConstantsAssumption DEF TypeOK, Allocations
    <2>2. lotOpen[i] <= p.before[i] /\ p.before[i] <= InitialOpen[i]
      BY <1>1, <1>3 DEF LotsShrink
    <2>3. lotOpen[i] + p.alloc[i] <= p.before[i]
      <3>1. CASE i \in Touched(p)
        <4>1. lotOpen[i] = p.before[i] - p.alloc[i]
          BY <1>2, <1>3, <3>1 DEF LotsAfter, FinalOpen
        <4> QED
          BY <2>1, <4>1, ConstantsAssumption
      <3>2. CASE i \notin Touched(p)
        <4>1. ~(p.alloc[i] > 0)
          BY <3>2 DEF Touched
        <4> QED
          BY <2>1, <2>2, <4>1, ConstantsAssumption
      <3> QED
        BY <3>1, <3>2
    <2> QED
      BY <1>10, <2>1, <2>2, <2>3, ConstantsAssumption
  <1>12. Total(kept, LotIds) = Total(lotOpen, LotIds) + Total(p.alloc, LotIds)
    BY <1>9, <1>11, TotalAdds
  <1>13. Total(kept, LotIds) <= Total(InitialOpen, LotIds)
    BY <1>9, <1>11, TotalGrows
  <1>14. /\ Total(lotOpen, LotIds) \in Nat /\ Total(kept, LotIds) \in Nat
         /\ Total(InitialOpen, LotIds) \in Nat
    BY <1>9, <1>11, TotalType
  <1>15. fills \in 0 .. MaxFills
    BY <1>1 DEF TypeOK
  <1>16. Total(lotOpen, LotIds) + 0 + fills = Total(InitialOpen, LotIds)
    BY <1>1, <1>8 DEF LotsConserved, SumLots
  <1>17. Total(p.alloc, LotIds) = p.req.sell
    BY <1>4 DEF SumLots
  <1> QED
    BY <1>4, <1>6, <1>12, <1>13, <1>14, <1>15, <1>16, <1>17, ConstantsAssumption

\* A commit step takes no share into a lot.
LEMMA LotsFall ==
  ASSUME ShareInv, NEW r \in Runs, CommitStep(r), NEW i \in LotIds
  PROVE  lotOpen'[i] <= lotOpen[i]
  <1>1. lotOpen[i] \in 0 .. MaxShares
    BY DEF ShareInv, LockInv, PlanInv, TypeInv, TypeOK, Allocations
  <1>2. CASE UNCHANGED lotOpen
    BY <1>1, <1>2, ConstantsAssumption
  <1>3. CASE /\ WriteLots(r) /\ run[r].plan \in Sells /\ run[r].lots = lotOpen
             /\ lotOpen'[i] = IF i \in Touched(run[r].plan)
                              THEN FinalOpen(run[r].plan, i) ELSE lotOpen[i]
    <2>1. /\ run[r].plan.alloc[i] \in 0 .. MaxShares
          /\ run[r].plan.before[i] \in 0 .. MaxShares
      BY <1>3 DEF Sells, Plan, Allocations
    <2>2. i \in Touched(run[r].plan) => lotOpen[i] = run[r].plan.before[i]
      BY <1>3 DEF WriteLots, LotsBefore
    <2> QED
      BY <1>1, <1>3, <2>1, <2>2, ConstantsAssumption DEF FinalOpen
  <1> QED
    BY <1>2, <1>3, LotWrites

\* A run gets a plan to append only from its own request, on the lots it reads.
LEMMA FreshPlan ==
  ASSUME TypeInv, NEW r \in Runs, CommitStep(r), run'[r].step = "appendPlan"
  PROVE  /\ run[r].step = "locked" /\ run'[r].key = run[r].key
         /\ run'[r].plan.req = run[r].req
         /\ run'[r].plan.before = lotOpen /\ run'[r].lots = lotOpen
  <1>1. RunMoves(r)
    BY CommitMoves
  <1>2. BeginFresh(r)
    <2>1. ASSUME BeginReplay(r)
          PROVE  FALSE
      <3>1. PICK p, step, b : Snapshot(r, p, step, b) /\ step = "trades"
        BY <2>1 DEF BeginReplay
      <3>2. run'[r].step = step
        BY <3>1, SnapshotRun
      <3> QED
        BY <3>1, <3>2
    <2> QED
      BY <1>1, <2>1 DEF RunMoves, PersistedSteps
  <1>3. PICK t \in Allocations :
          Snapshot(r, BuildPlan(run[r].req, nav, lotOpen, t), "appendPlan", FALSE)
    BY <1>2 DEF BeginFresh
  <1>4. PICK p : p = BuildPlan(run[r].req, nav, lotOpen, t)
    OBVIOUS
  <1>5. Snapshot(r, p, "appendPlan", FALSE)
    BY <1>3, <1>4
  <1>6. run'[r].plan = p /\ run'[r].key = run[r].key /\ run'[r].lots = lotOpen
    BY <1>5, SnapshotRun, SnapshotLots
  <1>7. p.req = run[r].req /\ p.before = lotOpen
    BY <1>4 DEF BuildPlan
  <1> QED
    BY <1>2, <1>6, <1>7 DEF BeginFresh

LEMMA AskedStep ==
  ASSUME OrderInv, NEW r \in Runs, CommitStep(r)
  PROVE  Asked'
  <1>1. TypeInv /\ TypeOK /\ LockInv /\ Asked
    BY DEF OrderInv, ShareInv, LockInv, PlanInv, TypeInv
  <1>2. RunMoves(r) /\ \A q \in Runs \ {r} : run'[q] = run[q]
    BY <1>1, CommitMoves
  <1>3. ASSUME run'[r].step \in {"previewed", "locked"}
        PROVE  run'[r].req.sell \in Sizes(run'[r].key)
    <2>1. Acquire(r) /\ run'[r].step = "locked"
      <3>1. ASSUME BeginReplay(r) \/ BeginFresh(r)
            PROVE  FALSE
        <4>1. PICK p, step, b : Snapshot(r, p, step, b) /\ step \in {"trades", "appendPlan"}
          BY <3>1 DEF BeginReplay, BeginFresh
        <4>2. run'[r].step = step
          BY <1>1, <4>1, SnapshotRun
        <4> QED
          BY <1>3, <4>1, <4>2
      <3> QED
        BY <1>2, <1>3, <3>1 DEF RunMoves, PersistedSteps
    <2>2. run' = [run EXCEPT ![r].step = "locked"]
      BY <1>1, <2>1 DEF Acquire, Idle, TypeOK
    <2>3. run'[r].req = run[r].req /\ run'[r].key = run[r].key
      BY <1>1, <2>2 DEF TypeOK, RunState
    <2> QED
      BY <1>1, <2>1, <2>3 DEF Acquire, Asked
  <1>4. ASSUME run'[r].step = "appendPlan"
        PROVE  run'[r].plan.req.sell \in Sizes(run'[r].key)
    BY <1>1, <1>4, FreshPlan DEF Asked
  <1>5. ASSUME NEW k \in Keys, NEW p \in PlansOf(k)'
        PROVE  p.req.sell \in Sizes(k)
    <2>1. CASE operations'[k] = operations[k]
      BY <1>1, <1>5, <2>1 DEF PlansOf, Asked
    <2>2. CASE /\ AppendPlan(r) /\ k = run[r].key
               /\ \A i \in DOMAIN operations'[k] : operations'[k][i] = run[r].plan
      BY <1>1, <1>5, <2>2 DEF PlansOf, Asked, AppendPlan
    <2> QED
      BY <1>1, <2>1, <2>2, PlanRows
  <1> QED
    BY <1>1, <1>2, <1>3, <1>4, <1>5 DEF Asked

LEMMA ShrinkStep ==
  ASSUME OrderInv, NEW r \in Runs, CommitStep(r)
  PROVE  LotsShrink'
  <1>1. /\ TypeInv /\ TypeOK /\ LockInv /\ ShareInv /\ LotsShrink /\ LotsCurrent
        /\ RunsHold
    BY DEF OrderInv, ShareInv, LockInv, PlanInv, TypeInv
  <1>2. \A q \in Runs \ {r} : run'[q] = run[q]
    BY <1>1, CommitMoves
  <1>3. TypeOK'
    BY <1>1, CommitStepType DEF TypeInv
  <1>4. ASSUME NEW i \in LotIds
        PROVE  /\ lotOpen[i] \in Int /\ lotOpen'[i] \in Int /\ InitialOpen[i] \in Int
               /\ lotOpen'[i] <= lotOpen[i]
    BY <1>1, <1>3, LotsFall, ConstantsAssumption DEF TypeOK, Allocations
  <1>5. \A i \in LotIds : lotOpen'[i] <= InitialOpen[i]
    BY <1>1, <1>4 DEF LotsShrink
  <1>6. ASSUME NEW k \in Keys, NEW p \in PlansOf(k)', NEW i \in LotIds
        PROVE  lotOpen'[i] <= p.before[i] /\ p.before[i] <= InitialOpen[i]
    <2>1. CASE operations'[k] = operations[k]
      <3>1. p \in PlansOf(k) /\ operations[k] \in Seq(Plan)
        BY <1>1, <1>6, <2>1 DEF PlansOf, TypeOK
      <3>2. p.before[i] \in 0 .. MaxShares
        BY <3>1 DEF PlansOf, Plan, Allocations
      <3>3. lotOpen[i] <= p.before[i] /\ p.before[i] <= InitialOpen[i]
        BY <1>1, <3>1 DEF LotsShrink
      <3> QED
        BY <1>4, <3>2, <3>3, ConstantsAssumption
    <2>2. CASE /\ AppendPlan(r)
               /\ \A j \in DOMAIN operations'[k] : operations'[k][j] = run[r].plan
      <3>1. p = run[r].plan
        BY <2>2, <1>6 DEF PlansOf
      <3>2. p.before = lotOpen
        BY <1>1, <2>2, <3>1 DEF AppendPlan, LotsShrink, LotsCurrent, LotSteps
      <3> QED
        BY <1>1, <1>4, <3>2 DEF LotsShrink
    <2> QED
      BY <1>1, <2>1, <2>2, PlanRows
  <1>7. ASSUME NEW q \in Runs, run'[q].step = "appendPlan"
        PROVE  run'[q].plan.before = run'[q].lots
    <2>1. CASE q = r
      BY <1>1, <1>7, <2>1, FreshPlan
    <2>2. CASE q # r
      BY <1>1, <1>2, <1>7, <2>2 DEF LotsShrink
    <2> QED
      BY <2>1, <2>2
  <1> QED
    BY <1>5, <1>6, <1>7 DEF LotsShrink

\* The first plan of a key finds that nothing was sold under it.
LEMMA SoldStep ==
  ASSUME OrderInv, NEW r \in Runs, CommitStep(r)
  PROVE  SoldOnce' /\ SoldStays'
  <1>1. /\ TypeInv /\ TypeOK /\ LockInv /\ ShareInv /\ SoldOnce /\ SoldStays
        /\ PlanBeforeMoney /\ OnePlanPerKey
    BY DEF OrderInv, ShareInv, LockInv, PlanInv, TypeInv
  <1>2. TypeOK'
    BY <1>1, CommitStepType DEF TypeInv
  <1>3. ASSUME NEW i \in LotIds
        PROVE  lotOpen[i] \in Int /\ lotOpen'[i] \in Int /\ lotOpen'[i] <= lotOpen[i]
    BY <1>1, <1>2, LotsFall, ConstantsAssumption DEF TypeOK, Allocations
  <1> SUFFICES ASSUME NEW k \in Keys, NEW p \in PlansOf(k)'
               PROVE  /\ soldFor'[k] \in {0, p.req.sell}
                      /\ soldFor'[k] > 0 =>
                            \A i \in Touched(p) : lotOpen'[i] <= FinalOpen(p, i)
    BY DEF SoldOnce, SoldStays
  <1>4. soldFor[k] \in Nat
    BY <1>1 DEF TypeOK
  <1>5. CASE UNCHANGED soldFor
    <2>1. CASE operations'[k] = operations[k]
      <3>1. p \in PlansOf(k) /\ operations[k] \in Seq(Plan)
        BY <1>1, <2>1 DEF PlansOf, TypeOK
      <3>2. p \in Plan
        BY <3>1 DEF PlansOf
      <3>3. ASSUME NEW i \in Touched(p), soldFor[k] > 0
            PROVE  lotOpen'[i] <= FinalOpen(p, i)
        <4>1. i \in LotIds
          BY DEF Touched
        <4>2. FinalOpen(p, i) \in 0 .. MaxShares
          BY <3>2, <4>1, FinalOpenType
        <4>3. lotOpen[i] <= FinalOpen(p, i)
          BY <1>1, <3>1, <3>3 DEF SoldStays
        <4> QED
          BY <1>3, <4>1, <4>2, <4>3, ConstantsAssumption
      <3> QED
        BY <1>1, <1>5, <3>1, <3>3 DEF SoldOnce
    <2>2. CASE operations[k] = <<>>
      <3>1. ~(soldFor[k] > 0)
        BY <1>1, <2>2 DEF PlanBeforeMoney
      <3> QED
        BY <1>4, <1>5, <3>1
    <2> QED
      BY <1>1, <2>1, <2>2, PlanRows
  <1>6. CASE /\ WriteLots(r) /\ run[r].plan \in Sells
             /\ run[r].plan \in PlansOf(run[r].key)
             /\ \A i \in LotIds :
                   lotOpen'[i] = IF i \in Touched(run[r].plan)
                                 THEN FinalOpen(run[r].plan, i) ELSE lotOpen[i]
             /\ soldFor' = [soldFor EXCEPT ![run[r].key] = @ + run[r].plan.req.sell]
    <2>1. operations' = operations
      BY <1>6 DEF WriteLots
    <2>2. p \in PlansOf(k) /\ operations[k] \in Seq(Plan)
      BY <1>1, <2>1 DEF PlansOf, TypeOK
    <2>3. CASE k = run[r].key
      <3>1. p = run[r].plan
        BY <1>1, <1>6, <2>2, <2>3 DEF OnePlanPerKey
      <3>2. soldFor[k] = 0 /\ run[r].plan.req.sell \in Nat
        BY <1>6, <2>3, WritesOnce
      <3>3. soldFor'[k] = run[r].plan.req.sell
        BY <1>1, <1>6, <2>3, <3>2 DEF TypeOK
      <3>4. \A i \in Touched(p) : lotOpen'[i] = FinalOpen(p, i) /\ lotOpen'[i] \in Int
        BY <1>3, <1>6, <3>1 DEF Touched
      <3> QED
        BY <3>1, <3>3, <3>4
    <2>4. CASE k # run[r].key
      <3>1. soldFor'[k] = soldFor[k]
        BY <1>1, <1>6, <2>4 DEF TypeOK
      <3>2. p \in Plan
        BY <2>2 DEF PlansOf
      <3>3. ASSUME NEW i \in Touched(p), soldFor[k] > 0
            PROVE  lotOpen'[i] <= FinalOpen(p, i)
        <4>1. i \in LotIds
          BY DEF Touched
        <4>2. FinalOpen(p, i) \in 0 .. MaxShares
          BY <3>2, <4>1, FinalOpenType
        <4>3. lotOpen[i] <= FinalOpen(p, i)
          BY <1>1, <2>2, <3>3 DEF SoldStays
        <4> QED
          BY <1>3, <4>1, <4>2, <4>3, ConstantsAssumption
      <3> QED
        BY <1>1, <2>2, <3>1, <3>3 DEF SoldOnce
    <2> QED
      BY <2>3, <2>4
  <1> QED
    BY <1>1, <1>5, <1>6, LotWrites

\* What the next stage needs is there when a run gets to it.
LEMMA OrderStep ==
  ASSUME OrderInv, NEW s, SoleSeller(s), NEW r \in Runs, CommitStep(r)
  PROVE  StagesInOrder'
  <1>1. /\ TypeInv /\ TypeOK /\ LockInv /\ ShareInv /\ StagesInOrder /\ Mutex
        /\ RunsHold
    BY DEF OrderInv, ShareInv, LockInv, PlanInv, TypeInv
  <1>2. \A q \in Runs \ {r} : run'[q] = run[q]
    BY <1>1, CommitMoves
  <1> DEFINE InOrder(q) ==
        /\ run[q].step = "appendTrades" => run[q].plan.req.sell > 0
        /\ run[q].step = "lots" /\ run[q].plan.req.sell > 0 =>
              tradeRows[run[q].key] # <<>>
        /\ run[q].step = "entry" => soldFor[run[q].key] = run[q].plan.req.sell
  <1>3. ASSUME NEW q \in Runs \ {r}
        PROVE  InOrder(q)'
    <2>1. run'[q] = run[q] /\ InOrder(q)
      BY <1>1, <1>2 DEF StagesInOrder
    <2>2. CASE InCommit(q)
      <3>1. tradeRows' = tradeRows
        BY <1>1, <2>2, OthersWait DEF tabs
      <3>2. soldFor' = soldFor
        <4>1. ~WriteLots(r)
          BY <1>1, <2>2 DEF WriteLots, InCommit, Mutex
        <4> QED
          BY <1>1, <4>1, LotWrites
      <3> QED
        BY <2>1, <3>1, <3>2
    <2>3. CASE ~InCommit(q)
      BY <2>1, <2>3 DEF InCommit
    <2> QED
      BY <2>2, <2>3
  <1>4. CASE Acquire(r)
    <2>1. run'[r].step \in {"idle", "locked"}
      BY <1>1, <1>4 DEF Acquire, Idle, TypeOK, RunState
    <2> QED
      BY <1>3, <2>1 DEF StagesInOrder
  <1>5. CASE BeginReplay(r) \/ BeginFresh(r)
    <2>1. PICK p, step, b : Snapshot(r, p, step, b) /\ step \in {"trades", "appendPlan"}
      BY <1>5 DEF BeginReplay, BeginFresh
    <2>2. run'[r].step = step
      BY <1>1, <2>1, SnapshotRun
    <2> QED
      BY <1>3, <2>1, <2>2 DEF StagesInOrder
  <1>6. CASE AppendPlan(r)
    <2>1. run'[r].step \in {"idle", "trades"}
      BY <1>1, <1>6, AdvanceRun, ExitRun DEF AppendPlan, Continue
    <2> QED
      BY <1>3, <2>1 DEF StagesInOrder
  <1>7. CASE CheckTrades(r)
    <2>1. /\ UNCHANGED <<tradeRows, soldFor>>
          /\ \/ /\ run'[r].step = "lots"
                /\ NeedsTrade(r) => TradesMatchPlan(tradeRows[run[r].key], run[r].plan)
             \/ run'[r].step = "appendTrades" /\ NeedsTrade(r)
          /\ run'[r].key = run[r].key /\ run'[r].plan = run[r].plan
      BY <1>1, <1>7, AdvanceRun DEF CheckTrades, tabs, history
    <2>2. CASE run'[r].step = "lots" /\ run[r].plan.req.sell > 0
      <3>1. PICK rows : rows = tradeRows[run[r].key]
        OBVIOUS
      <3>2. Len(rows) = 1
        BY <2>1, <2>2, <3>1 DEF NeedsTrade, TradesMatchPlan
      <3>3. rows # <<>>
        BY <3>2
      <3> QED
        BY <1>3, <2>1, <2>2, <3>1, <3>3 DEF StagesInOrder
    <2>3. CASE ~(run'[r].step = "lots" /\ run[r].plan.req.sell > 0)
      BY <1>3, <2>1, <2>3 DEF StagesInOrder, NeedsTrade
    <2> QED
      BY <2>2, <2>3
  <1>8. CASE AppendTrades(r)
    <2>1. PICK o \in Outcomes :
            /\ tradeRows' = [tradeRows EXCEPT ![run[r].key] =
                               Appended(@, TradeOf(run[r].plan), o)]
            /\ Continue(r, o, "lots")
      BY <1>8 DEF AppendTrades
    <2>2. CASE Raises(o)
      <3>1. run'[r].step = "idle"
        BY <1>1, <2>1, <2>2, ExitRun DEF Continue
      <3> QED
        BY <1>3, <3>1 DEF StagesInOrder
    <2>3. CASE ~Raises(o)
      <3>1. /\ run'[r].step = "lots" /\ run'[r].key = run[r].key
        BY <1>1, <2>1, <2>3, AdvanceRun DEF Continue
      <3>2. /\ run[r].key \in Keys /\ run[r].plan \in Plan
            /\ tradeRows[run[r].key] \in Seq(Trade)
        BY <1>1, <1>8 DEF AppendTrades, RunsHold, PlanSteps, PersistedSteps, TypeOK
      <3>3. TradeOf(run[r].plan) \in Trade
        BY <3>2 DEF TradeOf, Trade, Plan, Request
      <3>4. tradeRows'[run[r].key] = Appended(tradeRows[run[r].key], TradeOf(run[r].plan), o)
        BY <1>1, <2>1, <3>2 DEF TypeOK
      <3>5. DOMAIN tradeRows'[run[r].key] = 1 .. (Len(tradeRows[run[r].key]) + Copies(o))
        BY <3>2, <3>3, <3>4, AppendedRows
      <3>6. Copies(o) > 0 /\ Copies(o) \in 0 .. 2 /\ Len(tradeRows[run[r].key]) \in Nat
        BY <2>3, <3>2, CopiesType DEF Copies, Raises
      <3>7. 1 \in DOMAIN tradeRows'[run[r].key]
        <4>1. PICK n \in Nat : n = Len(tradeRows[run[r].key])
          BY <3>6
        <4>2. PICK c \in 0 .. 2 : c = Copies(o) /\ c > 0
          BY <3>6
        <4>3. 1 \in 1 .. (n + c)
          BY <4>2
        <4>4. DOMAIN tradeRows'[run[r].key] = 1 .. (n + c)
          BY <3>5, <4>1, <4>2
        <4> QED
          BY <4>3, <4>4
      <3>8. tradeRows'[run[r].key] # <<>>
        BY <3>7
      <3> QED
        BY <1>3, <3>1, <3>8 DEF StagesInOrder
    <2> QED
      BY <2>2, <2>3
  <1>9. CASE SkipLots(r)
    <2>1. /\ run'[r].step = "entry" /\ run'[r].key = run[r].key
          /\ run'[r].plan = run[r].plan /\ soldFor' = soldFor
      BY <1>1, <1>9, AdvanceRun DEF SkipLots, history
    <2>2. soldFor[run[r].key] = run[r].plan.req.sell
      BY <1>9, FoundIsOwn
    <2> QED
      BY <1>3, <2>1, <2>2 DEF StagesInOrder
  <1>10. CASE WriteLots(r)
    <2>1. PICK o \in {"ok", "failed", "lost"} :
            /\ o # "failed" =>
                  soldFor' = [soldFor EXCEPT ![run[r].key] = @ + run[r].plan.req.sell]
            /\ Continue(r, o, "entry")
      BY <1>10 DEF WriteLots
    <2>2. CASE Raises(o)
      <3>1. run'[r].step = "idle"
        BY <1>1, <2>1, <2>2, ExitRun DEF Continue
      <3> QED
        BY <1>3, <3>1 DEF StagesInOrder
    <2>3. CASE ~Raises(o)
      <3>1. /\ run'[r].step = "entry" /\ run'[r].key = run[r].key
            /\ run'[r].plan = run[r].plan
        BY <1>1, <2>1, <2>3, AdvanceRun DEF Continue
      <3>2. /\ soldFor[run[r].key] = 0 /\ run[r].key \in Keys
            /\ run[r].plan.req.sell \in Nat
        BY <1>10, WritesOnce
      <3>3. soldFor'[run[r].key] = 0 + run[r].plan.req.sell
        BY <1>1, <2>1, <2>3, <3>2 DEF Raises, TypeOK
      <3> QED
        BY <1>3, <3>1, <3>2, <3>3 DEF StagesInOrder
    <2> QED
      BY <2>2, <2>3
  <1>11. CASE SkipEntry(r) \/ AppendEntry(r) \/ Refuse(r) \/ ShadowWrite(r) \/ Release(r) \/ Report(r)
    <2>1. run'[r].step \in {"idle", "shadow", "release", "report"}
      <3>1. CASE AppendEntry(r)
        <4>1. PICK o \in Outcomes :
                IF Raises(o) THEN Exit(r)
                ELSE \E w : run' = [run EXCEPT ![r].step = "shadow", ![r].warn = w]
          BY <3>1 DEF AppendEntry
        <4>2. CASE ~Raises(o)
          <5>1. PICK w : run' = [run EXCEPT ![r].step = "shadow", ![r].warn = w]
            BY <4>1, <4>2
          <5> QED
            BY <1>1, <5>1 DEF TypeOK, RunState
        <4> QED
          BY <1>1, <4>1, <4>2, ExitRun
      <3>2. CASE SkipEntry(r) \/ ShadowWrite(r) \/ Refuse(r)
        BY <1>1, <3>2, AdvanceRun, ExitRun DEF SkipEntry, ShadowWrite, Refuse
      <3>3. CASE Release(r) \/ Report(r)
        BY <1>1, <3>3 DEF Release, Report, Idle, TypeOK, RunState
      <3> QED
        BY <1>11, <3>1, <3>2, <3>3
    <2> QED
      BY <1>3, <2>1 DEF StagesInOrder
  <1> QED
    BY <1>4, <1>5, <1>6, <1>7, <1>8, <1>9, <1>10, <1>11 DEF CommitStep

\* A preview holds the key and the sale the operator typed.
LEMMA PreviewAsks ==
  ASSUME TypeInv, NEW r \in Runs, NEW k \in Keys, NEW q \in RequestsOf[k],
         Preview(r, k, q)
  PROVE  run'[r].key = k /\ run'[r].req.sell = q.sell
  <1>1. Resolve(q).sell = q.sell
    BY ConstantsAssumption DEF Resolve, Request
  <1>2. run'[r].req = Resolve(q) /\ run'[r].key = k
    BY DEF Preview, Idle, TypeInv, TypeOK
  <1> QED
    BY <1>1, <1>2

LEMMA OrderInvNext ==
  ASSUME NEW s, SoleSeller(s), ~LockMayExpire, ~FillsDuringCommit
  PROVE  OrderInv /\ [Next]_vars => OrderInv'
  <1> SUFFICES ASSUME OrderInv, [Next]_vars PROVE OrderInv'
    OBVIOUS
  <1>1. /\ TypeInv /\ TypeOK /\ ShareInv /\ Asked /\ LotsShrink /\ SoldOnce
        /\ SoldStays /\ StagesInOrder /\ ShareInv'
    BY ShareInvNext DEF OrderInv, ShareInv, LockInv, PlanInv, TypeInv
  <1>2. CASE \E r \in Runs : CommitStep(r)
    BY <1>1, <1>2, AskedStep, ShrinkStep, SoldStep, OrderStep DEF OrderInv
  <1>3. CASE \E r \in Runs :
               \/ Crash(r)
               \/ \E k \in Keys : \E q \in RequestsOf[k] : Preview(r, k, q)
    <2>1. PICK r \in Runs :
            \/ Crash(r)
            \/ \E k \in Keys : \E q \in RequestsOf[k] : Preview(r, k, q)
      BY <1>3
    <2>2. /\ run'[r].step \in {"idle", "previewed"}
          /\ \A q \in Runs \ {r} : run'[q] = run[q]
          /\ UNCHANGED <<operations, tradeRows, lotOpen, soldFor>>
      BY <1>1, <2>1, OutsideMoves DEF tabs
    <2>3. run'[r].step = "previewed" => run'[r].req.sell \in Sizes(run'[r].key)
      <3>1. CASE Crash(r)
        BY <1>1, <3>1 DEF Crash, Idle, TypeOK
      <3>2. CASE \E k \in Keys : \E q \in RequestsOf[k] : Preview(r, k, q)
        BY <1>1, <3>2, PreviewAsks DEF Sizes
      <3> QED
        BY <2>1, <3>1, <3>2
    <2>4. Asked'
      BY <1>1, <2>2, <2>3 DEF Asked, PlansOf
    <2>5. LotsShrink' /\ SoldOnce' /\ SoldStays' /\ StagesInOrder'
      BY <1>1, <2>2 DEF LotsShrink, SoldOnce, SoldStays, StagesInOrder, PlansOf
    <2> QED
      BY <1>1, <2>4, <2>5 DEF OrderInv
  <1>4. CASE Environment \/ UNCHANGED vars
    <2>1. UNCHANGED <<operations, tradeRows, run, soldFor>>
      BY <1>4 DEF Environment, LockExpires, PublishNav, BookFill,
                  RecordContribution, tabs, history, vars
    <2>2. Asked' /\ SoldOnce' /\ StagesInOrder'
      BY <1>1, <2>1 DEF Asked, SoldOnce, StagesInOrder, PlansOf
    <2>3. ASSUME NEW i \in LotIds
          PROVE  /\ lotOpen[i] \in Int /\ lotOpen'[i] \in Int /\ InitialOpen[i] \in Int
                 /\ lotOpen'[i] <= lotOpen[i]
      <3>1. /\ lotOpen[i] \in 0 .. MaxShares /\ lotOpen'[i] \in 0 .. MaxShares
            /\ InitialOpen[i] \in 0 .. MaxShares
        BY <1>1, ConstantsAssumption
           DEF ShareInv, LockInv, PlanInv, TypeInv, TypeOK, Allocations
      <3>2. CASE BookFill
        <4>1. PICK t \in Allocations : lotOpen' = [j \in LotIds |-> lotOpen[j] - t[j]]
          BY <3>2 DEF BookFill
        <4>2. t[i] \in 0 .. MaxShares /\ lotOpen'[i] = lotOpen[i] - t[i]
          BY <4>1 DEF Allocations
        <4> QED
          BY <3>1, <4>2, ConstantsAssumption
      <3>3. CASE ~BookFill
        <4>1. lotOpen' = lotOpen
          BY <1>4, <3>3 DEF Environment, LockExpires, PublishNav, RecordContribution,
                            tabs, vars
        <4> QED
          BY <3>1, <4>1, ConstantsAssumption
      <3> QED
        BY <3>2, <3>3
    <2>4. ASSUME NEW k \in Keys, NEW p \in PlansOf(k)
          PROVE  p \in Plan
      BY <1>1 DEF PlansOf, TypeOK
    <2>5. LotsShrink'
      <3>1. \A i \in LotIds : lotOpen'[i] <= InitialOpen[i]
        BY <1>1, <2>3 DEF LotsShrink
      <3>2. ASSUME NEW k \in Keys, NEW p \in PlansOf(k), NEW i \in LotIds
            PROVE  lotOpen'[i] <= p.before[i] /\ p.before[i] <= InitialOpen[i]
        <4>1. p.before[i] \in 0 .. MaxShares
          BY <2>4 DEF Plan, Allocations
        <4>2. lotOpen[i] <= p.before[i] /\ p.before[i] <= InitialOpen[i]
          BY <1>1 DEF LotsShrink
        <4> QED
          BY <2>3, <4>1, <4>2, ConstantsAssumption
      <3> QED
        BY <1>1, <2>1, <3>1, <3>2 DEF LotsShrink, PlansOf
    <2>6. SoldStays'
      <3>1. ASSUME NEW k \in Keys, soldFor[k] > 0, NEW p \in PlansOf(k), NEW i \in Touched(p)
            PROVE  lotOpen'[i] <= FinalOpen(p, i)
        <4>1. i \in LotIds /\ p \in Plan
          BY <2>4 DEF Touched
        <4>2. FinalOpen(p, i) \in 0 .. MaxShares
          BY <4>1, FinalOpenType
        <4>3. lotOpen[i] <= FinalOpen(p, i)
          BY <1>1, <3>1 DEF SoldStays
        <4> QED
          BY <2>3, <4>1, <4>2, <4>3, ConstantsAssumption
      <3> QED
        BY <2>1, <3>1 DEF SoldStays, PlansOf
    <2> QED
      BY <1>1, <2>2, <2>5, <2>6 DEF OrderInv
  <1> QED
    BY <1>2, <1>3, <1>4 DEF Next

\* No run holds anything at the start, and no share has been sold.
LEMMA OrderInvInit == Init => OrderInv
  <1> SUFFICES ASSUME Init PROVE OrderInv
    OBVIOUS
  <1>1. ShareInv
    BY ShareInvInit
  <1>2. Asked /\ SoldOnce /\ SoldStays /\ StagesInOrder
    BY DEF Init, Idle, Asked, SoldOnce, SoldStays, StagesInOrder, PlansOf
  <1>3. LotsShrink
    <2>1. \A i \in LotIds : InitialOpen[i] \in 0 .. MaxShares
      BY ConstantsAssumption DEF Allocations
    <2> QED
      BY <2>1, ConstantsAssumption DEF Init, Idle, LotsShrink, PlansOf
  <1> QED
    BY <1>1, <1>2, <1>3 DEF OrderInv

-----------------------------------------------------------------------------
(* The refinement mapping, one key at a time                               *)

BoundTo(k) == IF operations[k] = <<>> THEN NoPlan ELSE operations[k][1]

BurnedFor(k) ==
    IF investors[k] = <<>> THEN 0 ELSE Len(investors[k]) * investors[k][1].units

\* Nothing a promise is about moves.
LEMMA PromiseStutters ==
  ASSUME UNCHANGED <<operations, tradeRows, soldFor, investors>>
  PROVE  UNCHANGED Promise!vars
  BY DEF Promise!vars

\* A key that had no plan gets one: the promise binds it.
LEMMA PromiseBinds ==
  ASSUME NEW k \in Keys, BoundTo(k) = NoPlan, BoundTo(k)' \in Plan,
         \A j \in Keys \ {k} : operations'[j] = operations[j],
         UNCHANGED <<tradeRows, soldFor, investors>>
  PROVE  Promise!Next
  <1>1. Promise!Bind(k)
    BY DEF Promise!Bind, BoundTo
  <1> QED
    BY <1>1 DEF Promise!Next

\* The first Trade Ledger row of a key that sells: the promise records the sale.
LEMMA PromiseRecords ==
  ASSUME NEW k \in Keys, operations[k] # <<>>, operations[k][1] \in Plan,
         operations[k][1].req.sell > 0,
         tradeRows[k] = <<>>, tradeRows'[k] # <<>>,
         \A j \in Keys \ {k} : tradeRows'[j] = tradeRows[j],
         UNCHANGED <<operations, soldFor, investors>>
  PROVE  Promise!Next
  <1>1. operations[k][1] # NoPlan
    BY ConstantsAssumption
  <1>2. Promise!RecordSale(k)
    BY <1>1 DEF Promise!RecordSale
  <1> QED
    BY <1>2 DEF Promise!Next

\* The shares of a recorded sale leave the lots.
LEMMA PromiseConsumes ==
  ASSUME NEW k \in Keys, operations[k] # <<>>, tradeRows[k] # <<>>,
         soldFor \in [Keys -> Nat], soldFor[k] = 0,
         soldFor' = [soldFor EXCEPT ![k] = operations[k][1].req.sell],
         UNCHANGED <<operations, tradeRows, investors>>
  PROVE  Promise!Next
  <1>1. Promise!ConsumeLots(k)
    BY DEF Promise!ConsumeLots
  <1> QED
    BY <1>1 DEF Promise!Next

\* The units of a key whose shares have left the lots are burned.
LEMMA PromiseBurns ==
  ASSUME NEW k \in Keys, operations[k] # <<>>, operations[k][1] \in Plan,
         soldFor[k] = operations[k][1].req.sell,
         BurnedFor(k) = 0, BurnedFor(k)' = operations[k][1].entry.units,
         \A j \in Keys \ {k} : investors'[j] = investors[j],
         UNCHANGED <<operations, tradeRows, soldFor>>
  PROVE  Promise!Next
  <1>1. operations[k][1] # NoPlan
    BY ConstantsAssumption
  <1>2. Promise!BurnUnits(k)
    BY <1>1 DEF Promise!BurnUnits, BurnedFor
  <1> QED
    BY <1>2 DEF Promise!Next

\* A run that has persisted its plan works on the plan its key is bound to.
LEMMA BoundPlan ==
  ASSUME TypeInv, PlanInPlace, OnePlanPerKey, NEW r \in Runs,
         run[r].step \in PersistedSteps
  PROVE  /\ run[r].key \in Keys /\ run[r].plan \in Plan
         /\ operations[run[r].key] # <<>>
         /\ operations[run[r].key][1] = run[r].plan
  <1>1. run[r].key \in Keys /\ run[r].plan \in Plan
    BY DEF TypeInv, RunsHold, PlanSteps, PersistedSteps
  <1>2. PICK rows \in Seq(Plan) : rows = operations[run[r].key]
    BY <1>1 DEF TypeInv, TypeOK
  <1>3. PICK i \in DOMAIN rows : rows[i] = run[r].plan
    BY <1>2 DEF PlanInPlace, PlansOf
  <1>4. rows # <<>> /\ 1 \in DOMAIN rows
    BY <1>2, <1>3
  <1>5. rows[1] = rows[i]
    BY <1>1, <1>2, <1>3, <1>4 DEF OnePlanPerKey, PlansOf
  <1> QED
    BY <1>1, <1>2, <1>3, <1>4, <1>5

\* The append of the plan binds its key, or nothing was appended.
LEMMA AppendPlanKeeps ==
  ASSUME LockInv, NEW r \in Runs, AppendPlan(r)
  PROVE  Promise!Next \/ UNCHANGED Promise!vars
  <1>1. /\ TypeOK /\ RunsHold /\ run[r].key \in Keys /\ CommitStep(r)
    BY DEF LockInv, PlanInv, TypeInv, RunsHold, AppendPlan, CommitStep
  <1>2. UNCHANGED <<tradeRows, soldFor, investors>>
    BY DEF AppendPlan, history
  <1>3. \A k \in Keys \ {run[r].key} : operations'[k] = operations[k]
    BY <1>1, PlanRows
  <1>4. CASE operations'[run[r].key] = operations[run[r].key]
    <2>1. operations' = operations
      <3>1. PICK o \in Outcomes :
              operations' = [operations EXCEPT ![run[r].key] = Appended(@, run[r].plan, o)]
        BY DEF AppendPlan
      <3>2. PICK rows : rows = Appended(operations[run[r].key], run[r].plan, o)
        OBVIOUS
      <3>3. operations' = [operations EXCEPT ![run[r].key] = rows]
        BY <1>1, <3>1, <3>2 DEF TypeOK
      <3>4. rows = operations[run[r].key]
        BY <1>1, <1>4, <3>3 DEF TypeOK
      <3> QED
        BY <1>1, <3>3, <3>4 DEF TypeOK
    <2> QED
      BY <1>2, <2>1, PromiseStutters
  <1>5. CASE operations'[run[r].key] # operations[run[r].key]
    <2>1. PICK new : new = operations'[run[r].key]
      OBVIOUS
    <2>2. /\ operations[run[r].key] = <<>> /\ run[r].plan \in Plan /\ new \in Seq(Plan)
          /\ \A i \in DOMAIN new : new[i] = run[r].plan
      BY <1>1, <1>5, <2>1, PlanRows
    <2>3. new # <<>> /\ 1 \in DOMAIN new
      BY <1>5, <2>1, <2>2
    <2>4. PICK k \in Keys : k = run[r].key
      BY <1>1
    <2>5. BoundTo(k) = NoPlan /\ BoundTo(k)' \in Plan
      BY <2>1, <2>2, <2>3, <2>4 DEF BoundTo
    <2> QED
      BY <1>2, <1>3, <2>4, <2>5, PromiseBinds
  <1> QED
    BY <1>4, <1>5

\* The append of the sale records it, or nothing was appended.
LEMMA AppendTradesKeeps ==
  ASSUME OrderInv, NEW r \in Runs, AppendTrades(r)
  PROVE  Promise!Next \/ UNCHANGED Promise!vars
  <1>1. TypeInv /\ TypeOK /\ PlanInPlace /\ OnePlanPerKey /\ TradesChecked /\ StagesInOrder
    BY DEF OrderInv, ShareInv, LockInv, PlanInv, TypeInv
  <1>2. run[r].step = "appendTrades" /\ UNCHANGED <<operations, soldFor, investors>>
    BY DEF AppendTrades, history
  <1>3. /\ run[r].key \in Keys /\ run[r].plan \in Plan
        /\ operations[run[r].key] # <<>> /\ operations[run[r].key][1] = run[r].plan
    BY <1>1, <1>2, BoundPlan DEF PersistedSteps
  <1>4. run[r].plan.req.sell > 0 /\ tradeRows[run[r].key] = <<>>
    BY <1>1, <1>2 DEF TradesChecked, StagesInOrder
  <1>5. PICK rows : tradeRows' = [tradeRows EXCEPT ![run[r].key] = rows]
    <2>1. PICK o \in Outcomes :
            tradeRows' = [tradeRows EXCEPT ![run[r].key] =
                            Appended(@, TradeOf(run[r].plan), o)]
      BY DEF AppendTrades
    <2>2. PICK new : new = Appended(tradeRows[run[r].key], TradeOf(run[r].plan), o)
      OBVIOUS
    <2>3. tradeRows' = [tradeRows EXCEPT ![run[r].key] = new]
      BY <1>1, <1>3, <2>1, <2>2 DEF TypeOK
    <2> QED
      BY <2>3
  <1>6. CASE rows = <<>>
    BY <1>1, <1>2, <1>3, <1>4, <1>5, <1>6, PromiseStutters DEF TypeOK
  <1>7. CASE rows # <<>>
    <2>1. /\ tradeRows'[run[r].key] # <<>>
          /\ \A j \in Keys \ {run[r].key} : tradeRows'[j] = tradeRows[j]
      BY <1>1, <1>3, <1>5, <1>7 DEF TypeOK
    <2> QED
      BY <1>2, <1>3, <1>4, <2>1, PromiseRecords
  <1> QED
    BY <1>6, <1>7

\* The lot write takes the recorded sale out of the lots, or failed.
LEMMA WriteLotsKeeps ==
  ASSUME OrderInv, NEW r \in Runs, WriteLots(r)
  PROVE  Promise!Next \/ UNCHANGED Promise!vars
  <1>1. /\ ShareInv /\ TypeInv /\ TypeOK /\ PlanInPlace /\ OnePlanPerKey
    BY DEF OrderInv, ShareInv, LockInv, PlanInv, TypeInv
  <1>2. run[r].step = "lots" /\ UNCHANGED <<operations, tradeRows, investors>>
    BY DEF WriteLots
  <1>3. /\ run[r].key \in Keys
        /\ operations[run[r].key] # <<>> /\ operations[run[r].key][1] = run[r].plan
    BY <1>1, <1>2, BoundPlan DEF PersistedSteps
  <1>4. /\ soldFor[run[r].key] = 0 /\ tradeRows[run[r].key] # <<>>
        /\ run[r].plan.req.sell \in Nat
    BY WritesOnce
  <1>5. \/ soldFor' = soldFor
        \/ soldFor' = [soldFor EXCEPT ![run[r].key] = @ + run[r].plan.req.sell]
    <2>1. PICK o \in {"ok", "failed", "lost"} :
            IF o = "failed" THEN UNCHANGED <<lotOpen, soldFor>>
            ELSE soldFor' = [soldFor EXCEPT ![run[r].key] = @ + run[r].plan.req.sell]
      BY DEF WriteLots
    <2> QED
      BY <2>1
  <1>6. CASE soldFor' = soldFor
    BY <1>2, <1>6, PromiseStutters
  <1>7. CASE soldFor' = [soldFor EXCEPT ![run[r].key] = @ + run[r].plan.req.sell]
    <2>1. soldFor[run[r].key] + run[r].plan.req.sell = run[r].plan.req.sell
      BY <1>4
    <2>2. soldFor' = [soldFor EXCEPT ![run[r].key] = soldFor[run[r].key] + run[r].plan.req.sell]
      BY <1>1, <1>3, <1>7 DEF TypeOK
    <2>3. soldFor' = [soldFor EXCEPT ![run[r].key] = operations[run[r].key][1].req.sell]
      BY <1>3, <2>1, <2>2
    <2>4. soldFor \in [Keys -> Nat]
      BY <1>1 DEF TypeOK
    <2> QED
      BY <1>2, <1>3, <1>4, <2>3, <2>4, PromiseConsumes
  <1> QED
    BY <1>5, <1>6, <1>7

\* The Investors row burns the plan's units, or nothing was appended.
LEMMA AppendEntryKeeps ==
  ASSUME OrderInv, ~TransportRetries, NEW r \in Runs, AppendEntry(r)
  PROVE  Promise!Next \/ UNCHANGED Promise!vars
  <1>1. TypeInv /\ TypeOK /\ PlanInPlace /\ OnePlanPerKey /\ RowsCurrent /\ StagesInOrder
    BY DEF OrderInv, ShareInv, LockInv, PlanInv, TypeInv
  <1>2. /\ run[r].step = "entry" /\ run[r].rows = <<>>
        /\ UNCHANGED <<operations, tradeRows, soldFor>>
    BY DEF AppendEntry, history
  <1>3. /\ run[r].key \in Keys /\ run[r].plan \in Plan
        /\ operations[run[r].key] # <<>> /\ operations[run[r].key][1] = run[r].plan
    BY <1>1, <1>2, BoundPlan DEF PersistedSteps
  <1>4. soldFor[run[r].key] = run[r].plan.req.sell /\ investors[run[r].key] = <<>>
    BY <1>1, <1>2 DEF StagesInOrder, RowsCurrent, OpenSteps
  <1>5. PICK o \in Outcomes :
          investors' = [investors EXCEPT ![run[r].key] =
                          Appended(@, run[r].plan.entry, o)]
    BY DEF AppendEntry
  <1>6. PICK new : new = Appended(investors[run[r].key], run[r].plan.entry, o)
    OBVIOUS
  <1>7. investors' = [investors EXCEPT ![run[r].key] = new]
    BY <1>1, <1>3, <1>5, <1>6 DEF TypeOK
  <1>8. Copies(o) \in {0, 1}
    BY <1>5 DEF Copies, Outcomes
  <1>9. run[r].plan.entry \in Entry /\ investors[run[r].key] \in Seq(Entry)
    BY <1>1, <1>3 DEF TypeOK, Plan
  <1>10. Len(investors[run[r].key]) = 0
    BY <1>4
  <1>11. /\ new \in Seq(Entry) /\ Len(new) = Copies(o)
         /\ Copies(o) = 1 => new[1] = run[r].plan.entry
    <2>1. PICK n : n = Len(investors[run[r].key])
      OBVIOUS
    <2>2. PICK c \in {0, 1} : c = Copies(o)
      BY <1>8
    <2>3. n = 0
      BY <1>10, <2>1
    <2>4. /\ new \in Seq(Entry) /\ Len(new) = n + Copies(o)
          /\ \A i \in 1 .. (n + Copies(o)) : i > n => new[i] = run[r].plan.entry
      <3>1. PICK old \in Seq(Entry), row \in Entry :
              old = investors[run[r].key] /\ row = run[r].plan.entry
        BY <1>9
      <3>2. /\ new = Appended(old, row, o) /\ Len(old) = n
        BY <1>6, <2>1, <3>1
      <3>3. /\ Appended(old, row, o) \in Seq(Entry)
            /\ Len(Appended(old, row, o)) = Len(old) + Copies(o)
            /\ \A i \in 1 .. (Len(old) + Copies(o)) :
                  i > Len(old) => Appended(old, row, o)[i] = row
        BY AppendedRows
      <3> QED
        BY <3>1, <3>2, <3>3
    <2> QED
      BY <2>2, <2>3, <2>4
  <1>12. CASE Copies(o) = 0
    <2>1. new = <<>>
      BY <1>11, <1>12
    <2>2. investors' = investors
      BY <1>1, <1>3, <1>4, <1>7, <2>1 DEF TypeOK
    <2> QED
      BY <1>2, <2>2, PromiseStutters
  <1>13. CASE Copies(o) = 1
    <2>1. Len(new) = 1 /\ new[1] = run[r].plan.entry
      BY <1>11, <1>13
    <2>2. /\ investors'[run[r].key] = new
          /\ \A j \in Keys \ {run[r].key} : investors'[j] = investors[j]
      BY <1>1, <1>3, <1>7 DEF TypeOK
    <2>3. run[r].plan.entry.units \in Int
      BY <1>9 DEF Entry
    <2>4. PICK k \in Keys : k = run[r].key
      BY <1>3
    <2>5. BurnedFor(k) = 0 /\ BurnedFor(k)' = operations[k][1].entry.units
      <3>1. BurnedFor(k) = 0
        BY <1>4, <2>4 DEF BurnedFor
      <3>2. PICK u \in Int : u = run[r].plan.entry.units
        BY <2>3
      <3>3. Len(new) * new[1].units = u /\ new # <<>>
        <4>1. new # <<>>
          <5>1. Len(new) = 1
            BY <2>1
          <5> QED
            BY <5>1
        <4>2. Len(new) * new[1].units = 1 * u
          BY <2>1, <3>2
        <4>3. 1 * u = u
          OBVIOUS
        <4> QED
          BY <4>1, <4>2, <4>3
      <3>4. BurnedFor(k)' = u
        BY <2>2, <2>4, <3>3 DEF BurnedFor
      <3> QED
        BY <1>3, <2>4, <3>1, <3>2, <3>4
    <2> QED
      BY <1>2, <1>3, <1>4, <2>2, <2>4, <2>5, PromiseBurns
  <1> QED
    BY <1>8, <1>12, <1>13

\* Every other step leaves alone what the promise is about.
LEMMA OthersKeep ==
  ASSUME [Next]_vars,
         \A r \in Runs : ~AppendPlan(r) /\ ~AppendTrades(r) /\ ~WriteLots(r)
                             /\ ~AppendEntry(r)
  PROVE  UNCHANGED Promise!vars
  <1>1. UNCHANGED <<operations, tradeRows, soldFor, investors>>
    <2>1. CASE \E r \in Runs : CommitStep(r)
      BY <2>1 DEF CommitStep, Acquire, BeginReplay, BeginFresh, CheckTrades,
         SkipLots, SkipEntry, Refuse, ShadowWrite, Release, Report, tabs, history
    <2>2. CASE \E r \in Runs, k \in Keys : \E q \in RequestsOf[k] : Preview(r, k, q)
      BY <2>2 DEF Preview, tabs, history
    <2>3. CASE \E r \in Runs : Crash(r)
      BY <2>3 DEF Crash, tabs, history
    <2>4. CASE Environment \/ UNCHANGED vars
      BY <2>4 DEF Environment, LockExpires, PublishNav, BookFill,
         RecordContribution, tabs, history, vars
    <2> QED
      BY <2>1, <2>2, <2>3, <2>4 DEF Next
  <1> QED
    BY <1>1, PromiseStutters

\* The commit sequence implements WithdrawalPromise: through crashes, failed
\* and lost writes, retries of the command and fills booked between them, the
\* one plan of every key is bound, its sale recorded, its shares taken out of
\* the lots and its units burned, each once and in this order
\* (withdrawal-commit-runner.js: the stages of runWithdrawalCommit).
THEOREM KeepsPromiseHolds ==
  ASSUME NEW s, SoleSeller(s), ~LockMayExpire, ~FillsDuringCommit, ~TransportRetries
  PROVE  Spec => KeepsPromise
  <1>1. Init => Promise!Init
    BY DEF Init, Promise!Init
  <1>2. OrderInv /\ [Next]_vars => [Promise!Next]_(Promise!vars)
    <2> SUFFICES ASSUME OrderInv, [Next]_vars
                 PROVE  Promise!Next \/ UNCHANGED Promise!vars
      OBVIOUS
    <2>1. CASE \E r \in Runs : AppendPlan(r)
      BY <2>1, AppendPlanKeeps DEF OrderInv, ShareInv
    <2>2. CASE \E r \in Runs : AppendTrades(r)
      BY <2>2, AppendTradesKeeps
    <2>3. CASE \E r \in Runs : WriteLots(r)
      BY <2>3, WriteLotsKeeps
    <2>4. CASE \E r \in Runs : AppendEntry(r)
      BY <2>4, AppendEntryKeeps
    <2> QED
      BY <2>1, <2>2, <2>3, <2>4, OthersKeep
  <1>3. Init => OrderInv
    BY OrderInvInit
  <1>4. OrderInv /\ [Next]_vars => OrderInv'
    BY OrderInvNext
  <1> QED
    BY <1>1, <1>2, <1>3, <1>4, PTL DEF Spec, KeepsPromise, Promise!Spec

=============================================================================
