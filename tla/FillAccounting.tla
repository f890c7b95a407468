--------------------------- MODULE FillAccounting --------------------------
(***************************************************************************)
(* Booking broker fills and closing the proposals they execute.            *)
(*                                                                         *)
(* Two paths book the same fills under the accounting lock: /record-trade  *)
(* (server.js, scripts/record-trade.js over lib/mcp-accounting.js), which  *)
(* the executor calls for one order of a signed proposal, and the holdings *)
(* sync (jobs/holdings-sync.js over lib/fill-processing.js), which books   *)
(* whatever the broker filled since its cursor.  Both append to the Trade  *)
(* Ledger, then move the tax lots, then either queue a reconciliation or   *)
(* mark the proposal fulfilled; any write may fail, or land although it    *)
(* raises, and the process may die between two of them.                    *)
(*                                                                         *)
(* The proposals are whole records in Redis that expiry, the companion's   *)
(* state reports and fulfilment read, change and write back with no lock.  *)
(*                                                                         *)
(* One ticker; lots in FIFO order; shares are naturals.                    *)
(***************************************************************************)
EXTENDS Integers, Sequences, FiniteSets, Totals

CONSTANTS
    Posts,          \* /record-trade requests and record-trade.js commands
    Sync,           \* the holdings sync; its own lock admits one at a time
    Clients,        \* requests that read a proposal, the companion's included
    Proposals,
    Agents, Unattributed,
    AgentOf,        \* the agent that made each proposal
    Orders,         \* broker orders
    OrderOf,        \* what each order is (see OrderType)
    InitialLots,
    EnforceOwnership,   \* ENFORCE_OWNERSHIP, on by default
    LockMayExpire,      \* may the 5 min TTL run out under a live holder?
    MaxFaults, MaxReports,
    NoOrder, NoProposal, NoOne

Owners  == Agents \cup {Unattributed}
Bookers == Posts \cup {Sync}

\* fits: the fill passes the ticker, price, size and ceiling checks of
\* validateMcpFillInput.  ref: the fill the sync sees names its proposal and
\* is within the matcher's tolerance (matchTradeToApprovedProposal).
OrderType == [prop : Proposals \cup {NoProposal}, side : {"BUY", "SELL"},
              shares : Nat \ {0}, fits : BOOLEAN, ref : BOOLEAN]
Lot       == [owner : Owners, open : Nat]
Statuses  == {"Pending", "Approved", "Rejected", "Expired", "ExecutionFailed"}
Proposal  == [status : Statuses, by : Orders \cup {NoOrder},
              executing : BOOLEAN]
Row       == [order : Orders, prop : Proposals \cup {NoProposal},
              owner : Owners, recon : BOOLEAN]

ASSUME FillConstants ==
    /\ Sync \notin Posts
    /\ IsFiniteSet(Agents) /\ AgentOf \in [Proposals -> Agents]
    /\ IsFiniteSet(Orders) /\ OrderOf \in [Orders -> OrderType]
    /\ InitialLots \in Seq(Lot)
    /\ {EnforceOwnership, LockMayExpire} \subseteq BOOLEAN
    /\ MaxFaults \in Nat /\ MaxReports \in Nat
    /\ Unattributed \notin Agents
    /\ NoOrder \notin Orders /\ NoProposal \notin Proposals
    /\ NoOne \notin Bookers

VARIABLES
    proposals,      \* Redis: the record of each proposal
    trades,         \* Trade Ledger: the rows of each order
    lots,           \* Lots tab
    recon,          \* Redis: orders with a reconciliation record
    reconOpen,      \* Redis: orders in the open reconciliation set
    cursor,         \* orders filled up to pm:last-fill-sync-at
    filled,         \* orders the broker has filled
    aged,           \* Pending proposals whose 48 hours are over
    lock,           \* holder of the accounting workflow lock
    booker,         \* control state of each booking process
    plan,           \* the lots each booking process read and planned
    client,         \* local state of each proposal reader
    faults, reports,    \* counters for the bounds
    effect          \* history: shares each order's lot writes gave each owner

store   == <<proposals, trades, lots, recon, reconOpen, cursor>>
env     == <<filled, aged>>
bounds  == <<faults, reports>>
vars    == <<store, env, lock, booker, plan, client, bounds, effect>>

Steps == {"idle", "fetched", "stamped", "locked", "read", "trades", "newLots",
          "lots", "rows", "openSet", "fulfil", "release", "cursor"}

\* batch: the order of a post, or the fills a sync fetched; stamp: syncedAt;
\* seen: the proposal read last; rows: the trade rows planned; next: the row
\* being closed.
BookerState ==
    [step : Steps, batch : SUBSET Orders, stamp : SUBSET Orders,
     seen : Proposal, rows : Seq(Row), next : Nat \ {0}]

NoProposalRead == [status |-> "Pending", by |-> NoOrder, executing |-> FALSE]

Idle == [step |-> "idle", batch |-> {}, stamp |-> {},
         seen |-> NoProposalRead, rows |-> <<>>, next |-> 1]

\* sheet and after: the lots read under the lock and as planned; moves: what
\* each row's lot writes give each owner.
PlanState == [sheet : Seq(Lot), after : Seq(Lot), moves : Seq([Owners -> Int])]

NoPlan == [sheet |-> <<>>, after |-> <<>>, moves |-> <<>>]

ClientState == [step : {"idle", "expire", "report"},
                prop : Proposals \cup {NoProposal}, seen : Proposal]

IdleClient == [step |-> "idle", prop |-> NoProposal, seen |-> NoProposalRead]

-----------------------------------------------------------------------------
(* Tax lots (lib/tax-lots.js, lib/owned-lots.js)                           *)

\* The lots a sale booked for owner may consume.
Eligible(ls, owner) ==
    {j \in DOMAIN ls : EnforceOwnership /\ owner # Unattributed =>
                          ls[j].owner = owner}

OpenIn(ls, S) == Total([j \in S |-> ls[j].open], S)

\* What a FIFO sale of n shares takes from lot j.
Taken(ls, owner, n, j) ==
    LET before == OpenIn(ls, {i \in Eligible(ls, owner) : i < j})
        left   == IF n > before THEN n - before ELSE 0
    IN  IF j \notin Eligible(ls, owner) THEN 0
        ELSE IF left < ls[j].open THEN left ELSE ls[j].open

Short(ls, o, owner) ==
    /\ OrderOf[o].side = "SELL"
    /\ OpenIn(ls, Eligible(ls, owner)) < OrderOf[o].shares

\* The working lots after order o is booked for owner.
Booked(ls, o, owner) ==
    IF OrderOf[o].side = "BUY"
    THEN Append(ls, [owner |-> owner, open |-> OrderOf[o].shares])
    ELSE IF Short(ls, o, owner) THEN ls
    ELSE [j \in DOMAIN ls |->
            [ls[j] EXCEPT !.open = @ - Taken(ls, owner, OrderOf[o].shares, j)]]

-----------------------------------------------------------------------------
(* Planning a batch (planFillProcessing; applyFillToLots for one fill)     *)

Open(p) == proposals[p].status = "Approved" /\ proposals[p].by = NoOrder

Matches(o) ==
    IF OrderOf[o].ref /\ OrderOf[o].prop # NoProposal /\ Open(OrderOf[o].prop)
    THEN OrderOf[o].prop ELSE NoProposal

\* A proposal can only fulfil one fill of a batch.
Attributed(batch, i) ==
    LET p == Matches(batch[i])
    IN  IF \E j \in 1 .. i - 1 : Matches(batch[j]) = p THEN NoProposal ELSE p

OwnerFor(p) == IF p = NoProposal THEN Unattributed ELSE AgentOf[p]

\* The working lots after each fill of a batch whose proposals are props.
Working(batch, props) ==
    LET w[i \in 0 .. Len(batch)] ==
          IF i = 0 THEN lots
          ELSE Booked(w[i - 1], batch[i], OwnerFor(props[i]))
    IN  w

\* The Trade Ledger rows.  A sale that cannot be covered by its agent's own
\* lots is only recorded.
PlanRows_NoRecon(batch, props) ==                               \* mutation
    [i \in DOMAIN batch |->
        [order |-> batch[i], prop |-> props[i], owner |-> OwnerFor(props[i]),
         recon |-> FALSE]]
PlanRows(batch, props) ==
    [i \in DOMAIN batch |->
        [order |-> batch[i], prop |-> props[i], owner |-> OwnerFor(props[i]),
         recon |-> /\ EnforceOwnership /\ props[i] # NoProposal
                   /\ Short(Working(batch, props)[i - 1], batch[i], OwnerFor(props[i]))]]

\* Shares the lot writes of row i are meant to give each owner.
Moves(w, i) ==
    [a \in Owners |->
        OpenIn(w[i], {j \in DOMAIN w[i] : w[i][j].owner = a})
      - OpenIn(w[i - 1], {j \in DOMAIN w[i - 1] : w[i - 1][j].owner = a})]

\* Booker b plans batch, whose fills are matched to props.
PlanBatch(b, batch, props) ==
    /\ booker' = [booker EXCEPT ![b].step = "trades", ![b].rows = PlanRows(batch, props)]
    /\ LET w == Working(batch, props)
       IN  plan' = [plan EXCEPT ![b] =
               [sheet |-> lots, after |-> w[Len(batch)],
                moves |-> [i \in DOMAIN batch |-> Moves(w, i)]]]
    /\ UNCHANGED lock

-----------------------------------------------------------------------------
(* Writes that may fail, and the ends of a booking                         *)

Outcomes == {"ok", "failed", "lost"}

CountFault(o) ==
    /\ o # "ok" => faults < MaxFaults
    /\ faults' = IF o = "ok" THEN faults ELSE faults + 1

Exit(b) ==
    /\ booker' = [booker EXCEPT ![b] = Idle]
    /\ plan' = [plan EXCEPT ![b] = NoPlan]
    /\ lock' = IF lock = b THEN NoOne ELSE lock

Advance(b, step) ==
    booker' = [booker EXCEPT ![b].step = step] /\ UNCHANGED <<plan, lock>>

Continue(b, o, step) == IF o = "ok" THEN Advance(b, step) ELSE Exit(b)

NextRow(b) ==
    /\ booker' = [booker EXCEPT ![b].step = "rows", ![b].next = @ + 1]
    /\ UNCHANGED <<plan, lock>>

\* An error in closing a row: a post fails, the sync goes on with the next.
FailRow(b) == IF b = Sync THEN NextRow(b) ELSE Exit(b)

-----------------------------------------------------------------------------
Init ==
    /\ proposals = [p \in Proposals |-> NoProposalRead]
    /\ trades = [o \in Orders |-> <<>>]
    /\ lots = InitialLots
    /\ recon = {} /\ reconOpen = {}
    /\ cursor = {} /\ filled = {} /\ aged = {}
    /\ lock = NoOne
    /\ booker = [b \in Bookers |-> Idle] /\ plan = [b \in Bookers |-> NoPlan]
    /\ client = [c \in Clients |-> IdleClient]
    /\ faults = 0 /\ reports = 0
    /\ effect = [o \in Orders |-> [a \in Owners |-> 0]]

-----------------------------------------------------------------------------
(* /record-trade: one order of one proposal                                *)

Posted(b) == CHOOSE o \in booker[b].batch : TRUE
Target(b) == OrderOf[Posted(b)].prop

PostStart_NoLock(b, o) ==                                       \* mutation
    /\ b \in Posts /\ booker[b].step = "idle"
    /\ o \in filled /\ OrderOf[o].prop # NoProposal
    /\ booker' = [booker EXCEPT ![b] = [Idle EXCEPT !.step = "locked", !.batch = {o}]]
    /\ UNCHANGED <<store, env, lock, plan, client, bounds, effect>>
PostStart(b, o) ==
    /\ b \in Posts /\ booker[b].step = "idle" /\ lock = NoOne
    /\ o \in filled /\ OrderOf[o].prop # NoProposal
    /\ lock' = b
    /\ booker' = [booker EXCEPT ![b] = [Idle EXCEPT !.step = "locked", !.batch = {o}]]
    /\ UNCHANGED <<store, env, plan, client, bounds, effect>>

\* getProposalById; the expiry it may write is ClientRead's and ExpireStale's.
ReadProposal(b) ==
    /\ b \in Posts /\ booker[b].step = "locked"
    /\ booker' = [booker EXCEPT ![b].step = "read", ![b].seen = proposals[Target(b)]]
    /\ UNCHANGED <<store, env, lock, plan, client, bounds, effect>>

RecordAgain_Refused(b) ==                                       \* mutation
    /\ b \in Posts /\ booker[b].step = "read" /\ trades[Posted(b)] # <<>>
    /\ Exit(b)
    /\ UNCHANGED <<store, env, client, bounds, effect>>
\* An order the Trade Ledger holds for this proposal is not booked again; the
\* answer does not say whether it needs reconciliation.
RecordAgain(b) ==
    /\ b \in Posts /\ booker[b].step = "read"
    /\ trades[Posted(b)] # <<>> /\ trades[Posted(b)][1].prop = Target(b)
    /\ booker' = [booker EXCEPT ![b].step = "rows",
                     ![b].rows = <<[trades[Posted(b)][1] EXCEPT !.recon = FALSE]>>]
    /\ UNCHANGED <<store, env, lock, plan, client, bounds, effect>>

FillAccepted(b) ==
    /\ trades[Posted(b)] = <<>>
    /\ booker[b].seen.status = "Approved" /\ booker[b].seen.by = NoOrder
    /\ OrderOf[Posted(b)].fits
    /\ EnforceOwnership \/ ~Short(lots, Posted(b), OwnerFor(Target(b)))

RecordFill(b) ==
    /\ b \in Posts /\ booker[b].step = "read"
    /\ FillAccepted(b)
    /\ PlanBatch(b, <<Posted(b)>>, <<Target(b)>>)
    /\ UNCHANGED <<store, env, client, bounds, effect>>

RefuseFill(b) ==
    /\ b \in Posts /\ booker[b].step = "read"
    /\ IF trades[Posted(b)] # <<>> THEN trades[Posted(b)][1].prop # Target(b)
                                   ELSE ~FillAccepted(b)
    /\ Exit(b)
    /\ UNCHANGED <<store, env, client, bounds, effect>>

-----------------------------------------------------------------------------
(* The holdings sync: every fill since the cursor                          *)

\* The broker's filled orders since the cursor; an order query that fails on
\* the way (fillsError) leaves what it had collected.
SyncFetch ==
    /\ booker[Sync].step = "idle"
    /\ \E got \in SUBSET (filled \ cursor) :
        /\ CountFault(IF got = filled \ cursor THEN "ok" ELSE "failed")
        /\ booker' = [booker EXCEPT ![Sync] = [Idle EXCEPT !.step = "fetched", !.batch = got]]
    /\ UNCHANGED <<store, env, lock, plan, client, reports, effect>>

\* syncedAt is taken after the orders were read.
SyncStamp ==
    /\ booker[Sync].step = "fetched"
    /\ booker' = [booker EXCEPT ![Sync].step = "stamped", ![Sync].stamp = filled]
    /\ UNCHANGED <<store, env, lock, plan, client, bounds, effect>>

SyncLock ==
    /\ booker[Sync].step = "stamped"
    /\ IF booker[Sync].batch = {} THEN Advance(Sync, "cursor")
       ELSE IF lock = NoOne
       THEN /\ lock' = Sync
            /\ booker' = [booker EXCEPT ![Sync].step = "locked"]
            /\ UNCHANGED plan
       ELSE Exit(Sync)
    /\ UNCHANGED <<store, env, client, bounds, effect>>

Unbooked_All(batch) == batch                                    \* mutation
Unbooked(batch) == {o \in batch : trades[o] = <<>>}

Orderings(S) ==
    {f \in [1 .. Cardinality(S) -> S] : \A i, j \in DOMAIN f : f[i] = f[j] => i = j}

\* The broker lists the orders in any order.
SyncPlan ==
    /\ booker[Sync].step = "locked"
    /\ LET fresh == Unbooked(booker[Sync].batch)
       IN  IF fresh = {} THEN Advance(Sync, "release")
           ELSE \E batch \in Orderings(fresh) :
                   PlanBatch(Sync, batch, [i \in DOMAIN batch |-> Attributed(batch, i)])
    /\ UNCHANGED <<store, env, client, bounds, effect>>

-----------------------------------------------------------------------------
(* The writes, in the same order on both paths                             *)

\* The rows b planned for order o: a batch has at most one.
RowsOf(b, o) ==
    IF \E i \in DOMAIN booker[b].rows : booker[b].rows[i].order = o
    THEN <<booker[b].rows[CHOOSE i \in DOMAIN booker[b].rows : booker[b].rows[i].order = o]>>
    ELSE <<>>

AppendTrades_ErrorSwallowed(b) ==                               \* mutation
    /\ booker[b].step = "trades"
    /\ \E o \in Outcomes :
        /\ CountFault(o)
        /\ trades' = IF o = "failed" THEN trades
                     ELSE [x \in Orders |-> trades[x] \o RowsOf(b, x)]
        /\ Advance(b, "newLots")
    /\ UNCHANGED <<proposals, lots, recon, reconOpen, cursor, env, client,
                   reports, effect>>
AppendTrades(b) ==
    /\ booker[b].step = "trades"
    /\ \E o \in Outcomes :
        /\ CountFault(o)
        /\ trades' = IF o = "failed" THEN trades
                     ELSE [x \in Orders |-> trades[x] \o RowsOf(b, x)]
        /\ Continue(b, o, "newLots")
    /\ UNCHANGED <<proposals, lots, recon, reconOpen, cursor, env, client,
                   reports, effect>>

\* The lots the purchases of a batch open, in order.
Bought(b) ==
    LET rows == booker[b].rows
        opened[i \in 0 .. Len(rows)] ==
          IF i = 0 THEN <<>>
          ELSE IF OrderOf[rows[i].order].side = "BUY"
          THEN Append(opened[i - 1], [owner |-> rows[i].owner,
                                      open  |-> OrderOf[rows[i].order].shares])
          ELSE opened[i - 1]
    IN  opened[Len(rows)]

\* The effect history after the lots of the rows of one side were written.
Effected(b, side) ==
    [x \in Orders |->
        IF RowsOf(b, x) # <<>> /\ OrderOf[x].side = side
        THEN LET i == CHOOSE i \in DOMAIN booker[b].rows : booker[b].rows[i].order = x
             IN  [a \in Owners |-> effect[x][a] + plan[b].moves[i][a]]
        ELSE effect[x]]

AppendLots(b) ==
    /\ booker[b].step = "newLots"
    /\ \E o \in Outcomes :
        /\ Bought(b) = <<>> => o = "ok"
        /\ CountFault(o)
        /\ IF o = "failed" THEN UNCHANGED <<lots, effect>>
           ELSE /\ lots' = lots \o Bought(b)
                /\ effect' = Effected(b, "BUY")
        /\ Continue(b, o, "lots")
    /\ UNCHANGED <<proposals, trades, recon, reconOpen, cursor, env, client,
                   reports>>

\* Absolute values for the rows that were in the Sheet; a lot the same batch
\* opened has no row index yet and its update is dropped.
Updated(b) == {j \in DOMAIN plan[b].sheet : plan[b].after[j] # plan[b].sheet[j]}

UpdateLots(b) ==
    /\ booker[b].step = "lots"
    /\ \E o \in Outcomes :
        /\ Updated(b) = {} => o = "ok"
        /\ CountFault(o)
        /\ IF o = "failed" THEN UNCHANGED <<lots, effect>>
           ELSE /\ lots' = [j \in DOMAIN lots |->
                     IF j \in Updated(b) THEN plan[b].after[j] ELSE lots[j]]
                /\ effect' = Effected(b, "SELL")
        /\ Continue(b, o, "rows")
    /\ UNCHANGED <<proposals, trades, recon, reconOpen, cursor, env, client,
                   reports>>

-----------------------------------------------------------------------------
(* Closing each row: a reconciliation record, or the proposal fulfilled    *)

ThisRow(b) == booker[b].rows[booker[b].next]

AtRow(b, step) ==
    booker[b].step = step /\ booker[b].next <= Len(booker[b].rows)

EndRows(b) ==
    /\ booker[b].step = "rows" /\ booker[b].next > Len(booker[b].rows)
    /\ Advance(b, "release")
    /\ UNCHANGED <<store, env, client, bounds, effect>>

\* recordReconciliationNeeded: the record, then the open set.
QueueRecon(b) ==
    /\ AtRow(b, "rows") /\ ThisRow(b).recon
    /\ \E o \in Outcomes :
        /\ CountFault(o)
        /\ recon' = IF o = "failed" THEN recon ELSE recon \cup {ThisRow(b).order}
        /\ IF o = "ok" THEN Advance(b, "openSet") ELSE FailRow(b)
    /\ UNCHANGED <<proposals, trades, lots, reconOpen, cursor, env, client,
                   reports, effect>>

OpenRecon(b) ==
    /\ AtRow(b, "openSet")
    /\ \E o \in Outcomes :
        /\ CountFault(o)
        /\ reconOpen' = IF o = "failed" THEN reconOpen
                        ELSE reconOpen \cup {ThisRow(b).order}
        /\ IF o = "ok" THEN NextRow(b) ELSE FailRow(b)
    /\ UNCHANGED <<proposals, trades, lots, recon, cursor, env, client,
                   reports, effect>>

SkipRow(b) ==
    /\ AtRow(b, "rows") /\ ~ThisRow(b).recon /\ ThisRow(b).prop = NoProposal
    /\ NextRow(b)
    /\ UNCHANGED <<store, env, client, bounds, effect>>

CanFulfil_AnyOrder(p, o) == p.status = "Approved"               \* mutation
CanFulfil(p, o) == p.status = "Approved" /\ p.by \in {NoOrder, o}

\* markProposalFulfilled reads the record, checks it, and writes it back.
ReadToFulfil(b) ==
    /\ AtRow(b, "rows") /\ ~ThisRow(b).recon /\ ThisRow(b).prop # NoProposal
    /\ LET p == proposals[ThisRow(b).prop]
       IN  IF CanFulfil(p, ThisRow(b).order)
           THEN /\ booker' = [booker EXCEPT ![b].step = "fulfil", ![b].seen = p]
                /\ UNCHANGED <<plan, lock>>
           ELSE FailRow(b)
    /\ UNCHANGED <<store, env, client, bounds, effect>>

WriteFulfilled(b) ==
    /\ AtRow(b, "fulfil")
    /\ \E o \in Outcomes :
        /\ CountFault(o)
        /\ proposals' = IF o = "failed" THEN proposals
              ELSE [proposals EXCEPT ![ThisRow(b).prop] =
                      [booker[b].seen EXCEPT !.by = ThisRow(b).order, !.executing = FALSE]]
        /\ IF o = "ok" THEN NextRow(b) ELSE FailRow(b)
    /\ UNCHANGED <<trades, lots, recon, reconOpen, cursor, env, client,
                   reports, effect>>

Release(b) ==
    /\ booker[b].step = "release"
    /\ IF b = Sync
       THEN /\ lock' = IF lock = b THEN NoOne ELSE lock
            /\ booker' = [booker EXCEPT ![b].step = "cursor"]
            /\ UNCHANGED plan
       ELSE Exit(b)
    /\ UNCHANGED <<store, env, client, bounds, effect>>

\* setLastFillSyncAt swallows its errors.
SyncCursor ==
    /\ booker[Sync].step = "cursor"
    /\ cursor' \in {cursor, booker[Sync].stamp}
    /\ booker' = [booker EXCEPT ![Sync] = Idle]
    /\ plan' = [plan EXCEPT ![Sync] = NoPlan]
    /\ UNCHANGED <<proposals, trades, lots, recon, reconOpen, env, lock,
                   client, bounds, effect>>

Crash(b) ==
    /\ booker[b].step # "idle" /\ faults < MaxFaults
    /\ faults' = faults + 1
    /\ booker' = [booker EXCEPT ![b] = Idle]
    /\ plan' = [plan EXCEPT ![b] = NoPlan]
    /\ UNCHANGED <<store, env, lock, client, reports, effect>>

InBooking(b) == booker[b].step \notin {"idle", "fetched", "stamped", "cursor"}

LockExpires ==
    /\ lock # NoOne /\ (LockMayExpire \/ ~InBooking(lock))
    /\ lock' = NoOne
    /\ UNCHANGED <<store, env, booker, plan, client, bounds, effect>>

-----------------------------------------------------------------------------
(* Everyone else who writes a proposal record                              *)

ClientRead_Ageless(c, p) ==                                     \* mutation
    /\ client[c].step = "idle" /\ proposals[p].status = "Pending"
    /\ client' = [client EXCEPT ![c] =
          [step |-> "expire", prop |-> p, seen |-> proposals[p]]]
    /\ UNCHANGED <<store, env, lock, booker, plan, bounds, effect>>
\* A reader (getProposalById, listAllProposals) takes a Pending proposal for
\* expired, or the companion's report finds an approved, unfulfilled one.
ClientRead(c, p) ==
    /\ client[c].step = "idle"
    /\ \/ /\ proposals[p].status = "Pending" /\ p \in aged
          /\ client' = [client EXCEPT ![c] =
                [step |-> "expire", prop |-> p, seen |-> proposals[p]]]
       \/ /\ Open(p) /\ reports < MaxReports
          /\ client' = [client EXCEPT ![c] =
                [step |-> "report", prop |-> p, seen |-> proposals[p]]]
    /\ UNCHANGED <<store, env, lock, booker, plan, bounds, effect>>

\* Both write back the whole record they read.
ExpireStale(c) ==
    /\ client[c].step = "expire"
    /\ proposals' \in {proposals, [proposals EXCEPT ![client[c].prop] =
                                     [client[c].seen EXCEPT !.status = "Expired"]]}
    /\ client' = [client EXCEPT ![c] = IdleClient]
    /\ UNCHANGED <<trades, lots, recon, reconOpen, cursor, env, lock, booker, plan,
                   bounds, effect>>

ReportState(c) ==
    /\ client[c].step = "report"
    /\ \E patch \in {[client[c].seen EXCEPT !.executing = TRUE],
                     [client[c].seen EXCEPT !.status = "ExecutionFailed"]} :
          proposals' = [proposals EXCEPT ![client[c].prop] = patch]
    /\ client' = [client EXCEPT ![c] = IdleClient]
    /\ reports' = reports + 1
    /\ UNCHANGED <<trades, lots, recon, reconOpen, cursor, env, lock, booker, plan,
                   faults, effect>>

\* The dashboard decides a pending proposal that has not expired.
Decide(p) ==
    /\ proposals[p].status = "Pending" /\ p \notin aged
    /\ \E d \in {"Approved", "Rejected"} :
          proposals' = [proposals EXCEPT ![p].status = d]
    /\ UNCHANGED <<trades, lots, recon, reconOpen, cursor, env, lock, booker, plan,
                   client, bounds, effect>>

Ages(p) ==
    /\ proposals[p].status = "Pending" /\ p \notin aged
    /\ aged' = aged \cup {p}
    /\ UNCHANGED <<store, filled, lock, booker, plan, client, bounds, effect>>

\* The broker fills an order of an approved proposal, or a manual one.
BrokerFills(o) ==
    /\ o \notin filled
    /\ OrderOf[o].prop # NoProposal => Open(OrderOf[o].prop)
    /\ filled' = filled \cup {o}
    /\ UNCHANGED <<store, aged, lock, booker, plan, client, bounds, effect>>

-----------------------------------------------------------------------------
PostStep(b) == ReadProposal(b) \/ RecordAgain(b) \/ RecordFill(b) \/ RefuseFill(b)

SyncStep == SyncStamp \/ SyncLock \/ SyncPlan \/ SyncCursor

WriteStep(b) ==
    \/ AppendTrades(b) \/ AppendLots(b) \/ UpdateLots(b)
    \/ EndRows(b) \/ QueueRecon(b) \/ OpenRecon(b) \/ SkipRow(b)
    \/ ReadToFulfil(b) \/ WriteFulfilled(b) \/ Release(b)

Next ==
    \/ \E b \in Posts : (\E o \in Orders : PostStart(b, o)) \/ PostStep(b)
    \/ SyncFetch \/ SyncStep
    \/ \E b \in Bookers : WriteStep(b) \/ Crash(b)
    \/ LockExpires
    \/ \E c \in Clients : (\E p \in Proposals : ClientRead(c, p))
                          \/ ExpireStale(c) \/ ReportState(c)
    \/ \E p \in Proposals : Decide(p) \/ Ages(p)
    \/ \E o \in Orders : BrokerFills(o)

Spec == Init /\ [][Next]_vars

-----------------------------------------------------------------------------
(* Properties                                                              *)

TypeOK ==
    /\ proposals \in [Proposals -> Proposal]
    /\ trades \in [Orders -> Seq(Row)]
    /\ lots \in Seq(Lot)
    /\ recon \subseteq Orders /\ reconOpen \subseteq Orders
    /\ cursor \subseteq Orders /\ filled \subseteq Orders /\ aged \subseteq Proposals
    /\ lock \in Bookers \cup {NoOne}
    /\ booker \in [Bookers -> BookerState] /\ plan \in [Bookers -> PlanState]
    /\ client \in [Clients -> ClientState]
    /\ faults \in 0 .. MaxFaults /\ reports \in Nat
    /\ effect \in [Orders -> [Owners -> Int]]

\* Whatever fails or is lost and whichever path sees a fill first, no broker
\* order has two Trade Ledger rows.
OrderBookedOnce == \A o \in Orders : Len(trades[o]) <= 1

\* A proposal marked fulfilled by an order has that order in the Trade Ledger
\* under its name (holdings-sync.js: the reverse order "could leave a proposal
\* "fulfilled" with no ledger row").
FulfilledIsBooked ==
    \A p \in Proposals : \A o \in Orders : proposals[p].by = o =>
        \E i \in DOMAIN trades[o] : trades[o][i].prop = p

\* Shares the lot writes of an order gave each owner, or took in a sale.
Moved(o) == [a \in Owners |-> IF OrderOf[o].side = "BUY" THEN effect[o][a] ELSE -effect[o][a]]

\* The lots move once for an order, all one way, by exactly its shares, and
\* only for an order the Trade Ledger holds.
LotsFollowTrades ==
    \A o \in Orders :
        /\ \A a \in Owners : Moved(o)[a] \in Nat
        /\ Total(Moved(o), Owners) \in {0, OrderOf[o].shares}
        /\ Total(Moved(o), Owners) # 0 => trades[o] # <<>>

SharesOf(ls, a) == OpenIn(ls, {j \in DOMAIN ls : ls[j].owner = a})

\* Shares of owner a that the orders S moved.
MovedFor(a, S) == Total([o \in S |-> Moved(o)[a]], S)

Purchases == {o \in Orders : OrderOf[o].side = "BUY"}
Sales     == {o \in Orders : OrderOf[o].side = "SELL"}

\* Every owner's open lots are what they were at the start, with what the lot
\* writes of the booked orders gave and took: no write undoes another.
LotsBalance ==
    \A a \in Owners :
        SharesOf(lots, a) + MovedFor(a, Sales) = SharesOf(InitialLots, a) + MovedFor(a, Purchases)

\* Booking a sale of a strategy takes nothing from another strategy's lots
\* when its fill names the proposal.
NamedSaleTakesOwnLots ==
    \A o \in Orders : OrderOf[o].prop # NoProposal /\ trades[o] # <<>> =>
        \A a \in Owners \ {AgentOf[OrderOf[o].prop]} :
            trades[o][1].prop # NoProposal => effect[o][a] = 0

\* The Lots tab agrees with the Trade Ledger, order by order and owner by
\* owner, whichever path booked what (applyFillToLots, fill-processing.js).
LotsAgree == LotsFollowTrades /\ LotsBalance /\ NamedSaleTakesOwnLots

\* The lots a batch opens are still as it opened them when it is worked through:
\* none of its own sales takes from them.
KeepsNewLots ==
    \A b \in Bookers : booker[b].step \in {"trades", "newLots", "lots"} =>
        SubSeq(plan[b].after, Len(plan[b].sheet) + 1, Len(plan[b].after)) = Bought(b)

AllIdle == \A b \in Bookers : ~InBooking(b)

\* When nothing failed, an agent's sale whose lots were not moved is in the
\* open reconciliation set by the time its booking ends.
UnmovedIsQueued ==
    AllIdle /\ faults = 0 =>
        \A o \in Orders : trades[o] # <<>> /\ trades[o][1].prop # NoProposal =>
            (\E a \in Owners : effect[o][a] # 0) \/ o \in recon \cap reconOpen

\* An order has closed the proposal, and no report of the companion is still to
\* write back the proposal as it was before.
Settled(p, o) ==
    /\ proposals[p].by = o
    /\ \A c \in Clients : client[c].step = "report" => client[c].prop # p

\* A proposal an order closed stays closed by that order for good, unless a
\* companion report read it before (/companion/proposal-state writes back the
\* whole record it read, and so reopens the proposal to any order of it):
\* neither a booking nor an expiry, which write back what they read too, nor a
\* report made afterwards undoes it.
ClosedStaysClosed ==
    [][\A p \in Proposals : \A o \in Orders : Settled(p, o) => Settled(p, o)']_vars

\* "Decided/fulfilled proposals never expire" (redis.js), although expiry
\* writes back a record it read earlier and takes no lock.
DecidedNeverExpires ==
    [][\A p \in Proposals : proposals[p].status \in {"Approved", "Rejected"} =>
          proposals'[p].status # "Expired"]_vars

-----------------------------------------------------------------------------
(* What the repository says and the code does not do                       *)

\* server.js: when the lot ledger could not be reconciled, "the proposal stays
\* open until repaired".
OpenUntilRepaired ==
    \A o \in reconOpen : OrderOf[o].prop # NoProposal =>
        proposals[OrderOf[o].prop].by # o

-----------------------------------------------------------------------------
(* Liveness: the executor repeats /record-trade until the proposal closes  *)

RetryPost(o) ==
    /\ OrderOf[o].prop # NoProposal /\ Open(OrderOf[o].prop)
    /\ \E b \in Posts : PostStart(b, o)

Fairness ==
    /\ \A b \in Posts : WF_vars(PostStep(b) \/ WriteStep(b))
    /\ WF_vars(SyncStep \/ WriteStep(Sync))
    /\ WF_vars(LockExpires)
    /\ \A o \in Orders : SF_vars(RetryPost(o))

FairSpec == Spec /\ Fairness

\* A filled order of an approved proposal that the executor keeps posting ends
\* up fulfilling it, whatever write failed on the way, unless the proposal
\* stopped being approved or the sync booked the order for nobody.
PostedIsFulfilled ==
    \A o \in Orders : OrderOf[o].prop # NoProposal /\ OrderOf[o].fits =>
        (o \in filled ~>
            \/ ~Open(OrderOf[o].prop)
            \/ trades[o] # <<>> /\ trades[o][1].prop = NoProposal)
=============================================================================
