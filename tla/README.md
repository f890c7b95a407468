# Formal models of portfolio-manager

TLA+ modules, TLC configurations and TLAPS proofs for the parts of
portfolio-manager that decide, move and account for money, and for the parts
that watch over them. Every definition is translated from the source;
`PROJECT.json` ("map") names the lines each one stands for.

## 1. Inventory

The backend is one Node.js process for the cron jobs (`scheduler.js`), one for
the HTTP endpoints (`server.js`) and a set of operator commands (`scripts/`).
Three programs outside this repository act on the same stores: the dashboard
(signs and approves proposals), the executor companion (places approved orders,
reports fills) and the broker reader (drains read-only snapshot requests).
The stores are a Google Sheet (Trade Ledger, Lots, Investors, Withdrawal
Operations, Performance, Holdings), Upstash Redis (proposals, locks, queues,
flags, budgets, receipts, observations) and Postgres (a shadow of the Sheet that
is never read back for a decision, and the durable research history). No
transaction spans two of them, and none spans two writes of the first two.

| Part | State it keeps | Operations | What is hard about it | What must hold |
|---|---|---|---|---|
| Investor withdrawals (`scripts/process-withdrawal.js`, `lib/withdrawal-*.js`) | four tabs of the Sheet, the `capital-ledger` lock | preview, commit, replay | five writes without a transaction, retried by hand, appends that land twice | one plan per key, persisted first; every stage once and in order |
| Contributions (`scripts/record-contribution.js`, `lib/contribution-nav.js`) | Investors tab | record | a NAV written under another lock, redelivered requests | never more credited than the broker received |
| Fill accounting (`lib/mcp-accounting.js`, `jobs/holdings-sync.js`, `lib/fill-processing.js`, `scripts/record-trade.js`) | Trade Ledger, Lots, open reconciliations | record one fill, process a batch | two paths book the same fill; crash between the trade row and the lots | each broker order booked once, lots equal to the booked trades |
| Lot reconciliation (`lib/lot-reconciliation.js`, `scripts/close-broker-zero-lot.js`) | `pm:lot-reconciliation:*`, Lots | plan, attempt, apply, resolve, attest | crash between the receipt, the Sheet and the flag | what was taken out of a lot is on a signed record |
| Proposal queue (`lib/redis.js`, `server.js`, `contracts/proposal.js`) | `pm:proposals*` | create, expire, approve, execute, fulfil | read-modify-write of one record by five actors without a lock | no approval undone, and a fulfilment only by a report that read the proposal before it |
| Broker read queue (`jobs/mcp-read-requests.js`) | one queue per job kind | request, claim, complete, retry, fail | a reader that dies between its row and its receipt, a request asked or delivered twice | a slot of a day has one request and at most one Performance row |
| Workflow locks (`lib/workflow-lock.js`) | `pm:workflow-lock:*` | acquire, release | TTL under a slow holder | owner-only release |
| Model spend (`lib/anthropic-monthly-budget.js`, `lib/ai-budget.js`) | reservations and totals per month | authorize, settle, poison | concurrent calls reserve, crash before they settle | never above the cap |
| Research run (`jobs/research-scan.js`, `lib/research-*.js`, `lib/circuit-breaker.js`) | status, history and candidate bus in Redis, the high-water mark | start, agents one by one, terminal status, repair, recompute | interruption, a restarted scheduler, a lock that runs out | one terminal record per run; green means clean; the mark only rises |
| Decision chain (`lib/ai-overlay.js`, `lib/evaluator.js`, `lib/risk-engine.js`, `lib/mandate-*.js`, `lib/proposal-sizing.js`) | none beyond the run's cash and open proposals | score, ask, gate, revise, size, queue | order of the gates, a revision that skips some, lost evidence | gates only downgrade, sizes respect every cap |
| Scheduler (`scheduler.js`, `lib/job-invocation-history.js`, `lib/job-receipt.js`) | job receipts | wrap a job, repair an interrupted scan | restart in the middle of a job | the receipt of a slot is that of its attempts |
| Phase 0 observer (`jobs/phase0-observer.js`, `lib/phase0-observer.js`) | a record per day in an archive and in Redis, their index | gather, judge, publish, index, send | two observers, a failure between any two calls, expiry | a day's record never changes, a clean day is earned |
| Monitoring (`lib/sysloop/*`, `jobs/system-sentinel.js`, `scripts/sysloop-*.mjs`, `scripts/restart-with-pm2-deploy-marker.js`) | snapshots, findings, deploy markers, leases | check, page, triage, report, deploy | unread sources, a deploy in the middle of an observation | trouble is visible and paged, a marker means work |
| Research history (`jobs/research-data-refresh.js`, `jobs/mandate-scoring.js`, `lib/pg/research-*.js`) | observations, events, slates, run records | refresh, commit, publish | overlapping refreshes, a commit whose reply is lost | what is published is committed, history is one line |
| NAV and Performance (`lib/portfolio-snapshot.js`, `lib/investor-ledger.js`) | Performance tab | append a signed snapshot | a late or repeated request | one row per request, of its day |
| Postgres shadow (`lib/pg/dual-write.js`, `lib/pg/parity*.js`) | shadow tables | copy, compare | best effort, out of order; a comparison that drops what it cannot read and expires what it reads | a verdict is true of what was read and stood still |
| Order reconciliation, position monitors, evidence and market data, reports | none of their own | compare, fetch, render | third-party I/O | not modelled, see 5 |

How they interact: research queues proposals, paying for its questions out of
the model budget; the dashboard approves them; the companion executes them and
posts fills to `server.js`; fills move the lots and close the proposal;
withdrawals sell out of the same lots under a different lock; every NAV that
prices a contribution or withdrawal comes from the Performance row that the
holdings sync signs after a broker snapshot, and the same rows feed the drawdown
breaker of the next research run. The scheduler leaves a receipt for each job,
the sentinel reads receipts and stores, the observer judges the day by both.

`PROJECT.json` ("hazards") lists, line by line, what in this code is hard to
test; the properties below were chosen against that list.

## 2. Modules

| Module | Models |
|---|---|
| `WithdrawalPromise` | what a withdrawal promises: a key bound to one plan, then sale, lots, units, each once and in order (abstract specification) |
| `WithdrawalCommit` | `scripts/process-withdrawal.js` around `lib/withdrawal-commit-runner.js`, with the four tabs, the lock, retries and crashes; implements `WithdrawalPromise` |
| `FillAccounting` | `/record-trade` and `record-trade.js` over `lib/mcp-accounting.js`, the fill half of `jobs/holdings-sync.js`, the life of a proposal record in `lib/redis.js` |
| `AnthropicBudget` | `lib/anthropic-monthly-budget.js` (three Lua scripts) and `lib/ai-budget.js` with the order in which the callers use them |
| `CapitalNav` | from a holdings request to a signed NAV row to the units of a contribution |
| `CircuitBreaker` | the drawdown basis, the ratchet of the high-water mark and the tiers, as operators |
| `ResearchRun` | scans and Lab requests: lock, breaker, agents, terminal record, receipt, repair; extends `CircuitBreaker` |
| `ResearchSlate` | how one agent narrows the universe to the names it reviews |
| `ReviewChain` | one review from the data gate to the queued proposal |
| `MandateScore`, `MandatePolicy` | the conviction score, and what a mandate may do given typed, dated evidence |
| `SafetyVerdict`, `SafetyDay` | the verdict over a day's evidence, and the receipts, requests, scans and observers it comes from |
| `SentinelChecks` | every check of `lib/sysloop`, and what becomes of a source that cannot be read |
| `RestartTrust`, `FindingsLoop` | the deploy marker and the sentinel's trust in restarts; the life of a finding from anomaly to report; both extend `SentinelChecks` |
| `SystemLoop` | the two and the checks as one system, over any state of the stores |
| `LotClosure` | closing a lot by hand, resolving a mismatch, attesting a legacy approval |
| `ResearchHistory` | the durable history two refreshes write |
| `ShadowParity` | the Postgres copies and the daily comparison |
| `Totals` | a sum of amounts as a set of units, on which the library's theorems about finite sets apply |
| `MC*` | the small instances TLC checks; `MCDecisions`, `MCRecords`, `MCResearch`, `MCOperations` put parts that share no state side by side in one run, a behaviour moving one part |
| `TotalsProofs`, `WithdrawalProofs`, `FillProofs`, `BudgetProofs`, `RecordProofs`, `ResearchRunProofs`, `OperationsProofs`, `ReviewProofs` | the theorems |

### WithdrawalCommit

`operations`, `tradeRows`, `lotOpen`, `investors`/`held` are the four
tabs, a sequence of rows per idempotency key where a tab may hold duplicates;
`lock` is `pm:workflow-lock:capital-ledger`; `run[r]` is one invocation of the
command, with the plan it computed, the rows it read and where it stands
(`step`). `nav` is the last signed close. `soldFor`, `reported`, `warned` are
history variables: the code does not keep them.

An invocation previews (`Preview`, the dry-run half of `process-withdrawal.js`),
takes the lock, re-reads every tab, then writes plan, trade row, lots, investor
row, shadow and report; each write is one action with an outcome: done, done
but reported as failed, not done, and (where `TransportRetries`) done twice.
Every action takes the guard of its stage in the runner: the stage is skipped
when its row is there, refused when there is more than one, and the lots are
either at the plan's before-state (write), at its after-state (skip) or
somewhere else (refuse). A lock whose release fails is left to its TTL (`Release`).

### FillAccounting

The Trade Ledger (`trades`), the `lots` in FIFO order, the
reconciliation records and their open set (`recon`, `reconOpen`), the
`proposals` as whole records, the `accounting` `lock`, the sync's `cursor`, one
record of local state per booker (each `/record-trade` request and the sync) and
per client that reads proposals. `/record-trade` is
`PostStart`, `ReadProposal`, then `RecordFill`, `RecordAgain` or `RefuseFill`,
and the shared write steps; the sync is `SyncFetch`, `SyncStamp`, `SyncLock`,
`SyncPlan`, the same write steps for a whole batch, `SyncCursor`. A read and
the later write of a proposal record are two actions because the code awaits
between them and has neither lock nor compare-and-set there.

`ref` of an order says that its fill names the proposal. `lib/fill-processing.js`
accepts a `refId`; `lib/robinhood-sync.py`, the producer in this repository,
never sets one, so `ref = TRUE` exercises what the code accepts and
`ref = FALSE` what it is given today.

### AnthropicBudget

Per UTC month the ledger hash with its leases (`ledger`) and the sum of
the usage rows (`usage`); per process the run ledger and the cached report
(`run`); `call[c]` is what lies behind a reservation id: its month, pool,
reservation and what the provider may bill for it, which no code can read before
the answer. A call is `Begin` (the run ledger), `LoadReport`, `Authorize`
(`AUTHORIZE_SCRIPT`), the provider's answer (`Priced`, `Unpriced`, `Unreadable`,
`Rejected`, `Ambiguous`), `Record`, `Settle` (`SETTLE_SCRIPT`), and on a lost
row or an overshoot `Poison`. Amounts are micro-dollars.

### CapitalNav

`capital` is what the broker holds at cost, `arrived` the day each deposit came;
`sheet` the Holdings tab, `perf` the Performance rows, `request` the close
request of a day, `proc` the drain processes under `lock`, `ledger` the Investors
rows and `operator` the one who records. A row stands for its NAV by what went
into it: the deposits the reading held and those whose units were counted.
`Enqueue` is the scheduler's 16:30 request; `DrainStep` walks a drain through
broker read, Holdings write, the once-only guard and the append;
`RecordContribution` prices an entry on the last close before it and tests the
capital not yet attributed; `AppendEntry` writes it. `Deposit`, `Sale`,
`DayTurns`, `LockEnds` are the environment.

### ResearchRun, CircuitBreaker, ResearchSlate

`run[r]` is a scheduled, HTTP or command line scan or a Lab request; `lock` the
research lock, `latest`/`marker`/`history` the published status, the terminal
record and the history, `receipt` and `lab` what the callers keep, `rows`,
`stored`, `tier` the breaker's inputs and output. `Step` takes a run through
lock, breaker, agents and settlement, one action between two awaits, but for the
breaker's writes (mark, tier, mark again with an alert), which are one of whose parts
each may fail and be swallowed (`Assess`); `Kill`,
`Crash`, `LockExpires`, `LabExpires` interrupt; `Recover` is a restarted
scheduler's repair; `RecomputeRead`/`RecomputeApply` the operator's
`breaker:recompute`, which takes no lock; `AddRow`, `DeleteRow` the Sheet.

`ResearchSlate` narrows one `case` (an agent on a day) in `ReadOwned`,
`ChooseUniverse`, `FreshScreen`, `SelectReviews`, each a pure pipeline of the code.
`pick` keeps the names in the order the code has them: the movers, the rotation and
the scored candidates compete for the slots in that order.

### ReviewChain, MandateScore, MandatePolicy

One run's facts (`ctx`), its `cash` and `open` proposals, the `review` in
progress, and what it `queued`. `Take` starts a review, `DataGate` may end it;
`Consult` is a call of the generator, with `PolicyRetry` and `AnswerRefused` for
answers that break a rule; `PassGates` the deterministic gates and clamps in
their order; `Evaluate`, `Revise`, `EvaluateAgain` the evaluator and its one
revision; `NotQueued`, `QueueFails`, `Queue` the sizing and the queue;
`CallFails` a model that does not answer. Weights are percentages of an account
worth 100.

`MandatePolicy` has one action per way its inputs change: `Observe` (an evidence
record becomes another reading, stale, untyped, absent, out of order), `Rescore`,
`Reclassify`, `LoseScore`; `ProposedAddId` is the addition being judged (no caller in
the repository passes one but the tests); the verdicts on entry, size, addition and holding are
operators over the state.

### SafetyVerdict, SafetyDay

`history` and `lastRun` hold the receipts of the jobs, `queue` the broker requests
and `marker` their invocations, `reading` what the reader is doing with a request,
`performance` the rows it added, `scans` the research runs, `archive` the records on
disk, `daily` those in Redis, `index` and `messages` what follows them, `obs` the
observers. `RunSlot` is the scheduler's wrapper around a job. The reader takes a
request (`ReadBroker`, which checks the marker and whether the request has its row),
appends the row (`AppendPerformanceRow`), and writes the receipt and ends the
request (`Answer`); it may die between any two (`ReaderStops`), and reads the
request again then, since it stays queued. `ExpireMarker` is the 36 hours of a marker, which end
in the night after the following day; with the last one goes the queue. `FinishScan`
is a research run, `Observe` one step of an observer between two calls, `Evening`
and `NextDay` time, with what expires. `SafetyVerdict` is the classification of the evidence.

### SentinelChecks, RestartTrust, FindingsLoop, SystemLoop

`SentinelChecks` has each check as an operator from the state of the system `w`
and the sources `down` to anomalies. `RestartTrust` has PM2's counters, the
deploy script step by step, the signed markers and the sentinel's snapshot.
`FindingsLoop` has the day's snapshots, what was paged, the ledger of findings on
the Mac, the leases of the triage and weekly runs and their success markers. Of the
day's triage, `unanswered` are the findings it made new and no classification came
back for, and `lowered` what the maintainer lowered since a run merged: history
variables.

`SystemLoop` composes them: `world` and `down` change in any way
(`WorldMoves`), the others take their own steps; `MCSystemLoop` gives the world
its small set of facts and sources that go wrong one at a time.

### LotClosure, ResearchHistory, ShadowParity

`LotClosure`: a `lot`, its closing `record` and the open set, the `script` of
each closer in its five durable steps, a sale of the sync that overlaps, the
`queue` of mismatches, a legacy `approval`. `ResearchHistory`: observations,
events, slate and run rows of two refreshes that read, compare, commit in one
Postgres transaction and then publish in Redis. `ShadowParity`: `books` and
`shadow` of each proposal and of each other domain, the copies under way, and a
comparison that reads table after table and, of the proposals in Redis, one after
the other: a proposal it cannot read is dropped (`GetProposal`), one left undecided
too long is expired on both sides (`ExpireProposal`, `ShadowExpired`).

## 3. Runs

Passing runs:

- `withdrawal_faults`: two overlapping invocations under two keys, a NAV that
  moves, one broker fill between attempts, any two faults. Nothing touches money
  before its plan is persisted (`PlanBeforeMoney`); a key has at most one trade
  and one investor row (`BookedAtMostOnce`); no share is lost or made
  (`LotsConserved`); only a replay overdraws units (`OnlyReplaysOverdraw`); and
  the whole implements `WithdrawalPromise` (`KeepsPromise`).
- `withdrawal_finishes`: appends may land twice and the operator repeats; a
  planned withdrawal finishes or a duplicated row freezes its key
  (`PlannedIsFinished`), and the lock comes free (`LockIsFreed`).
- `fills`: both booking paths over three fills of one ticker, two faults. An
  order has one ledger row (`OrderBookedOnce`); a fulfilled proposal is in the
  ledger (`FulfilledIsBooked`); the lots are the initial lots moved by the rows
  that claim to have moved them, and a sale that names its proposal takes its own
  agent's lots (`LotsAgree`); a row whose lots did not move is queued for repair
  (`UnmovedIsQueued`).
- `fills_close`: two orders for one proposal, an executor that repeats, a client
  that expires and reports. A proposal an order closed stays closed by it
  (`ClosedStaysClosed`) unless a companion report that read it before is still to
  write its copy back: such a report reopens it, and then any order of the proposal
  may close it. A decided proposal never expires (`DecidedNeverExpires`), a posted
  fill is eventually fulfilled or its proposal closed (`PostedIsFulfilled`).
  `UnmovedIsQueued` is claimed only while no write has failed.
- `decisions`: the spend of two processes over a month's end (`LedgerCovers`,
  `WithinCap`, `PricedRunWithinMax`); the review of two candidates by models that
  answer anything (`QueuedIsSound`: approved with this side and weight, within
  every limit and the run's cash; `JudgementIsTheModels`: only the model's HOLD
  counts as a judgement); three mandates over changing records
  (`PositionIsBounded`, `UnreadableNeverHelps`: losing a record opens nothing).
- `records`: NAV rows (`NavRowsAreSound`) and the contributions they price
  (`CreditedWithinInflow`); a lot closed by hand (`ClosureIsOnRecord`), resolved
  mismatches and legacy approvals (`EvidenceBeforeEffect`); two refreshes
  (`PublishedIsDurable`, `OneLineInTime`); the shadow and its comparison, with two
  proposals and one failed read (`VerdictIsTrue`: a domain it matches was read, and
  its objects that stood still are in step, where a proposal that could not be read
  counts as absent).
- `research`: two of a scheduled scan, a command line scan and a Lab request with
  one mishap (`GreenIsClean`, `OneTerminalRecord`, `MarkRatchet`, and `RunSettles`
  under fairness); and an agent's day narrowed to the names it reviews
  (`SlateIsSound`).
- `operations`: three days of receipts, requests, reads, scans and observers
  (`SnapshotsHaveProvenance`: a slot of a day has one request and one Performance
  row, although the reader may die between the row and its receipt;
  `DayRecordImmutable`, `CleanDayEarned`); the sentinel with sources unread and
  facts wrong (`UnreadIsVisible`, `WorseIsNeverBetter`); restarts and the evening's
  findings (`TroubleIsReported`; `MarkerMeansWork`: what triage marks as done has
  merged its snapshot and, if the first attempt made it, classified what was new).

Runs that show a disagreement between the code and what it says of itself
("findings" quotes the lines):

- `fills_repair`: a second `/record-trade` of an order closes a proposal whose
  lots were never repaired.
- `review_revision`: a revised answer flips its side and is queued past the
  dual-red, family and mandate-score gates the first answer met.
- `slate_agent3`: the screen over fresh data rejects for Agent Three every name
  that is not held, because a fresh candidate carries no listing date.
- `safety_expiry`: the index of observed days outlives the days' records, and
  from the first expiry on no observer can gather evidence, until the index itself
  expires 90 days after its last write.

`CHECK_DEADLOCK FALSE` everywhere: the systems stop when the bounded inputs are
used up.

### What the instances leave out

To stay finite and short, four instances follow only part of the interleavings:

- `MCRecords` (`Apart`): a sale, or a third NAV row, is followed without mishaps.
- `MCResearch` (`RowsAround`): Performance rows change only around a run's
  reading of them; the second row is followed without another mishap and without
  a Lab request.
- `MCSystemLoop`: the report and the triage, which hold different locks, are
  followed one at a time; mishaps of the last day fall while the report is written;
  the maintainer and the watch act between runs or as one merges (`Apart`). Triage is
  attempted again after a mishap of the first day (`Again`); the maintainer moves a
  status toward fixed, or lowers a severity once, while a first attempt classifies
  (`Edits`).
- `MCSafetyDay` (`Timely`): events that do not meet have a fixed order (a
  monitor's run and a broker request, a scan and the jobs of its day); an observer
  is called in the evening or, on an idle day, once too early; observers
  overlap on days with one attempt per slot and no open request; the last day
  only answers what is left. The theorems about `SafetyDay` have no such limit.

### Bounds

- Two invocations, bookers, processes, observers, closers or refreshes: every
  conflict here is between a reader that will write and one other writer.
- Faults: two where a retry exists (one to break a command in the middle, one to
  break its retry: `MaxFaults` of the withdrawals and of `fills`, `MaxSlips` of
  the closures, `MaxMishaps` of the refreshes), one elsewhere.
- Withdrawals: two lots of different cost, one and three shares, so that a sale
  splits a lot and takes the wrong cost when the order is wrong; at most one fill
  between attempts. Fills: three lots, the oldest of another agent, so that FIFO
  and ownership disagree; a purchase, a sale that names its proposal and a manual
  sale that competes for the lots.
- Spend: a ceiling of three with one protected against requests of two and one:
  two large calls contend, one of each fits exactly, a cheap answer makes room.
- Review: twelve circumstances (breaker, macro flags, budget, open proposals) of
  agents with four sets of limits, two candidates, one failed call. Mandates: one
  of each agent, two changes of records or metrics.
- NAV: three days, two deposits of which one arrives, three rows. Research
  history: three instants, so that a slate can be older than allowed.
- Research: one agent per run, two started runs, NAV rows of 80 and 100 so that
  the tier changes; the slate: eight days for each of three agents, with three
  states of the catalog, two rotation days, missing data and thin cohorts.
- Operations: three days of the window, the first a Sunday, two slots of the
  holdings read of which one may be asked twice, three observer calls, one fault, no
  approved exceptions; two evenings of the system loop with four starts, one
  sentinel, two attempts at a lease as in the code; two
  facts wrong or sources unread at once. Shadow: two proposals, positions and the
  accounting snapshot, two contents, one lost call. `safety_expiry` keeps four records
  instead of ninety, over a weekend instead of a quarter.
- Counters (`faults`, `fills`, `crashes`, `calls`, `changes`, ...) only bound the
  runs; the theorems hold for every value of the bounds.

### Fairness

- Weak fairness of the steps of a running command, request or scan (`CommitStep`,
  `PostStep`, `SyncStep`, `Step`): one process that awaits one call after another,
  each of which answers or raises. A crash is an action of its own and not fair.
- Weak fairness of expiries (`LockExpires`, `LabExpires`): Redis removes a key
  after its TTL. Weak fairness of `Recover`: PM2 restarts a dead scheduler, which
  repairs the status it finds.
- Strong fairness of a repeat (`Retry`, `RetryPost`): the runbook has the operator
  repeat an unfinished withdrawal under its key; that the executor, which is not
  in this repository, repeats `/record-trade` until the proposal is closed is an
  assumption. A repeat is enabled only between attempts, so weak fairness would
  not be enough. Faults are bounded, so eventually an attempt meets none.
- None for the environment: NAVs, fills, decisions and reports may never come.

### What the code does that no property forbids

Met while modelling; the models contain it, and the properties say where they stop:

- Withdrawals. Two keys planned on the same lots, or a fill of the size of the
  sale between two attempts: the runner finds the lots where its plan leaves
  them, takes that for its own work and skips the write. `KeepsPromise` is for one
  selling key. After a sale of more than half the position was written, the dry
  run every command starts with refuses the very repeat that should finish it. A
  fill booked inside a commit, under the accounting lock and not
  `capital-ledger`, is overwritten.
- Fills. `lib/robinhood-sync.py` sets no `refId`: a strategy's sale the sync sees
  first is booked for nobody and eats the oldest lot. A stale companion report
  erases `fulfilledAt`, and any order of the proposal may close it then. A failed
  reconciliation record leaves a mismatch untracked but for an alert. A crash between trade row and lots is never repaired. A
  batch that sells a lot it opened appends the lot whole.
- Spend. An answer without token counts is free for the run ledger, so the run's
  own limit holds for priced answers only.
- Review. Sector weights are not updated after a queued purchase; a Redis error
  lists no open proposals.
- NAV. A 16:30 request drained after midnight puts cash that arrived since into
  the NAV of the day it names.
- Research. The restarted scheduler's repair marks a live command line scan as
  failed; `breaker:recompute` takes no lock.
- Observer. One that dies between publishing a record and indexing it lets the
  next day count the same research run again.
- Triage. An attempt whose classification failed has merged its findings; the next
  one finds nothing new (sysloop-triage.mjs:58-63) and sets the success marker over
  findings no classification came back for, although "A durable marker represents
  completed work" (sysloop-shared.mjs:36). `MarkerMeansWork` claims the
  classification of a first attempt only.
- Comparison. The list of proposals drops those whose read fails, or all of them
  (redis.js:456-460); where the shadow lacks the same ones the verdict is MATCH,
  although "Missing/unreadable stores are divergences, never an empty successful
  sample" (parity-runner.js:213). `VerdictIsTrue` counts them as absent.
- Sentinel. A failed read of the proposals, the breaker, the high-water mark or
  the sentinel's own state is answered as if nothing were there (`Silent`, which
  `UnreadIsVisible` excepts). Deleting PM2's counter hides restarts. `alertOnce`
  claims its key before Telegram answers: an alert lost after that is not sent again,
  and `TroubleIsReported` counts it as announced. An anomaly that grows urgent while
  it is present is not announced again, which the property excepts.
- Reconciliations. An entry marked applied whose removal from the open set is lost
  stays listed; the retry of an interrupted legacy closure or write attempt may
  never complete.
- Legacy approvals. When the rejection fails after its attestation was stored,
  the next call finds the attestation and leaves the proposal approved.

## 4. Theorems

Every theorem is for all values of the constants, subject to the assumptions
named in the module that declares them (TLC evaluates each in a passing run) and
to the hypotheses given below. Each follows from an inductive invariant; where
the property itself is not inductive, the text says what is added and why.

`WithdrawalProofs`

- `TypeCorrect`: types, inductive with what the control state says of the plan
  and the rows an invocation holds (`RunsHold`).
- `PlanBeforeMoneyHolds`: adds that an invocation past its plan write has its plan
  in the tab. The lock plays no part.
- `OnePlanPerKeyHolds`, `BookedAtMostOnceHolds`, `DuplicatesFailClosedHolds`,
  `OnlyReplaysOverdrawHolds`, by `LockInv`: mutual exclusion, what the holder read
  is what the tabs hold, what it decided follows from it. They need a lock that
  does not expire under its holder, two of them a transport that does not repeat
  an append: real exits (the TTL has no fencing token), named as hypotheses.
- `LotsConservedHolds`, by `ShareInv`: the plans sell what they say and the lots
  read are current. No fill inside a commit.
- `KeepsPromiseHolds`: the refinement. Every step maps to `Bind`, `RecordSale`,
  `ConsumeLots`, `BurnUnits` or a stutter. The crux is that lots found at the
  plan's after-state are there by the key's own sale, which follows from the
  conservation of shares when one key sells, and more shares than the booked fills
  take (`SoleSeller`); without that the code does take another's work for its own.

`FillProofs`

- `FulfilledIsBookedHolds`: each booker's rows are in its plan and, past the
  append, in the ledger; whoever is about to fulfil has read an unfulfilled,
  approved record. No lock is needed.
- `DecidedNeverExpiresHolds`: adds what each stale copy in a client or booker can
  still do to a record; uses that the dashboard refuses to decide past 48 hours.
- `OrderBookedOnceHolds`, `ClosedStaysClosedHolds`: mutual exclusion and freshness
  of the holder's view, with an accounting lock that outlives its holder; for the
  second, no copy but a report's can reopen the record, as each other stale writer
  writes back only what it read as undecided or decides under the lock.
- `FillTypeCorrect`, by `LotsInv`: each booker's plan keeps every lot it read and
  says of each of its rows what the lot writes are meant to move. The working lots
  of a batch are a recursive function; that they are lots, and never fewer, is by
  the least fill that breaks it.
- `UnmovedIsQueuedHolds`, by `QueueInv`: every order booked for a proposal is done
  (shares moved, or in the open set) or some booker has yet to move or queue it
  (`OwedIsPending`), and nothing has moved for an order whose lots are yet to be
  written (`EffectsFresh`). The crux is in the plan: a sale its agent covers takes
  some of the agent's shares (`SoldShares`), so a row that is not to be reconciled
  means to move something. It needs `ENFORCE_OWNERSHIP` (without it a sale no lots
  cover is booked and neither moved nor queued) and a lock that outlives its holder.
- `LotsFollowTradesHolds`, `LotsAgreeHolds`, by `SoundInv`: until its last write a
  booker's plan is about the lots as they are (`PlanSound`), each of its rows means
  to move its order's shares or nothing, and of its own agent's lots only
  (`BookedFits`, from `SaleTakes`: a FIFO sale takes exactly its shares), and the
  plan changes every owner's shares by what its rows mean to move
  (`WorkingBalances`). A lot write then adds to the balance what its rows move
  (`SumsMove`), because nothing had moved for their orders (`EffectsFresh`). Order
  by order this needs only the two hypotheses above. The balance of the tab needs
  a third, `KeepsNewLots`: the lots a batch opens are not sold from in that batch.
  Without it the balance is false, since the update of a lot that has no row yet is
  dropped (end of section 3; TLC finds it with no initial lots); it holds in `fills`,
  which buys and sells, and always for `/record-trade`, whose batch is one fill.
  Under the other two it is the only way the balance can go wrong.

`BudgetProofs` (no fault, crash or early expiry is excluded)

- `TypeCorrect`, `NothingChargedTwice`, `PoisonHolds`.
- `LedgerAlwaysCovers`, `CapHolds`, `PoolHolds`: `LedgerCovers` alone is not
  inductive, as a sweep or settlement moves a reservation between the two amounts
  and only the leases say how much it may take (`Backed`).
- `ReservedMatchesLeases`: equality where no authorization ran twice.
- `RunLimitHolds`: what a run's ledger has not committed is one open call, and the
  room left by the limit's test covers it.

`RecordProofs`

- `NavRowsHold`, `CreditsHold`: one invariant of the capital: what each drain has
  read, what each row holds, what each entry was priced on.
- `ClosureTells`, `EvidenceFirst`: what each closer has made durable and the lot's
  shares at each of its steps.
- `PublishedLasts`, `HistoryIsALine`: what each refresh has committed before it
  publishes; that the lock's holder alone stands between reading the newest
  observation and appending its successor.
- `VerdictHolds`, by `ParityInv`: what the comparison has read of an object that
  has not moved since is still there, or the object is among the unread, or it is a
  proposal that was dropped and taken for absent.

`ResearchRunProofs`

- `OneRecordEach`, `GreenHolds`: who may still write a run's terminal record, and
  that the record of a clean return was read back, not assumed.
- `MarkOnlyRises`: only the lock's holder is between reading the mark and writing
  it, so what it read is still the mark unless a recomputation was counted; the
  basis of finitely many rows is a number.
- `SlateHolds`, by `SlateInv`: a holding is in whatever universe is chosen and stays
  among the eligible unless it has no market data (`HeldAreKept`), and what is
  eligible is held or passed the screen (`EligibleAreScreened`). The slots then hold
  every eligible holding (`ToReviewIs`), and the reviews every slot with a usable
  cohort within the slots' number (`SelectIs`). Sorts and filters are defined by
  the place of each element (`InOrder`, `Only`), so their laws follow from counting
  (an injection between finite sets of one size is onto) and need no induction.
  `CaseAssumption`: a day has finitely many lots and catalog rows, its figures are
  numbers, and the watchlist and the movers name each ticker once.

`OperationsProofs`

- `RecordNeverChanges`: what an observer holds is what it archived.
- `SnapshotsAnswerRequests`, by `RequestInv`: a request asked, being read or on record
  is the only one of its slot, because requests are made on their own day and the
  marker stands to the end of it (`OnePerSlot`); and a reader about to append a row
  knows whether its request has one (`RecordedOnce`).
- `CleanDayIsEarned`: every receipt proves what it says and the last of a slot,
  the one with the greatest index among those not lost, decides. Hypothesis
  `NoException`: an approved exception of a modelled job excuses what it names.
- `UnreadSourcesAreVisible`: for each source, what `assembleSnapshot` hands to the
  checks when its read fails, and that the check that answers for it then raises
  an anomaly of its own. It holds of any state of the stores with the slices the
  sentinel gathers (`IsWorld`).
- `TroubleReachesTheOperator`, by `TrustInv` and `PagedInv`. The script leaves a
  marker only after it found the gap to the baseline explained, so where a marker
  stands every earlier start nobody vouches for has been reported or is hidden
  (`Vouched`); the counts a script or a sentinel holds are of the running counter
  unless it is blind (`RoundKept`, `ScriptKept`); and the last marker of a trusted
  chain is of the process the sentinel saw. `PagedInv`: each fingerprint of the
  last published snapshot has been announced or grew urgent.
- `MarkersMeanWork`, by `WorkInv` and `AttemptInv`: the run that stands before its success marker
  has merged what it read, a merge leaves each fingerprint at its worst, later merges
  keep it there, and where the maintainer lowered it the run is in `lowered`; on a
  first attempt it has classified what it made new. `AnomaliesAssumption`: severities are
  P0 to P3.

`ReviewProofs`

- `ReviewTypeCorrect`, `QueuedIsSoundHolds`, `JudgementHolds`: what each stage of a
  review leaves true of the recommendation, with the run's cash accounted for.
  `BoundsAssumption` includes what `config/agents` says of the red-flag caps: an
  agent whose purchases go through two red flags has a red cap no smaller than
  its position cap.
- `PositionHolds`: the score is capped before its tier is looked up, the first
  tier begins above the cap, and a tier that macro lowers allows no more than the
  second. It needs that a fold of points is a number, from `Totals`.
- `LostEvidenceHolds`: the gates, the size, the additions and the judgement of a
  holding read only the evidence their mandate names; each is a function of what
  it reads, and requires what it reads. A lost record therefore closes what needs
  it and leaves alone what does not; without a score the valuation rule asks for
  more, never less. `PolicyAssumption` has the form of the configuration: each
  mandate names the evidence its rules read, has two tiers at least, the first
  above the thin-peer cap and later ones no more generous than the second.

`TotalsProofs` has the lemmas these share. A sum is the number of a set of units,
so its laws (`TotalSplits`, `TotalGrows`, `TotalChanges`, ...) come from the
library's theorems on finite sets; `LeastNatural`, from well-founded induction on
a set of counterexamples, stands in for induction over a predicate.

In TLA+ a `CASE` whose guards overlap is an unspecified choice: the proofs could
not be carried out over such definitions, and the ones that had them
(`TierOf`, `Judged`, `Classified`, `Disposition`, the slate's `pick`) state
their order instead.

Only model-checked, and why:

- `PlannedIsFinished`, `LockIsFreed`, `PostedIsFulfilled`, `RunSettles`: liveness,
  which needs fairness and ENABLED.
- `WorseIsNeverBetter`: it compares two states of the world one fact apart. It is
  true of the checks because of the numbers in them (which severity each raises
  at which threshold), a table TLC goes through entry by entry.

The attempt to prove `NoSilentRestart` showed that the property, as it was first
written, was false beyond the bounds of its run: a deploy script that has read
the baseline before PM2's counter was deleted, and restarts after it, leaves a
marker of counts that mean something else by then, and a sentinel that runs
beside it may trust it. The exception for a deleted counter is now exact: it ends
when a snapshot of the new count is published and every script and sentinel begun
before that has ended (`Settled`).

No module has a RECURSIVE operator.

## 5. What is not modelled

Left out whole: order reconciliation (a read-only comparison of broker orders and
the Trade Ledger), the position monitors (thresholds over quotes, alert texts),
evidence and market data (fetching, parsing, caching) and the reports.

In the modelled parts: more than one ticker or sale per withdrawal, the cash and
shortfall check of the preview, an append that lands after a later read (Sheets is
taken to be linearizable), rows edited by hand except a deleted Performance row,
tampering with signatures (a row verifies or is absent), rounding of floats
(amounts are naturals), `scripts/mark-fulfilled.js`, the cap of 250 listed
proposals (of the shadow too), a torn write of the observer's archive, the holdings
lock running out under a live reader's script, `--force` of the triage and weekly
runs, the thrown answer of a call that cost more than was reserved
(ai-budget.js:75), the two locks a closure by hand takes one after the other (one
lock in `LotClosure`), the Opus to Sonnet fallback, denial counters, pricing of tokens, the
1000-row usage list, prompts and the numbers of the quant score, the contents of
the absolute threshold tables and of the candidate bus, the cron table, the values
the research refresh fetches and its retention trigger, the shadow's HMAC
migration and restore drill. The notes in `PROJECT.json` ("components") have the
rest.

## 6. Plan

What is left: the monitors of positions over the rules of `MandatePolicy`.
