------------------------------ MODULE CapitalNav ------------------------------
(***************************************************************************)
(* How a broker reading becomes a signed NAV row and how the row prices    *)
(* new capital.  The scheduler queues a holdings request for the 16:30     *)
(* close; a drain process reads the broker, writes the Holdings tab and    *)
(* appends a Performance row (scripts/sync-holdings-from-mcp.js,           *)
(* lib/portfolio-snapshot.js); the operator records a deposit against the  *)
(* last close before it (scripts/record-contribution.js).  The drain and   *)
(* the operator hold different locks, and the broker is read outside both. *)
(*                                                                         *)
(* A row stands for its NAV per unit by what went into it: the deposits    *)
(* the broker reading held and the deposits whose units were counted.      *)
(***************************************************************************)
EXTENDS Integers, Sequences, FiniteSets, Totals

CONSTANTS LastDay,        \* bound: accounting dates are 1 .. LastDay
          Deposits,       \* incoming transfers; also their idempotency keys
          Arriving,       \* those that will reach the broker
          AmountOf,       \* dollars of a deposit
          Seed,           \* what the owner's first entry brought
          Tolerance,      \* UNATTRIBUTED_TOLERANCE
          Gains,          \* what a sale may realise, in dollars
          MaxCapital,     \* bound: no sale goes past this capital
          Procs, NoProc,  \* drain processes on the Mac
          MaxRows,        \* bound: length of the Performance tab
          MaxFaults       \* bound: crashes, failed or repeated writes, lost locks

Days == 1 .. LastDay
Manual == 0                 \* a sync without --request-id

ASSUME CapitalAssumption ==
  /\ LastDay \in Nat /\ LastDay >= 2
  /\ IsFiniteSet(Deposits) /\ Arriving \subseteq Deposits /\ AmountOf \in [Deposits -> Nat \ {0}]
  /\ Seed \in Nat \ {0} /\ Tolerance \in Nat
  /\ Gains \subseteq Int /\ MaxCapital \in Nat /\ NoProc \notin Procs
  /\ MaxRows \in Nat /\ MaxFaults \in Nat

VARIABLES day,       \* the New York date
          capital,   \* at the broker: cash with the cost basis of the positions
          arrived,   \* the day a deposit reached the broker, 0 before
          peak,      \* history: the most capital the broker ever held
          sheet,     \* cash with cost basis on the Holdings tab
          perf,      \* the Performance tab, in append order
          request,   \* the close request of a day
          lock,      \* pm:workflow-lock:holdings-sync
          proc,      \* the drain processes
          ledger,    \* the Investors rows of a deposit's key
          operator,  \* record-contribution.js between its reads and its append
          doubled,   \* history: requests and keys whose append may be repeated
          faults
vars == <<day, capital, arrived, peak, sheet, perf, request, lock, proc, ledger,
          operator, doubled, faults>>
broker == <<capital, arrived, peak>>
drain == <<sheet, request, lock, proc>>

NoReading == [capital |-> Seed, holds |-> {}, day |-> 2]
IdleProc == [pc |-> "idle", slot |-> Manual, reading |-> NoReading,
             had |-> FALSE, counted |-> {}]
NoRow == [date |-> 0, slot |-> Manual, holds |-> {}, counted |-> {}, late |-> FALSE]
NoEntry == [rows |-> 0, price |-> NoRow]
IdleOperator == [key |-> {}, price |-> NoRow]

Outcomes == {"done", "lost", "failed", "twice"}
CountFault(o) == /\ o # "done" => faults < MaxFaults
                 /\ faults' = IF o = "done" THEN faults ELSE faults + 1
Copies(o) == CASE o = "failed" -> 0 [] o = "twice" -> 2 [] OTHER -> 1

Init == /\ day = 2
        /\ capital = Seed
        /\ arrived = [k \in Deposits |-> 0]
        /\ peak = Seed
        /\ sheet = Seed
        /\ perf = <<[date |-> 1, slot |-> 1, holds |-> {}, counted |-> {}, late |-> FALSE]>>
        /\ request = [d \in Days |-> IF d = 1 THEN "done" ELSE "none"]
        /\ lock = NoProc
        /\ proc = [p \in Procs |-> IdleProc]
        /\ ledger = [k \in Deposits |-> NoEntry]
        /\ operator = IdleOperator
        /\ doubled = {} /\ faults = 0

-------------------------------------------------------------------------------
(* The broker, which nothing here changes: transfers, and sales that       *)
(* realise a gain or a loss.                                               *)
Larger(a, b) == IF a > b THEN a ELSE b
Becomes(c) == capital' = c /\ peak' = Larger(peak, c)
aside == <<day, sheet, perf, request, lock, proc, ledger, operator, doubled, faults>>

Deposit(k) == /\ k \in Arriving /\ arrived[k] = 0
              /\ arrived' = [arrived EXCEPT ![k] = day]
              /\ Becomes(capital + AmountOf[k])
              /\ UNCHANGED aside
Sale(g) == /\ capital + g \in 0 .. MaxCapital
           /\ Becomes(capital + g)
           /\ UNCHANGED <<arrived, aside>>
DayTurns == /\ day < LastDay /\ day' = day + 1
            /\ UNCHANGED <<broker, drain, perf, ledger, operator, doubled, faults>>

-------------------------------------------------------------------------------
(* requestMcpHoldingsSync at 16:30: ENQUEUE_REQUEST_SCRIPT keeps a marker  *)
(* per slot for 36 hours, so a second delivery queues nothing.             *)
Enqueue == /\ request[day] = "none"
           /\ request' = [request EXCEPT ![day] = "queued"]
           /\ UNCHANGED <<day, broker, sheet, lock, proc, perf, ledger, operator,
                          doubled, faults>>
MarkerOf(d) == request[d] # "none" /\ day <= d + 1

ElseKeep == <<day, broker, ledger, operator>>
Set(p, r) == proc' = [proc EXCEPT ![p] = r]

(* The Mac job takes a queued request (or the operator a manual sync) and  *)
(* reads the broker, before it holds any lock.                             *)
ReadBroker(p, d) ==
  /\ proc[p].pc = "idle"
  /\ d # Manual => request[d] = "queued"
  /\ Len(perf) < MaxRows
  /\ Set(p, [IdleProc EXCEPT !.pc = "enter", !.slot = d, !.reading =
       [capital |-> capital, holds |-> {k \in Deposits : arrived[k] > 0}, day |-> day]])
  /\ UNCHANGED <<ElseKeep, sheet, request, lock, perf, doubled, faults>>

\* the rows that carry a request
RowsFor(d) == {i \in 1 .. Len(perf) : perf[i].slot = d}

(* withWorkflowLock, assertMcpReadRequestProvenance, and the look for a    *)
(* row that already carries the request.                                   *)
Had_Never(d) == FALSE                                            \* mutation
Had(d) == d # Manual /\ RowsFor(d) # {}
Admitted(d) == d # Manual => MarkerOf(d)
Enter(p) ==
  LET d == proc[p].slot
      in == lock = NoProc /\ Admitted(d) IN
  /\ proc[p].pc = "enter"
  /\ lock' = IF in THEN p ELSE lock
  /\ Set(p, IF in THEN [proc[p] EXCEPT !.pc = "write", !.had = Had(d)] ELSE IdleProc)
  /\ UNCHANGED <<ElseKeep, sheet, request, perf, doubled, faults>>

(* writeHoldingsTab: also on a redelivery, with the newer reading.         *)
WriteHoldings(p) ==
  /\ proc[p].pc = "write"
  /\ sheet' = proc[p].reading.capital
  /\ Set(p, [proc[p] EXCEPT !.pc = "units"])
  /\ UNCHANGED <<ElseKeep, request, lock, perf, doubled, faults>>

(* readInvestorLedger: the units outstanding of the row.                   *)
ReadUnits(p) ==
  /\ proc[p].pc = "units"
  /\ Set(p, [proc[p] EXCEPT !.pc = "append", !.counted = {k \in Deposits : ledger[k].rows > 0}])
  /\ UNCHANGED <<ElseKeep, sheet, request, lock, perf, doubled, faults>>

(* appendPerformanceRow.  A scheduled row keeps the date of its slot, also *)
(* when the drain runs after midnight; a manual one has the day it ran.    *)
(* The Mac job's receipt takes the request from the queue; a process that  *)
(* dies between the two has "lost" the answer.                             *)
RowDate(d, r) == IF d = Manual THEN r.day ELSE d
NavRow(p) ==
  LET r == proc[p].reading
      date == RowDate(proc[p].slot, r) IN
  [date |-> date, slot |-> proc[p].slot, holds |-> r.holds,
   counted |-> proc[p].counted, late |-> r.day > date]
Appended(s, x, n) == s \o [i \in 1 .. n |-> x]
Release(p) == IF lock = p THEN NoProc ELSE lock
AppendRow(p, o) ==
  LET n == IF proc[p].had THEN 0 ELSE Copies(o) IN
  /\ proc[p].pc = "append" /\ CountFault(o)
  /\ Len(perf) + n <= MaxRows
  /\ perf' = Appended(perf, NavRow(p), n)
  /\ doubled' = IF n = 2 \/ lock # p THEN doubled \cup {proc[p].slot} ELSE doubled
  /\ lock' = Release(p)
  /\ request' = IF proc[p].slot # Manual /\ o \in {"done", "twice"}
                THEN [request EXCEPT ![proc[p].slot] = "done"] ELSE request
  /\ Set(p, IdleProc)
  /\ UNCHANGED <<ElseKeep, sheet>>

(* The process dies; its lock stays until the TTL, five minutes, ends it.  *)
(* The TTL also ends a lock whose holder is only slow.                     *)
Dies(p) == /\ proc[p].pc \notin {"idle", "enter"} /\ CountFault("failed")
           /\ Set(p, IdleProc)
           /\ UNCHANGED <<ElseKeep, sheet, request, lock, perf, doubled>>
Holding(p) == proc[p].pc \in {"write", "units", "append"}
LockEnds == /\ lock # NoProc
            /\ CountFault(IF Holding(lock) THEN "lost" ELSE "done")
            /\ lock' = NoProc
            /\ UNCHANGED <<ElseKeep, sheet, request, proc, perf, doubled>>

-------------------------------------------------------------------------------
(* selectContributionNavSnapshot: the one close of a date, or a refusal.   *)
(* selectPreDepositContributionNav: of the last date before the deposit    *)
(* that has any row at all.                                                *)
CloseOf(d) ==
  LET rows == RowsFor(d)
  IN  IF Cardinality(rows) = 1 THEN perf[CHOOSE i \in rows : TRUE] ELSE NoRow
DatesBefore(d) == {perf[i].date : i \in 1 .. Len(perf)} \cap 1 .. (d - 1)
LastBefore(d) == {x \in DatesBefore(d) : \A y \in DatesBefore(d) : y <= x}
PreDeposit(d) ==
  IF LastBefore(d) = {} THEN NoRow ELSE CloseOf(CHOOSE x \in LastBefore(d) : TRUE)

(* computeUnattributedCapital, over the Holdings tab as last written.      *)
Recorded == [k \in Deposits |-> ledger[k].rows * AmountOf[k]]
Credits(f) == Total(f, Deposits)
Unattributed == sheet - Seed - Credits(Recorded)

(* The operator asserts that a deposit came in; --deposit-date is its day, *)
(* or today when the money is not there.  Everything that prices the entry *)
(* is read inside the capital-ledger lock.                                 *)
DepositDate(k) == IF arrived[k] = 0 THEN day ELSE arrived[k]
Assignable_Always(k) == TRUE                                     \* mutation
Assignable(k) == Unattributed > Tolerance /\ AmountOf[k] <= Unattributed
RecordContribution(k) ==
  LET price == PreDeposit(DepositDate(k)) IN
  /\ operator = IdleOperator
  /\ ledger[k].rows = 0
  /\ price # NoRow
  /\ Assignable(k)
  /\ operator' = [key |-> {k}, price |-> price]
  /\ UNCHANGED <<day, broker, drain, perf, ledger, doubled, faults>>

(* appendInvestorLedgerEntry.  A process that dies here has held the lock  *)
(* for the whole TTL before the next one reads.                            *)
AppendEntry(k, o) ==
  /\ operator.key = {k} /\ CountFault(o)
  /\ ledger' = IF o = "failed" THEN ledger ELSE [ledger EXCEPT ![k] =
       [rows |-> Copies(o), price |-> operator.price]]
  /\ doubled' = IF o = "twice" THEN doubled \cup {k} ELSE doubled
  /\ operator' = IdleOperator
  /\ UNCHANGED <<day, broker, drain, perf>>

-------------------------------------------------------------------------------
DrainStep(p) ==
  \/ \E d \in Days \cup {Manual} : ReadBroker(p, d)
  \/ Enter(p) \/ WriteHoldings(p) \/ ReadUnits(p)
  \/ \E o \in Outcomes : AppendRow(p, o)
  \/ Dies(p)

Next ==
  \/ \E k \in Deposits : Deposit(k) \/ RecordContribution(k)
  \/ \E k \in Deposits, o \in Outcomes : AppendEntry(k, o)
  \/ \E g \in Gains : Sale(g)
  \/ DayTurns \/ Enqueue \/ LockEnds
  \/ \E p \in Procs : DrainStep(p)

Spec == Init /\ [][Next]_vars

-------------------------------------------------------------------------------
Reading == [capital : Nat, holds : SUBSET Deposits, day : Days]
PerfRow == [date : Days, slot : Days \cup {Manual}, holds : SUBSET Deposits,
            counted : SUBSET Deposits, late : BOOLEAN]

(* Every value has its type, and a row that carries a request is dated by  *)
(* the slot of that request.                                               *)
TypeOK ==
  /\ day \in Days
  /\ capital \in Nat /\ peak \in Nat /\ faults \in 0 .. MaxFaults
  /\ arrived \in [Deposits -> Days \cup {0}]
  /\ sheet \in Nat
  /\ perf \in Seq(PerfRow)
  /\ \A i \in 1 .. Len(perf) : perf[i].slot \in {Manual, perf[i].date}
  /\ request \in [Days -> {"none", "queued", "done"}]
  /\ lock \in Procs \cup {NoProc}
  /\ proc \in [Procs -> [pc : {"idle", "enter", "write", "units", "append"},
                         slot : Days \cup {Manual}, reading : Reading,
                         had : BOOLEAN, counted : SUBSET Deposits]]
  /\ ledger \in [Deposits -> [rows : 0 .. 2, price : PerfRow \cup {NoRow}]]
  /\ operator \in [key : SUBSET Deposits, price : PerfRow \cup {NoRow}]
  /\ doubled \subseteq Deposits \cup Days \cup {Manual}

(* However often a request is redelivered, by several processes and after  *)
(* crashes, it leaves one row, and a key one ledger entry, unless the      *)
(* transport repeated the append or the writer had lost its lock.          *)
OneRowEach ==
  /\ \A d \in Days \ doubled : \A i, j \in RowsFor(d) : i = j
  /\ \A k \in Deposits \ doubled : ledger[k].rows <= 1

(* The close that prices a deposit does not hold it, unless the broker was *)
(* read for that close on a later day than it is dated.                    *)
OwnCashNotInNav == \A k \in Deposits :
  ledger[k].rows > 0 /\ ~ledger[k].price.late => k \notin ledger[k].price.holds

(* Both of the NAV rows and of what they price.                            *)
NavRowsAreSound == OneRowEach /\ OwnCashNotInNav

(* Units are issued for no more dollars than ever reached the broker,      *)
(* unless an append was repeated.                                          *)
CreditedWithinInflow ==
  doubled \cap Deposits = {} => Seed + Credits(Recorded) <= peak

=============================================================================
