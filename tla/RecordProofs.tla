------------------------------ MODULE RecordProofs ------------------------------
(***************************************************************************)
(* Proofs about what is written down of money and research, one part after *)
(* the other: the NAV rows and the deposits they price (CapitalNav), the   *)
(* closure of a lot by hand (LotClosure), the durable history of the       *)
(* research refreshes (ResearchHistory), the shadow of the books and its   *)
(* daily comparison (ShadowParity).  For any number of deposits, drain     *)
(* processes, scripts, refreshes, scribes, tables and failures.            *)
(***************************************************************************)
EXTENDS CapitalNav, LotClosure, ResearchHistory, ShadowParity, TotalsProofs, SequenceTheorems, TLAPS

(***************************************************************************)
(* NAV rows and the deposits they price.                                   *)
(*                                                                         *)
(* A row and its lock: while a drain process holds the lock nobody else    *)
(* appends, so the row it did not find when it entered is still missing.   *)
(* A price and its day: a reading holds what had come by its day, so a     *)
(* close of an earlier day does not hold the deposit.  An amount and the   *)
(* sheet: what is credited has been on the sheet, so at the broker.        *)
(***************************************************************************)

-------------------------------------------------------------------------------
(* Types                                                                   *)

ProcState == [pc : {"idle", "enter", "write", "units", "append"},
              slot : Days \cup {Manual}, reading : Reading,
              had : BOOLEAN, counted : SUBSET Deposits]

LEMMA IdleProcType == IdleProc \in ProcState
  BY CapitalAssumption DEF IdleProc, ProcState, NoReading, Reading, Days, Manual

\* A step of one drain process leaves the others where they are.
LEMMA SetProc ==
  ASSUME TypeOK, NEW p \in Procs, NEW r \in ProcState, Set(p, r)
  PROVE  /\ proc' \in [Procs -> ProcState] /\ proc'[p] = r
         /\ \A q \in Procs \ {p} : proc'[q] = proc[q]
  BY DEF Set, TypeOK, ProcState

\* The rows after an append: those there were, then the copies of the new one.
LEMMA AppendedRows ==
  ASSUME NEW S, NEW rows \in Seq(S), NEW added \in S, NEW n \in 0 .. 2
  PROVE  /\ Appended(rows, added, n) \in Seq(S)
         /\ Len(Appended(rows, added, n)) = Len(rows) + n
         /\ \A i \in 1 .. Len(rows) : Appended(rows, added, n)[i] = rows[i]
         /\ \A i \in 1 .. (Len(rows) + n) :
               i > Len(rows) => Appended(rows, added, n)[i] = added
  <1>1. PICK new : new = [i \in 1 .. n |-> added]
    OBVIOUS
  <1>2. new \in Seq(S) /\ Len(new) = n /\ \A i \in 1 .. n : new[i] = added
    BY <1>1
  <1>3. Appended(rows, added, n) = rows \o new
    BY <1>1 DEF Appended
  <1>4. /\ rows \o new \in Seq(S)
        /\ Len(rows \o new) = Len(rows) + n
        /\ \A i \in 1 .. Len(rows) + n :
              (rows \o new)[i] = IF i <= Len(rows) THEN rows[i] ELSE new[i - Len(rows)]
    BY <1>2, ConcatProperties
  <1>5. Len(rows) \in Nat
    BY LenProperties
  <1>6. \A i \in 1 .. (Len(rows) + n) : i > Len(rows) => (rows \o new)[i] = added
    BY <1>2, <1>4, <1>5
  <1>7. \A i \in 1 .. Len(rows) : (rows \o new)[i] = rows[i]
    BY <1>4, <1>5
  <1> QED
    BY <1>3, <1>4, <1>6, <1>7

\* The row of a drain is well typed and dated by its slot.
LEMMA NavRowType ==
  ASSUME TypeOK, NEW p \in Procs
  PROVE  /\ NavRow(p) \in PerfRow /\ NavRow(p).slot \in {Manual, NavRow(p).date}
         /\ NavRow(p).slot = proc[p].slot /\ NavRow(p).holds = proc[p].reading.holds
         /\ NavRow(p).late <=> proc[p].reading.day > NavRow(p).date
  <1>1. proc[p] \in ProcState
    BY DEF TypeOK, ProcState
  <1>2. RowDate(proc[p].slot, proc[p].reading) \in Days
    BY <1>1 DEF RowDate, ProcState, Reading
  <1>3. PICK date \in Days : date = RowDate(proc[p].slot, proc[p].reading)
    BY <1>2
  <1>4. NavRow(p) = [date |-> date, slot |-> proc[p].slot, holds |-> proc[p].reading.holds,
                     counted |-> proc[p].counted, late |-> proc[p].reading.day > date]
    BY <1>3 DEF NavRow
  <1>5. PICK b \in BOOLEAN : b <=> proc[p].reading.day > date
    OBVIOUS
  <1>6. NavRow(p) = [date |-> date, slot |-> proc[p].slot, holds |-> proc[p].reading.holds,
                     counted |-> proc[p].counted, late |-> b]
    BY <1>4, <1>5
  <1>7. /\ proc[p].slot \in Days \cup {Manual} /\ proc[p].reading.holds \subseteq Deposits
        /\ proc[p].counted \subseteq Deposits
    BY <1>1 DEF ProcState, Reading
  <1>8. NavRow(p) \in PerfRow
    BY <1>6, <1>7 DEF PerfRow
  <1>9. proc[p].slot \in {Manual, date}
    BY <1>3 DEF RowDate
  <1> QED
    BY <1>5, <1>6, <1>8, <1>9

LEMMA CopiesType == ASSUME NEW o \in Outcomes
  PROVE  Copies(o) \in 0 .. 2 /\ (o \in {"done", "lost"} => Copies(o) = 1)
         /\ (o = "failed" => Copies(o) = 0) /\ (o = "twice" => Copies(o) = 2)
  BY DEF Copies, Outcomes

LEMMA CountFaultType ==
  ASSUME TypeOK, NEW o, CountFault(o)
  PROVE  faults' \in 0 .. MaxFaults
  BY CapitalAssumption DEF CountFault, TypeOK

\* What prices a deposit is a row of the tab that carries the close of the
\* last date before the deposit, or nothing.
LEMMA PriceIs ==
  ASSUME TypeOK, NEW d \in Days
  PROVE  \/ PreDeposit(d) = NoRow
         \/ /\ \E i \in 1 .. Len(perf) : PreDeposit(d) = perf[i]
            /\ PreDeposit(d).date \in 1 .. (d - 1)
  <1> SUFFICES ASSUME PreDeposit(d) # NoRow
               PROVE  /\ \E i \in 1 .. Len(perf) : PreDeposit(d) = perf[i]
                      /\ PreDeposit(d).date \in 1 .. (d - 1)
    OBVIOUS
  <1>1. PICK x \in LastBefore(d) : PreDeposit(d) = CloseOf(x)
    BY DEF PreDeposit
  <1>2. x \in 1 .. (d - 1)
    BY DEF LastBefore, DatesBefore
  <1>3. RowsFor(x) # {}
    <2>1. Cardinality(RowsFor(x)) = 1
      BY <1>1 DEF CloseOf
    <2> QED
      BY <2>1, FS_EmptySet
  <1>4. PICK i \in RowsFor(x) : CloseOf(x) = perf[i]
    BY <1>1, <1>3 DEF CloseOf
  <1>5. i \in 1 .. Len(perf) /\ perf[i].slot = x
    BY DEF RowsFor
  <1>6. perf[i].date = x
    BY <1>2, <1>5 DEF TypeOK, Manual
  <1> QED
    BY <1>1, <1>2, <1>4, <1>5, <1>6

LEMMA TypeStarts == Init => TypeOK
  <1> SUFFICES ASSUME Init PROVE TypeOK
    OBVIOUS
  <1>1. PICK first \in PerfRow :
          /\ first.slot = first.date
          /\ first = [date |-> 1, slot |-> 1, holds |-> {}, counted |-> {}, late |-> FALSE]
    <2> DEFINE first == [date |-> 1, slot |-> 1, holds |-> {}, counted |-> {}, late |-> FALSE]
    <2>1. 1 \in Days
      BY CapitalAssumption DEF Days
    <2>2. first \in PerfRow /\ first.slot = first.date
      BY <2>1 DEF PerfRow
    <2> QED
      BY <2>2
  <1>2. perf = <<first>>
    BY <1>1 DEF Init
  <1>3. perf \in Seq(PerfRow) /\ \A i \in 1 .. Len(perf) : perf[i].slot \in {Manual, perf[i].date}
    BY <1>1, <1>2
  <1>4. proc \in [Procs -> ProcState]
    BY IdleProcType DEF Init
  <1>5. /\ day \in Days /\ capital \in Nat /\ peak \in Nat /\ sheet \in Nat
        /\ faults \in 0 .. MaxFaults /\ lock \in Procs \cup {NoProc} /\ doubled = {}
    BY CapitalAssumption DEF Init, Days
  <1>6. /\ arrived \in [Deposits -> Days \cup {0}]
        /\ request \in [Days -> {"none", "queued", "done"}]
    BY DEF Init
  <1>7. ledger \in [Deposits -> [rows : 0 .. 2, price : PerfRow \cup {NoRow}]]
    BY DEF Init, NoEntry
  <1>8. operator \in [key : SUBSET Deposits, price : PerfRow \cup {NoRow}]
    BY DEF Init, IdleOperator
  <1> QED
    BY <1>3, <1>4, <1>5, <1>6, <1>7, <1>8 DEF TypeOK, ProcState

LEMMA TypeStays == TypeOK /\ [Next]_vars => TypeOK'
  <1> SUFFICES ASSUME TypeOK, [Next]_vars PROVE TypeOK'
    OBVIOUS
  <1>1. CASE \E k \in Deposits : Deposit(k)
    <2>1. PICK k \in Deposits : Deposit(k)
      BY <1>1
    <2>2. capital + AmountOf[k] \in Nat
      BY CapitalAssumption DEF TypeOK
    <2>3. arrived' \in [Deposits -> Days \cup {0}]
      BY <2>1 DEF Deposit, TypeOK
    <2> QED
      BY <2>1, <2>2, <2>3 DEF Deposit, Becomes, Larger, aside, TypeOK
  <1>2. CASE \E g \in Gains : Sale(g)
    <2>1. PICK g \in Gains : Sale(g)
      BY <1>2
    <2>2. capital' = capital + g /\ capital' \in Nat
      BY <2>1, CapitalAssumption DEF Sale, Becomes, TypeOK
    <2>3. peak' \in Nat /\ UNCHANGED aside
      BY <2>1, <2>2, CapitalAssumption DEF Sale, Becomes, Larger, TypeOK
    <2> QED
      BY <2>1, <2>2, <2>3 DEF Sale, aside, TypeOK
  <1>3. CASE DayTurns
    BY <1>3, CapitalAssumption DEF DayTurns, Days, broker, drain, TypeOK
  <1>4. CASE Enqueue
    BY <1>4 DEF Enqueue, broker, TypeOK
  <1>5. CASE LockEnds
    <2>1. faults' \in 0 .. MaxFaults
      BY <1>5, CountFaultType DEF LockEnds
    <2> QED
      BY <1>5, <2>1 DEF LockEnds, ElseKeep, broker, TypeOK
  <1>6. ASSUME NEW p \in Procs, DrainStep(p)
        PROVE  TypeOK'
    <2>0. proc[p] \in ProcState
      BY DEF TypeOK, ProcState
    <2>1. CASE \E d \in Days \cup {Manual} : ReadBroker(p, d)
      <3>1. PICK d \in Days \cup {Manual} : ReadBroker(p, d)
        BY <2>1
      <3> DEFINE new == [IdleProc EXCEPT !.pc = "enter", !.slot = d, !.reading =
             [capital |-> capital, holds |-> {k \in Deposits : arrived[k] > 0}, day |-> day]]
      <3>2. new \in ProcState
        BY CapitalAssumption DEF IdleProc, ProcState, Reading, TypeOK
      <3>3. Set(p, new)
        BY <3>1 DEF ReadBroker
      <3> HIDE DEF new
      <3>4. proc' \in [Procs -> ProcState]
        BY <3>2, <3>3, SetProc
      <3> QED
        BY <3>1, <3>4 DEF ReadBroker, ElseKeep, broker, TypeOK, ProcState
    <2>2. CASE Enter(p)
      <3>1. PICK new \in ProcState : Set(p, new)
        BY <2>0, <2>2, IdleProcType DEF Enter, ProcState, Had
      <3>2. proc' \in [Procs -> ProcState]
        BY <3>1, SetProc
      <3> QED
        BY <2>2, <3>2 DEF Enter, ElseKeep, broker, TypeOK, ProcState
    <2>3. CASE WriteHoldings(p)
      <3>1. PICK new \in ProcState : Set(p, new)
        BY <2>0, <2>3 DEF WriteHoldings, ProcState
      <3>2. proc' \in [Procs -> ProcState]
        BY <3>1, SetProc
      <3>3. sheet' \in Nat
        BY <2>0, <2>3 DEF WriteHoldings, ProcState, Reading
      <3> QED
        BY <2>3, <3>2, <3>3 DEF WriteHoldings, ElseKeep, broker, TypeOK, ProcState
    <2>4. CASE ReadUnits(p)
      <3>1. PICK new \in ProcState : Set(p, new)
        BY <2>0, <2>4 DEF ReadUnits, ProcState
      <3>2. proc' \in [Procs -> ProcState]
        BY <3>1, SetProc
      <3> QED
        BY <2>4, <3>2 DEF ReadUnits, ElseKeep, broker, TypeOK, ProcState
    <2>5. CASE \E o \in Outcomes : AppendRow(p, o)
      <3>1. PICK o \in Outcomes : AppendRow(p, o)
        BY <2>5
      <3>2. proc' \in [Procs -> ProcState]
        BY <3>1, IdleProcType, SetProc DEF AppendRow
      <3>3. PICK n \in 0 .. 2 : n = (IF proc[p].had THEN 0 ELSE Copies(o))
        BY CopiesType
      <3>4. perf' = Appended(perf, NavRow(p), n)
        BY <3>1, <3>3 DEF AppendRow
      <3>5. perf \in Seq(PerfRow) /\ NavRow(p) \in PerfRow /\ NavRow(p).slot \in {Manual, NavRow(p).date}
        BY NavRowType DEF TypeOK
      <3>6. perf' \in Seq(PerfRow)
        BY <3>4, <3>5, AppendedRows
      <3>7. \A i \in 1 .. Len(perf') : perf'[i].slot \in {Manual, perf'[i].date}
        <4>0. Len(perf) \in Nat
          BY <3>5, LenProperties
        <4>1. /\ Len(perf') = Len(perf) + n
              /\ \A i \in 1 .. Len(perf) : perf'[i] = perf[i]
              /\ \A i \in 1 .. (Len(perf) + n) : i > Len(perf) => perf'[i] = NavRow(p)
          BY ZenonT(30), <3>4, <3>5, AppendedRows
        <4> SUFFICES ASSUME NEW i \in 1 .. Len(perf') PROVE perf'[i].slot \in {Manual, perf'[i].date}
          OBVIOUS
        <4>2. CASE i <= Len(perf)
          BY <4>0, <4>1, <4>2 DEF TypeOK
        <4>3. CASE i > Len(perf)
          BY <3>5, <4>0, <4>1, <4>3
        <4> QED BY <4>0, <4>1, <4>2, <4>3
      <3>8. proc[p].slot \in Days \cup {Manual}
        BY <2>0 DEF ProcState
      <3>9. request' \in [Days -> {"none", "queued", "done"}]
        BY <3>1, <3>8 DEF AppendRow, TypeOK
      <3>10. doubled' \subseteq Deposits \cup Days \cup {Manual}
        BY <3>1, <3>8 DEF AppendRow, TypeOK
      <3>11. lock' \in Procs \cup {NoProc}
        BY <3>1 DEF AppendRow, Release, TypeOK
      <3>12. faults' \in 0 .. MaxFaults
        BY <3>1, CountFaultType DEF AppendRow
      <3> QED
        BY <3>1, <3>2, <3>6, <3>7, <3>9, <3>10, <3>11, <3>12
           DEF AppendRow, ElseKeep, broker, TypeOK, ProcState
    <2>6. CASE Dies(p)
      <3>1. proc' \in [Procs -> ProcState] /\ faults' \in 0 .. MaxFaults
        BY <2>6, IdleProcType, SetProc, CountFaultType DEF Dies
      <3> QED
        BY <2>6, <3>1 DEF Dies, ElseKeep, broker, TypeOK, ProcState
    <2> QED
      BY <1>6, <2>1, <2>2, <2>3, <2>4, <2>5, <2>6 DEF DrainStep
  <1>7. CASE \E k \in Deposits : RecordContribution(k)
    <2>1. PICK k \in Deposits : RecordContribution(k)
      BY <1>7
    <2>2. DepositDate(k) \in Days
      BY DEF DepositDate, TypeOK
    <2>3. PreDeposit(DepositDate(k)) \in PerfRow \cup {NoRow}
      BY <2>2, PriceIs DEF TypeOK
    <2>4. operator' \in [key : SUBSET Deposits, price : PerfRow \cup {NoRow}]
      BY <2>1, <2>3 DEF RecordContribution
    <2> QED
      BY <2>1, <2>4 DEF RecordContribution, broker, drain, TypeOK
  <1>8. CASE \E k \in Deposits, o \in Outcomes : AppendEntry(k, o)
    <2>1. PICK k \in Deposits, o \in Outcomes : AppendEntry(k, o)
      BY <1>8
    <2>2. Copies(o) \in 0 .. 2 /\ operator.price \in PerfRow \cup {NoRow}
      BY CopiesType DEF TypeOK
    <2>3. ledger' \in [Deposits -> [rows : 0 .. 2, price : PerfRow \cup {NoRow}]]
      BY <2>1, <2>2 DEF AppendEntry, TypeOK
    <2>4. faults' \in 0 .. MaxFaults
      BY <2>1, CountFaultType DEF AppendEntry
    <2> QED
      BY <2>1, <2>3, <2>4 DEF AppendEntry, IdleOperator, broker, drain, TypeOK
  <1>9. CASE UNCHANGED vars
    BY <1>9 DEF vars, TypeOK
  <1>10. Next \/ UNCHANGED vars
    OBVIOUS
  <1> QED
    BY <1>1, <1>2, <1>3, <1>4, <1>5, <1>6, <1>7, <1>8, <1>9, <1>10, Zenon DEF Next

-------------------------------------------------------------------------------
(* What the broker held                                                    *)

\* No reading and no Holdings tab shows more than the broker ever held; a
\* reading holds only deposits that had come by its day, and so does a row
\* whose broker was read by the day it is dated.
BrokerTrue ==
    /\ Seed <= peak /\ capital <= peak /\ sheet <= peak
    /\ \A k \in Deposits : arrived[k] <= day
    /\ \A p \in Procs :
         /\ proc[p].reading.capital <= peak
         /\ \A k \in proc[p].reading.holds : arrived[k] \in 1 .. proc[p].reading.day
RowsTrue ==
    \A i \in 1 .. Len(perf) : ~perf[i].late =>
        \A k \in perf[i].holds : arrived[k] \in 1 .. perf[i].date

\* The peak never falls, a day never ends twice, a deposit arrives once.
LEMMA BrokerMoves ==
  ASSUME TypeOK, BrokerTrue, [Next]_vars
  PROVE  /\ peak <= peak' /\ capital' <= peak' /\ day <= day'
         /\ \A k \in Deposits : /\ arrived[k] > 0 => arrived'[k] = arrived[k]
                                /\ arrived'[k] <= day'
  <1> USE DEF TypeOK, BrokerTrue
  <1>1. CASE \E k \in Deposits : Deposit(k)
    <2>1. PICK k \in Deposits : Deposit(k)
      BY <1>1
    <2>2. AmountOf[k] \in Nat /\ peak \in Nat /\ capital \in Nat
      BY CapitalAssumption
    <2>3. capital' \in Nat /\ peak <= peak' /\ capital' <= peak'
      BY <2>1, <2>2 DEF Deposit, Becomes, Larger
    <2>4. \A j \in Deposits : /\ arrived[j] > 0 => arrived'[j] = arrived[j]
                              /\ arrived'[j] <= day
      BY <2>1 DEF Deposit, Days
    <2> QED
      BY <2>1, <2>3, <2>4 DEF Deposit, aside, Days
  <1>2. CASE \E g \in Gains : Sale(g)
    <2>1. PICK g \in Gains : Sale(g)
      BY <1>2
    <2>2. capital + g \in Nat /\ peak \in Nat
      BY <2>1, CapitalAssumption DEF Sale
    <2>3. peak <= peak' /\ capital' <= peak'
      BY <2>1, <2>2 DEF Sale, Becomes, Larger
    <2> QED
      BY <2>1, <2>3 DEF Sale, aside, Days
  <1>3. CASE DayTurns
    BY <1>3 DEF DayTurns, broker, Days
  <1>4. CASE UNCHANGED <<day, capital, peak, arrived>>
    BY <1>4 DEF Days
  <1>5. CASE \/ Enqueue \/ LockEnds \/ \E p \in Procs : DrainStep(p)
             \/ \E k \in Deposits : RecordContribution(k)
             \/ \E k \in Deposits, o \in Outcomes : AppendEntry(k, o)
             \/ UNCHANGED vars
    BY <1>4, <1>5 DEF Enqueue, LockEnds, DrainStep, ReadBroker, Enter, WriteHoldings,
       ReadUnits, AppendRow, Dies, RecordContribution, AppendEntry, ElseKeep, broker, vars
  <1>6. Next \/ UNCHANGED vars
    OBVIOUS
  <1> QED
    BY <1>1, <1>2, <1>3, <1>5, <1>6, Zenon DEF Next

\* What a step of a drain process makes of its reading and of the tab.
LEMMA Readings ==
  ASSUME TypeOK, [Next]_vars
  PROVE  /\ \/ sheet' = sheet \/ \E p \in Procs : sheet' = proc[p].reading.capital
         /\ \A p \in Procs :
              \/ proc'[p].reading = proc[p].reading
              \/ proc'[p].reading = NoReading
              \/ proc'[p].reading =
                    [capital |-> capital, holds |-> {k \in Deposits : arrived[k] > 0}, day |-> day]
         /\ \/ \E p \in Procs, o \in Outcomes : AppendRow(p, o)
            \/ perf' = perf /\ (doubled' = doubled \/ ~(UNCHANGED <<ledger, operator>>))
  <1>1. ASSUME NEW p \in Procs, DrainStep(p)
        PROVE  /\ sheet' \in {sheet, proc[p].reading.capital}
               /\ \A q \in Procs \ {p} : proc'[q] = proc[q]
               /\ \/ proc'[p].reading \in {proc[p].reading, NoReading}
                  \/ proc'[p].reading =
                       [capital |-> capital, holds |-> {k \in Deposits : arrived[k] > 0}, day |-> day]
               /\ \/ \E o \in Outcomes : AppendRow(p, o)
                  \/ perf' = perf /\ doubled' = doubled
    <2>0. proc[p] \in ProcState /\ proc \in [Procs -> ProcState]
      BY DEF TypeOK, ProcState
    <2>1. CASE \E d \in Days \cup {Manual} : ReadBroker(p, d)
      <3>1. PICK d \in Days \cup {Manual} : ReadBroker(p, d)
        BY <2>1
      <3> DEFINE new == [IdleProc EXCEPT !.pc = "enter", !.slot = d, !.reading =
             [capital |-> capital, holds |-> {k \in Deposits : arrived[k] > 0}, day |-> day]]
      <3>2. new.reading =
               [capital |-> capital, holds |-> {k \in Deposits : arrived[k] > 0}, day |-> day]
        BY DEF IdleProc
      <3>3. proc' = [proc EXCEPT ![p] = new]
        BY <3>1 DEF ReadBroker, Set
      <3> HIDE DEF new
      <3>4. proc'[p] = new /\ \A q \in Procs \ {p} : proc'[q] = proc[q]
        BY <2>0, <3>3
      <3> QED
        BY <2>1, <3>1, <3>2, <3>4 DEF ReadBroker
    <2>2. CASE Enter(p)
      BY <2>0, <2>2 DEF Enter, Set, IdleProc, ProcState
    <2>3. CASE WriteHoldings(p)
      BY <2>0, <2>3 DEF WriteHoldings, Set, ProcState
    <2>4. CASE ReadUnits(p)
      BY <2>0, <2>4 DEF ReadUnits, Set, ProcState
    <2>5. CASE \E o \in Outcomes : AppendRow(p, o)
      BY <2>0, <2>5 DEF AppendRow, Set, IdleProc, ElseKeep
    <2>6. CASE Dies(p)
      BY <2>0, <2>6 DEF Dies, Set, IdleProc
    <2> QED
      BY <1>1, <2>1, <2>2, <2>3, <2>4, <2>5, <2>6 DEF DrainStep
  <1>2. CASE \E p \in Procs : DrainStep(p)
    BY <1>1, <1>2
  <1>3. CASE ~\E p \in Procs : DrainStep(p)
    <2>1. /\ UNCHANGED <<sheet, proc, perf>>
          /\ doubled' = doubled \/ ~(UNCHANGED <<ledger, operator>>)
      <3>1. CASE \E k \in Deposits, o \in Outcomes : AppendEntry(k, o)
        BY <3>1 DEF AppendEntry, IdleOperator, drain
      <3>2. CASE ~\E k \in Deposits, o \in Outcomes : AppendEntry(k, o)
        BY <1>3, <3>2 DEF Next, Deposit, Sale, DayTurns, Enqueue, LockEnds,
           RecordContribution, aside, broker, drain, ElseKeep, vars
      <3> QED
        BY <3>1, <3>2
    <2> QED
      BY <2>1
  <1> QED
    BY <1>2, <1>3

LEMMA BrokerStays ==
  ASSUME TypeOK, BrokerTrue, [Next]_vars
  PROVE  BrokerTrue'
  <1>1. TypeOK'
    BY TypeStays
  <1>2. /\ peak <= peak' /\ capital' <= peak' /\ day <= day'
        /\ \A k \in Deposits : /\ arrived[k] > 0 => arrived'[k] = arrived[k]
                               /\ arrived'[k] <= day'
    BY BrokerMoves
  <1>3. peak \in Nat /\ peak' \in Nat /\ sheet \in Nat /\ capital \in Nat /\ Seed \in Nat
    BY <1>1, CapitalAssumption DEF TypeOK
  <1>4. Seed <= peak'
    BY <1>2, <1>3 DEF BrokerTrue
  <1>5. sheet' <= peak'
    <2>1. \A p \in Procs : proc[p].reading.capital \in Nat /\ proc[p].reading.capital <= peak
      BY DEF TypeOK, Reading, BrokerTrue
    <2> QED
      BY <1>2, <1>3, <2>1, Readings DEF BrokerTrue
  <1>6. ASSUME NEW p \in Procs
        PROVE  /\ proc'[p].reading.capital <= peak'
               /\ \A k \in proc'[p].reading.holds : arrived'[k] \in 1 .. proc'[p].reading.day
    <2>0. proc[p].reading \in Reading
      BY DEF TypeOK
    <2>1. CASE proc'[p].reading = proc[p].reading
      <3>1. /\ proc[p].reading.capital <= peak /\ proc[p].reading.capital \in Nat
            /\ proc[p].reading.holds \subseteq Deposits
            /\ \A k \in proc[p].reading.holds : arrived[k] \in 1 .. proc[p].reading.day
        BY <2>0 DEF Reading, BrokerTrue
      <3>2. \A k \in proc[p].reading.holds : arrived'[k] = arrived[k]
        BY <1>2, <3>1
      <3>3. proc[p].reading.capital <= peak'
        BY <1>2, <1>3, <3>1
      <3> QED
        BY <2>1, <3>1, <3>2, <3>3
    <2>2. CASE proc'[p].reading = NoReading
      BY <1>4, <2>2 DEF NoReading
    <2>3. CASE proc'[p].reading =
                 [capital |-> capital, holds |-> {k \in Deposits : arrived[k] > 0}, day |-> day]
      <3>1. capital <= peak'
        BY <1>2, <1>3 DEF BrokerTrue
      <3>2. \A k \in Deposits : arrived[k] > 0 => arrived'[k] \in 1 .. day
        BY <1>2 DEF BrokerTrue, TypeOK, Days
      <3> QED
        BY <2>3, <3>1, <3>2
    <2> QED
      BY <2>1, <2>2, <2>3, Readings
  <1> QED
    BY <1>2, <1>4, <1>5, <1>6 DEF BrokerTrue

\* What an append leaves in the tab, in indices.
LEMMA RowAdded ==
  ASSUME TypeOK, NEW p \in Procs, NEW o \in Outcomes, AppendRow(p, o)
  PROVE  \E n \in 0 .. 2 :
           /\ n = (IF proc[p].had THEN 0 ELSE Copies(o))
           /\ Len(perf) \in Nat /\ Len(perf') = Len(perf) + n
           /\ \A i \in 1 .. Len(perf) : perf'[i] = perf[i]
           /\ \A i \in 1 .. Len(perf') : i > Len(perf) => perf'[i] = NavRow(p)
  <1>1. PICK n \in 0 .. 2 : n = (IF proc[p].had THEN 0 ELSE Copies(o))
    BY CopiesType
  <1>2. perf' = Appended(perf, NavRow(p), n) /\ perf \in Seq(PerfRow) /\ NavRow(p) \in PerfRow
    BY <1>1, NavRowType DEF AppendRow, TypeOK
  <1>3. /\ Len(perf') = Len(perf) + n
        /\ \A i \in 1 .. Len(perf) : perf'[i] = perf[i]
        /\ \A i \in 1 .. (Len(perf) + n) : i > Len(perf) => perf'[i] = NavRow(p)
    BY ZenonT(30), <1>2, AppendedRows
  <1>4. Len(perf) \in Nat
    BY <1>2, LenProperties
  <1> QED
    BY <1>1, <1>3, <1>4

LEMMA RowsStayTrue ==
  ASSUME TypeOK, BrokerTrue, RowsTrue, [Next]_vars
  PROVE  RowsTrue'
  <1>1. \A k \in Deposits : arrived[k] > 0 => arrived'[k] = arrived[k]
    BY BrokerMoves
  <1>2. ASSUME NEW i \in 1 .. Len(perf), ~perf[i].late
        PROVE  \A k \in perf[i].holds : arrived'[k] \in 1 .. perf[i].date
    <2>1. perf[i] \in PerfRow
      BY DEF TypeOK
    <2>2. perf[i].holds \subseteq Deposits
      BY <2>1 DEF PerfRow
    <2> QED
      BY <1>1, <1>2, <2>2 DEF RowsTrue
  <1>3. CASE perf' = perf
    BY <1>2, <1>3 DEF RowsTrue
  <1>4. CASE \E p \in Procs, o \in Outcomes : AppendRow(p, o)
    <2>1. PICK p \in Procs, o \in Outcomes : AppendRow(p, o)
      BY <1>4
    <2>2. /\ Len(perf) \in Nat
          /\ \A i \in 1 .. Len(perf) : perf'[i] = perf[i]
          /\ \A i \in 1 .. Len(perf') : i > Len(perf) => perf'[i] = NavRow(p)
      BY <2>1, RowAdded
    <2>3. Len(perf') \in Nat
      <3>1. TypeOK'
        BY TypeStays
      <3> QED
        BY <3>1, LenProperties DEF TypeOK
    <2>4. ASSUME ~NavRow(p).late
          PROVE  \A k \in NavRow(p).holds : arrived'[k] \in 1 .. NavRow(p).date
      <3>1. /\ NavRow(p).holds = proc[p].reading.holds /\ NavRow(p).date \in Days
            /\ ~(proc[p].reading.day > NavRow(p).date)
        BY <2>4, NavRowType DEF PerfRow
      <3>2. /\ proc[p].reading.holds \subseteq Deposits /\ proc[p].reading.day \in Days
            /\ \A k \in proc[p].reading.holds : arrived[k] \in 1 .. proc[p].reading.day
        BY DEF BrokerTrue, TypeOK, Reading
      <3>3. \A k \in proc[p].reading.holds : arrived'[k] \in 1 .. proc[p].reading.day
        BY <1>1, <3>2
      <3>4. proc[p].reading.day <= NavRow(p).date
        BY <3>1, <3>2 DEF Days
      <3>5. \A k \in proc[p].reading.holds : arrived'[k] \in 1 .. NavRow(p).date
        BY <3>1, <3>2, <3>3, <3>4 DEF Days
      <3> QED
        BY <3>1, <3>5
    <2>5. ASSUME NEW i \in 1 .. Len(perf'), ~perf'[i].late
          PROVE  \A k \in perf'[i].holds : arrived'[k] \in 1 .. perf'[i].date
      <3>1. CASE i <= Len(perf)
        <4>1. i \in 1 .. Len(perf)
          BY <2>2, <2>3, <3>1
        <4> QED
          BY <1>2, <2>2, <2>5, <4>1
      <3>2. CASE i > Len(perf)
        BY <2>2, <2>4, <2>5, <3>2
      <3> QED
        BY <2>2, <2>3, <3>1, <3>2
    <2> QED
      BY <2>5 DEF RowsTrue
  <1> QED
    BY <1>3, <1>4, Readings

-------------------------------------------------------------------------------
(* One row each                                                            *)

\* A process that holds the lock and found no row of its request when it
\* entered still finds none, unless one was appended without the lock.
SlotGuarded ==
    \A p \in Procs :
        lock = p /\ Holding(p) /\ ~proc[p].had /\ proc[p].slot # Manual =>
            RowsFor(proc[p].slot) = {} \/ proc[p].slot \in doubled
RowOnce == \A d \in Days \ doubled : \A i, j \in RowsFor(d) : i = j

LEMMA RowsStayOne ==
  ASSUME TypeOK, SlotGuarded, RowOnce, [Next]_vars
  PROVE  SlotGuarded' /\ RowOnce'
  <1>0. /\ proc \in [Procs -> ProcState] /\ NoProc \notin Procs
        /\ \A d : perf' = perf => RowsFor(d)' = RowsFor(d)
    BY CapitalAssumption DEF TypeOK, ProcState, RowsFor
  <1>1. ASSUME NEW p \in Procs, NEW o \in Outcomes, AppendRow(p, o)
        PROVE  SlotGuarded' /\ RowOnce'
    <2>1. PICK n \in 0 .. 2 :
           /\ n = (IF proc[p].had THEN 0 ELSE Copies(o))
           /\ Len(perf) \in Nat /\ Len(perf') = Len(perf) + n
           /\ \A i \in 1 .. Len(perf) : perf'[i] = perf[i]
           /\ \A i \in 1 .. Len(perf') : i > Len(perf) => perf'[i] = NavRow(p)
      BY <1>1, RowAdded
    <2>2. NavRow(p).slot = proc[p].slot
      BY NavRowType
    <2>3. ASSUME NEW d, d # proc[p].slot
          PROVE  RowsFor(d)' = RowsFor(d)
      <3>1. \A i \in 1 .. Len(perf') : perf'[i].slot = d =>
                i \in 1 .. Len(perf) /\ perf[i].slot = d
        BY <2>1, <2>2, <2>3
      <3>2. \A i \in 1 .. Len(perf) : perf[i].slot = d =>
                i \in 1 .. Len(perf') /\ perf'[i].slot = d
        BY <2>1
      <3> QED
        BY <3>1, <3>2 DEF RowsFor
    <2>4. /\ doubled \subseteq doubled' /\ (n = 2 \/ lock # p => proc[p].slot \in doubled')
          /\ lock' = (IF lock = p THEN NoProc ELSE lock)
          /\ proc'[p].pc = "idle" /\ \A q \in Procs \ {p} : proc'[q] = proc[q]
      <3>1. proc' = [proc EXCEPT ![p] = IdleProc]
        BY <1>1 DEF AppendRow, Set
      <3>2. proc'[p].pc = "idle" /\ \A q \in Procs \ {p} : proc'[q] = proc[q]
        BY <1>0, <3>1 DEF IdleProc
      <3>3. doubled' = IF n = 2 \/ lock # p THEN doubled \cup {proc[p].slot} ELSE doubled
        BY <1>1, <2>1 DEF AppendRow
      <3>4. lock' = (IF lock = p THEN NoProc ELSE lock)
        BY <1>1 DEF AppendRow, Release
      <3> QED
        BY <3>2, <3>3, <3>4
    <2>5. RowOnce'
      <3> SUFFICES ASSUME NEW d \in Days, d \notin doubled', NEW i \in RowsFor(d)', NEW j \in RowsFor(d)'
                   PROVE  i = j
        BY DEF RowOnce
      <3>1. CASE d # proc[p].slot
        BY <2>3, <2>4, <3>1 DEF RowOnce
      <3>2. CASE d = proc[p].slot
        <4>1. lock = p /\ n # 2 /\ d \notin doubled
          BY <2>4, <3>2
        <4>2. CASE n = 0
          <5>1. RowsFor(d)' = RowsFor(d)
            BY <2>1, <4>2 DEF RowsFor
          <5> QED
            BY <4>1, <5>1 DEF RowOnce
        <4>3. CASE n = 1
          <5>1. ~proc[p].had /\ proc[p].pc = "append" /\ proc[p].slot # Manual
            BY <1>1, <2>1, <3>2, <4>3 DEF AppendRow, Days, Manual
          <5>2. RowsFor(d) = {}
            BY <3>2, <4>1, <5>1 DEF SlotGuarded, Holding
          <5>3. \A m \in 1 .. Len(perf') : perf'[m].slot = d => m = Len(perf) + 1
            <6>1. \A m \in 1 .. Len(perf) : perf'[m].slot # d
              BY <2>1, <5>2 DEF RowsFor
            <6>2. \A m \in 1 .. Len(perf') : m \in 1 .. Len(perf) \/ m = Len(perf) + 1
              BY <2>1, <4>3
            <6> QED
              BY <6>1, <6>2
          <5> QED
            BY <5>3 DEF RowsFor
        <4> QED
          BY <4>1, <4>2, <4>3
      <3> QED
        BY <3>1, <3>2
    <2>6. SlotGuarded'
      <3> SUFFICES ASSUME NEW q \in Procs, lock' = q, Holding(q)', ~proc'[q].had,
                          NEW d, d = proc'[q].slot, d # Manual
                   PROVE  RowsFor(d)' = {} \/ d \in doubled'
        BY DEF SlotGuarded, RowsFor
      <3>1. q # p /\ lock = q /\ lock # p /\ proc'[q] = proc[q]
        BY <1>0, <2>4 DEF Holding
      <3>2. RowsFor(d) = {} \/ d \in doubled
        BY <3>1 DEF SlotGuarded, Holding, RowsFor
      <3>3. CASE d = proc[p].slot
        BY <2>4, <3>1, <3>3
      <3>4. CASE d # proc[p].slot
        BY <2>3, <2>4, <3>1, <3>2, <3>4
      <3> QED
        BY <3>3, <3>4
    <2> QED
      BY <2>5, <2>6
  <1>2. ASSUME NEW p \in Procs, DrainStep(p), ~\E o \in Outcomes : AppendRow(p, o)
        PROVE  SlotGuarded' /\ RowOnce'
    <2>1. perf' = perf /\ doubled' = doubled
      BY <1>2 DEF DrainStep, ReadBroker, Enter, WriteHoldings, ReadUnits, Dies, ElseKeep
    <2>2. RowOnce'
      BY <1>0, <2>1 DEF RowOnce
    <2>3. \A q \in Procs \ {p} : proc'[q] = proc[q] /\ (lock' = q => lock = q)
      BY <1>0, <1>2 DEF DrainStep, ReadBroker, Enter, WriteHoldings, ReadUnits, Dies, Set
    <2>4. \/ ~Holding(p)'
          \/ Enter(p) /\ proc'[p].slot = proc[p].slot /\ proc'[p].had = Had(proc[p].slot)
          \/ /\ Holding(p) /\ lock' = lock
             /\ proc'[p].slot = proc[p].slot /\ proc'[p].had = proc[p].had
      <3>1. CASE \E d \in Days \cup {Manual} : ReadBroker(p, d)
        <4>1. PICK d \in Days \cup {Manual} : ReadBroker(p, d)
          BY <3>1
        <4> DEFINE new == [IdleProc EXCEPT !.pc = "enter", !.slot = d, !.reading =
               [capital |-> capital, holds |-> {k \in Deposits : arrived[k] > 0}, day |-> day]]
        <4>2. proc' = [proc EXCEPT ![p] = new] /\ new.pc = "enter"
          BY <4>1 DEF ReadBroker, Set, IdleProc
        <4> HIDE DEF new
        <4>3. proc'[p].pc = "enter"
          BY <1>0, <4>2
        <4> QED
          BY <4>3 DEF Holding
      <3>2. CASE Enter(p)
        <4>1. CASE lock = NoProc /\ Admitted(proc[p].slot)
          <5>1. proc' = [proc EXCEPT ![p] =
                           [proc[p] EXCEPT !.pc = "write", !.had = Had(proc[p].slot)]]
            BY <3>2, <4>1 DEF Enter, Set
          <5> QED
            BY <1>0, <3>2, <5>1 DEF ProcState
        <4>2. CASE ~(lock = NoProc /\ Admitted(proc[p].slot))
          <5>1. proc' = [proc EXCEPT ![p] = IdleProc]
            BY <3>2, <4>2 DEF Enter, Set
          <5> QED
            BY <1>0, <5>1 DEF IdleProc, Holding
        <4> QED
          BY <4>1, <4>2
      <3>3. CASE WriteHoldings(p) \/ ReadUnits(p)
        BY ZenonT(30), <1>0, <3>3 DEF WriteHoldings, ReadUnits, Set, Holding, ProcState, ElseKeep
      <3>4. CASE Dies(p)
        BY <1>0, <3>4 DEF Dies, Set, IdleProc, Holding
      <3> QED
        BY <1>2, <3>1, <3>2, <3>3, <3>4 DEF DrainStep
    <2>5. SlotGuarded'
      <3> SUFFICES ASSUME NEW q \in Procs, lock' = q, Holding(q)', ~proc'[q].had,
                          NEW d, d = proc'[q].slot, d # Manual
                   PROVE  RowsFor(d)' = {} \/ d \in doubled'
        BY DEF SlotGuarded, RowsFor
      <3>1. CASE q # p
        <4>1. proc'[q] = proc[q] /\ lock = q
          BY <2>3, <3>1
        <4> QED
          BY <1>0, <2>1, <4>1 DEF SlotGuarded, Holding, RowsFor
      <3>2. CASE q = p /\ Enter(p)
        <4>1. proc'[p].slot = proc[p].slot /\ ~Had(proc[p].slot)
          BY <2>4, <3>2 DEF Enter, Holding
        <4>2. RowsFor(d) = {}
          BY <3>2, <4>1 DEF Had, RowsFor
        <4> QED
          BY <1>0, <2>1, <4>2
      <3>3. CASE q = p /\ ~Enter(p)
        <4>1. lock = p /\ Holding(p) /\ proc'[p].slot = proc[p].slot /\ proc'[p].had = proc[p].had
          BY <2>4, <3>3
        <4> QED
          BY <1>0, <2>1, <3>3, <4>1 DEF SlotGuarded, RowsFor
      <3> QED
        BY <3>1, <3>2, <3>3
    <2> QED
      BY <2>2, <2>5
  <1>3. CASE ~\E p \in Procs : DrainStep(p)
    <2>1. /\ perf' = perf /\ proc' = proc /\ doubled \subseteq doubled'
          /\ lock' = lock \/ lock' = NoProc
      <3>1. CASE \E k \in Deposits, o \in Outcomes : AppendEntry(k, o)
        BY <3>1 DEF AppendEntry, drain
      <3>2. CASE ~\E k \in Deposits, o \in Outcomes : AppendEntry(k, o)
        BY <1>3, <3>2 DEF Next, Deposit, Sale, DayTurns, Enqueue, LockEnds,
           RecordContribution, aside, broker, drain, ElseKeep, vars
      <3> QED
        BY <3>1, <3>2
    <2>2. RowOnce'
      BY <1>0, <2>1 DEF RowOnce
    <2>3. SlotGuarded'
      BY <1>0, <2>1 DEF SlotGuarded, Holding
    <2> QED
      BY <2>2, <2>3
  <1> QED
    BY <1>1, <1>2, <1>3

-------------------------------------------------------------------------------
(* What an entry is priced by and how much it credits                      *)

\* The close the operator's entry is to be priced by does not hold it.
PriceClean ==
    \A k \in operator.key : ~operator.price.late => k \notin operator.price.holds

\* An entry under way is the first of its key and still fits.
OpenEntry ==
    \A k \in operator.key :
        ledger[k].rows = 0 /\ Seed + Credits(Recorded) + AmountOf[k] <= peak
EntryOnce == \A k \in Deposits \ doubled : ledger[k].rows <= 1

EntryInv == PriceClean /\ OwnCashNotInNav /\ OpenEntry /\ EntryOnce /\ CreditedWithinInflow

LEMMA RecordedType ==
  ASSUME TypeOK
  PROVE  /\ IsFiniteSet(Deposits)
         /\ \A k \in Deposits : Recorded[k] \in Nat /\ Recorded[k] = ledger[k].rows * AmountOf[k]
         /\ Credits(Recorded) \in Nat
  <1>1. \A k \in Deposits : ledger[k].rows \in Nat /\ AmountOf[k] \in Nat
    <2>1. \A k \in Deposits : AmountOf[k] \in Nat
      BY CapitalAssumption
    <2>2. \A k \in Deposits : ledger[k].rows \in Nat
      BY DEF TypeOK
    <2> QED
      BY <2>1, <2>2
  <1>2. \A k \in Deposits : ledger[k].rows * AmountOf[k] \in Nat
    BY <1>1
  <1>3. \A k \in Deposits : Recorded[k] \in Nat /\ Recorded[k] = ledger[k].rows * AmountOf[k]
    BY <1>2 DEF Recorded
  <1> QED
    BY <1>3, TotalType, CapitalAssumption DEF Credits

LEMMA EntriesStay ==
  ASSUME TypeOK, BrokerTrue, RowsTrue, EntryInv, [Next]_vars
  PROVE  EntryInv'
  <1>0. /\ peak <= peak' /\ peak \in Nat /\ peak' \in Nat /\ Seed \in Nat
    <2>1. TypeOK'
      BY TypeStays
    <2> QED
      BY <2>1, BrokerMoves, CapitalAssumption DEF TypeOK
  <1>1. ASSUME NEW k \in Deposits, RecordContribution(k)
        PROVE  EntryInv'
    <2>1. /\ ledger[k].rows = 0 /\ ledger' = ledger /\ peak' = peak /\ doubled' = doubled
          /\ operator'.key = {k} /\ operator'.price = PreDeposit(DepositDate(k))
          /\ PreDeposit(DepositDate(k)) # NoRow
          /\ AmountOf[k] <= Unattributed
      BY <1>1 DEF RecordContribution, Assignable, broker
    <2>2. Recorded' = Recorded /\ Credits(Recorded)' = Credits(Recorded)
      BY <2>1 DEF Recorded, Credits, Total, Units
    <2>3. OpenEntry'
      <3>1. /\ sheet \in Nat /\ Credits(Recorded) \in Nat /\ AmountOf[k] \in Nat
            /\ AmountOf[k] <= sheet - Seed - Credits(Recorded) /\ sheet <= peak
        BY <2>1, RecordedType, CapitalAssumption DEF Unattributed, TypeOK, BrokerTrue
      <3>2. Seed + Credits(Recorded) + AmountOf[k] <= peak
        BY <1>0, <3>1
      <3> QED
        BY <2>1, <2>2, <3>2 DEF OpenEntry
    <2>4. PriceClean'
      <3> SUFFICES ASSUME ~PreDeposit(DepositDate(k)).late, k \in PreDeposit(DepositDate(k)).holds
                   PROVE  FALSE
        BY <2>1 DEF PriceClean
      <3>1. DepositDate(k) \in Days
        BY DEF DepositDate, TypeOK
      <3>2. PICK i \in 1 .. Len(perf) :
              /\ PreDeposit(DepositDate(k)) = perf[i]
              /\ perf[i].date \in 1 .. (DepositDate(k) - 1)
        BY <2>1, <3>1, PriceIs
      <3>3. arrived[k] \in 1 .. perf[i].date
        BY <3>2 DEF RowsTrue
      <3>4. DepositDate(k) = arrived[k] /\ perf[i].date \in Days
        BY <3>3, <3>2 DEF DepositDate, TypeOK, PerfRow, Days
      <3> QED
        BY <3>1, <3>2, <3>3, <3>4 DEF Days
    <2> QED
      BY <2>1, <2>2, <2>3, <2>4 DEF EntryInv, OwnCashNotInNav, EntryOnce, CreditedWithinInflow
  <1>2. ASSUME NEW k \in Deposits, NEW o \in Outcomes, AppendEntry(k, o)
        PROVE  EntryInv'
    <2>1. /\ operator.key = {k} /\ operator'.key = {} /\ peak' = peak
          /\ ledger' = IF o = "failed" THEN ledger ELSE [ledger EXCEPT ![k] =
                         [rows |-> Copies(o), price |-> operator.price]]
          /\ doubled' = IF o = "twice" THEN doubled \cup {k} ELSE doubled
      BY <1>2 DEF AppendEntry, IdleOperator, broker
    <2>2. CASE o = "failed"
      <3>1. ledger' = ledger /\ doubled' = doubled
        BY <2>1, <2>2
      <3>2. Recorded' = Recorded /\ Credits(Recorded)' = Credits(Recorded)
        BY <3>1 DEF Recorded, Credits, Total, Units
      <3> QED
        BY <2>1, <3>1, <3>2 DEF EntryInv, PriceClean, OpenEntry, OwnCashNotInNav, EntryOnce,
           CreditedWithinInflow
    <2>3. CASE o # "failed"
      <3>1. /\ ledger'[k] = [rows |-> Copies(o), price |-> operator.price]
            /\ \A j \in Deposits \ {k} : ledger'[j] = ledger[j]
        BY <2>1, <2>3 DEF TypeOK
      <3>2. OwnCashNotInNav'
        BY <2>1, <3>1 DEF OwnCashNotInNav, EntryInv, PriceClean
      <3>3. EntryOnce'
        <4>1. o # "twice" => Copies(o) = 1
          BY <2>3, CopiesType DEF Outcomes
        <4> QED
          BY <2>1, <3>1, <4>1 DEF EntryOnce, EntryInv
      <3>4. ASSUME doubled' \cap Deposits = {}
            PROVE  Seed + Credits(Recorded)' <= peak'
        <4>1. o # "twice" /\ Copies(o) = 1
          BY <2>1, <2>3, <3>4, CopiesType DEF Outcomes
        <4>2. TypeOK'
          BY TypeStays
        <4>3. /\ IsFiniteSet(Deposits) /\ AmountOf[k] \in Nat
              /\ \A j \in Deposits : Recorded[j] \in Nat /\ Recorded'[j] \in Nat
              /\ \A j \in Deposits \ {k} : Recorded'[j] = Recorded[j]
              /\ Recorded[k] = 0 /\ Recorded'[k] = AmountOf[k]
          <5>1. /\ \A j \in Deposits : Recorded[j] \in Nat /\ Recorded[j] = ledger[j].rows * AmountOf[j]
                /\ IsFiniteSet(Deposits) /\ \A j \in Deposits : AmountOf[j] \in Nat
            BY RecordedType, CapitalAssumption
          <5>2. \A j \in Deposits : Recorded'[j] = ledger'[j].rows * AmountOf[j]
            BY DEF Recorded
          <5>3. ledger[k].rows = 0 /\ ledger'[k].rows = 1
            BY <2>1, <3>1, <4>1 DEF EntryInv, OpenEntry
          <5>4. Recorded[k] = 0 /\ Recorded'[k] = AmountOf[k]
            BY <5>1, <5>2, <5>3
          <5>5. \A j \in Deposits \ {k} : Recorded'[j] = Recorded[j]
            BY <3>1, <5>1, <5>2
          <5> QED
            BY <5>1, <5>4, <5>5
        <4>4. Total(Recorded', Deposits) + Recorded[k] = Total(Recorded, Deposits) + Recorded'[k]
          BY <4>3, TotalChanges
        <4>5. Total(Recorded, Deposits) \in Nat /\ Total(Recorded', Deposits) \in Nat
          BY <4>3, TotalType
        <4>6. Seed + Total(Recorded, Deposits) + AmountOf[k] <= peak
          BY <2>1 DEF EntryInv, OpenEntry, Credits
        <4>7. Seed + Total(Recorded', Deposits) <= peak
          BY <1>0, <4>3, <4>4, <4>5, <4>6
        <4> QED
          BY <2>1, <4>7 DEF Credits, Total, Units
      <3> QED
        BY <2>1, <3>2, <3>3, <3>4 DEF EntryInv, PriceClean, OpenEntry, CreditedWithinInflow
    <2> QED
      BY <2>2, <2>3
  <1>3. CASE UNCHANGED <<ledger, operator>>
    <2>1. doubled \subseteq doubled'
      <3>1. CASE \E p \in Procs, o \in Outcomes : AppendRow(p, o)
        BY <3>1 DEF AppendRow
      <3> QED
        BY <1>3, <3>1, Readings
    <2>2. Recorded' = Recorded /\ Credits(Recorded)' = Credits(Recorded)
      BY <1>3 DEF Recorded, Credits, Total, Units
    <2>3. OpenEntry'
      <3>1. ASSUME NEW k \in operator.key
            PROVE  Seed + Credits(Recorded) + AmountOf[k] <= peak'
        <4>1. k \in Deposits
          BY DEF TypeOK
        <4>2. Seed + Credits(Recorded) + AmountOf[k] <= peak /\ AmountOf[k] \in Nat
              /\ Credits(Recorded) \in Nat
          BY <4>1, RecordedType, CapitalAssumption DEF EntryInv, OpenEntry
        <4> QED
          BY <1>0, <4>2
      <3> QED
        BY <1>3, <2>2, <3>1 DEF EntryInv, OpenEntry
    <2>4. CreditedWithinInflow'
      <3>1. ASSUME doubled' \cap Deposits = {}
            PROVE  Seed + Credits(Recorded) <= peak'
        <4>1. Seed + Credits(Recorded) <= peak /\ Credits(Recorded) \in Nat
          BY <2>1, <3>1, RecordedType DEF EntryInv, CreditedWithinInflow
        <4> QED
          BY <1>0, <4>1
      <3> QED
        BY <2>2, <3>1 DEF CreditedWithinInflow
    <2>5. PriceClean' /\ OwnCashNotInNav'
      BY <1>3 DEF EntryInv, PriceClean, OwnCashNotInNav
    <2>6. EntryOnce'
      BY <1>3, <2>1 DEF EntryInv, EntryOnce
    <2> QED
      BY <2>3, <2>4, <2>5, <2>6 DEF EntryInv
  <1>4. \/ \E k \in Deposits : RecordContribution(k)
        \/ \E k \in Deposits, o \in Outcomes : AppendEntry(k, o)
        \/ UNCHANGED <<ledger, operator>>
    <2>1. CASE \E p \in Procs : DrainStep(p)
      BY <2>1 DEF DrainStep, ReadBroker, Enter, WriteHoldings, ReadUnits, AppendRow, Dies, ElseKeep
    <2>2. CASE ~\E p \in Procs : DrainStep(p)
      BY <2>2 DEF Next, Deposit, Sale, DayTurns, Enqueue, LockEnds, aside, ElseKeep, vars
    <2> QED
      BY <2>1, <2>2
  <1> QED
    BY <1>1, <1>2, <1>3, <1>4

-------------------------------------------------------------------------------
(* The theorems                                                            *)

CapitalInv == TypeOK /\ BrokerTrue /\ RowsTrue /\ SlotGuarded /\ RowOnce /\ EntryInv

LEMMA CapitalStarts == Init => CapitalInv
  <1> SUFFICES ASSUME Init PROVE CapitalInv
    OBVIOUS
  <1>1. TypeOK
    BY TypeStarts
  <1>2. BrokerTrue
    BY CapitalAssumption DEF Init, BrokerTrue, IdleProc, NoReading
  <1>3. RowsTrue /\ RowOnce
    <2>1. Len(perf) = 1 /\ perf[1].holds = {}
      BY DEF Init
    <2> QED
      BY <2>1 DEF RowsTrue, RowOnce, RowsFor
  <1>4. SlotGuarded
    BY DEF Init, SlotGuarded, Holding, IdleProc
  <1>5. EntryInv
    <2>1. \A k \in Deposits : ledger[k].rows = 0
      BY DEF Init, NoEntry
    <2>2. operator.key = {}
      BY DEF Init, IdleOperator
    <2>3. \A k \in Deposits : Recorded[k] = 0
      BY <1>1, <2>1, RecordedType, CapitalAssumption
    <2>4. Units(Recorded, Deposits) = {}
      BY <2>3 DEF Units
    <2>5. Credits(Recorded) = 0
      BY <2>4, FS_EmptySet DEF Credits, Total
    <2>6. Seed + Credits(Recorded) <= peak
      BY <2>5, CapitalAssumption DEF Init
    <2> QED
      BY <2>1, <2>2, <2>6 DEF EntryInv, PriceClean, OwnCashNotInNav, OpenEntry, EntryOnce,
         CreditedWithinInflow
  <1> QED
    BY <1>1, <1>2, <1>3, <1>4, <1>5 DEF CapitalInv

LEMMA CapitalKept == CapitalInv /\ [Next]_vars => CapitalInv'
  BY TypeStays, BrokerStays, RowsStayTrue, RowsStayOne, EntriesStay DEF CapitalInv

\* One NAV row for each holdings request, however often and by however many
\* processes it is drained, one Investors row for each key, and no deposit
\* priced by a close that holds it (NavRowsAreSound).
THEOREM NavRowsHold == Spec => []NavRowsAreSound
  <1>1. CapitalInv => NavRowsAreSound
    BY DEF CapitalInv, RowOnce, EntryInv, EntryOnce, NavRowsAreSound, OneRowEach
  <1> QED
    BY CapitalStarts, CapitalKept, <1>1, PTL DEF Spec

\* Units are issued for no more dollars than reached the broker, for any
\* number of deposits of any amounts and any sales (CreditedWithinInflow).
THEOREM CreditsHold == Spec => []CreditedWithinInflow
  <1>1. CapitalInv => CreditedWithinInflow
    BY DEF CapitalInv, EntryInv
  <1> QED
    BY CapitalStarts, CapitalKept, <1>1, PTL DEF Spec

(***************************************************************************)
(* The closure of a lot by hand and the signed evidence of what is closed. *)
(*                                                                         *)
(* As long as no lock expires under its holder, the scripts and the sync   *)
(* take turns, so what the one at work has read of the lot is still the    *)
(* lot, and its record names the shares it is about to take out.           *)
(***************************************************************************)

LotRow == [shares : Nat, version : Nat]
Record == [status : {"pending", "attempted", "applied"}, shares : Nat, version : Nat]
Steps == {"idle", "lots", "plan", "begin", "enlist", "attempt", "write", "apply", "delist"}
Script == [pc : Steps, expected : Nat, commit : BOOLEAN, lot : LotRow, recovered : BOOLEAN]

ClosingTypes ==
    /\ lot \in LotRow /\ record \in {None} \cup Record /\ zeroed \in Nat
    /\ locks \in Closers \cup {Free, "sync"}
    /\ script \in [Closers -> Script]
    /\ sync \in [pc : {"idle", "write"}, lot : LotRow]
    /\ expired \in BOOLEAN

\* Whoever works on the lot holds its locks.
Exclusive ==
    /\ \A c \in Closers : script[c].pc # "idle" => locks = c
    /\ sync.pc = "write" => locks = "sync"

\* What a script has read of the lot, and what its record says of it.
ScriptCurrent(c) ==
    /\ At(c, "plan") => script[c].lot = lot
    /\ script[c].pc \in {"begin", "enlist", "attempt", "write"} => script[c].lot = lot /\ lot.shares > 0
    /\ script[c].pc \in {"enlist", "attempt", "write"} =>
          record.shares = lot.shares /\ record.status \in {"pending", "attempted"}
    /\ At(c, "write") => record.status = "attempted"
    /\ At(c, "apply") => lot.shares = 0
SyncCurrent == sync.pc = "write" => sync.lot = lot /\ lot.shares > 0

\* The record names what was taken out, and a closed lot is empty.
RecordTells ==
    /\ zeroed > 0 => lot.shares = 0 /\ record.status \in {"attempted", "applied"} /\ record.shares = zeroed
    /\ record.status = "applied" => lot.shares = 0

TakingTurns ==
    /\ Exclusive /\ SyncCurrent /\ RecordTells
    /\ \A c \in Closers : ScriptCurrent(c)
ClosingInv == ClosingTypes /\ (expired \/ TakingTurns)

-----------------------------------------------------------------------------
(* Types                                                                   *)

LEMMA ScriptStops ==
  ASSUME ClosingTypes, NEW c \in Closers, Stops(c)
  PROVE  script' \in [Closers -> Script] /\ locks' \in Closers \cup {Free, "sync"}
  BY DEF ClosingTypes, Script, Steps, LotRow, Idle, Stops

LEMMA ClosingKeepsTypes ==
  ASSUME ClosingTypes, NEW c \in Closers, Closing(c)
  PROVE  ClosingTypes'
  <1> USE DEF ClosingTypes
  <1>1. CASE WithWorkflowLock(c)
    <2>1. PICK expected \in 1..MaxShares, commit \in BOOLEAN :
             script' = [script EXCEPT ![c] = [Idle EXCEPT !.pc = "lots", !.expected = expected, !.commit = commit]]
      BY <1>1 DEF WithWorkflowLock
    <2>2. [Idle EXCEPT !.pc = "lots", !.expected = expected, !.commit = commit] \in Script
      <3>1. expected \in Nat /\ [shares |-> 0, version |-> 0] \in LotRow
        BY ClosureAssumption DEF LotRow
      <3> QED
        BY <3>1 DEF Idle, Script, Steps
    <2>3. script' \in [Closers -> Script]
      BY <2>1, <2>2
    <2> QED
      BY <1>1, <2>3 DEF WithWorkflowLock
  <1>2. CASE ReadAllLots(c)
    BY <1>2, ScriptStops DEF ReadAllLots, Throws, Script, Steps
  <1>3. CASE Plan(c)
    BY <1>3, ScriptStops DEF Plan, Throws, To, Script, Steps
  <1>4. CASE BeginLotReconciliation(c)
    <2>1. record' \in {None} \cup Record
      BY <1>4 DEF BeginLotReconciliation, Script, LotRow, Record
    <2>2. script' \in [Closers -> Script] /\ locks' \in Closers \cup {Free, "sync"}
      BY <1>4, ScriptStops DEF BeginLotReconciliation, Throws, To, Script, Steps
    <2> QED
      BY <1>4, <2>1, <2>2 DEF BeginLotReconciliation
  <1>5. CASE Enlist(c)
    BY <1>5, ScriptStops DEF Enlist, Throws, To, Script, Steps
  <1>6. CASE MarkLotReconciliationSheetWriteAttempted(c)
    <2>1. record' \in {None} \cup Record
      BY <1>6 DEF MarkLotReconciliationSheetWriteAttempted, Record, None
    <2>2. script' \in [Closers -> Script] /\ locks' \in Closers \cup {Free, "sync"}
      BY <1>6, ScriptStops DEF MarkLotReconciliationSheetWriteAttempted, Throws, To, Script, Steps
    <2> QED
      BY <1>6, <2>1, <2>2 DEF MarkLotReconciliationSheetWriteAttempted
  <1>7. CASE ApplyLotUpdatesToSheet(c)
    <2>1. lot' \in LotRow /\ zeroed' \in Nat
      BY <1>7 DEF ApplyLotUpdatesToSheet, LotRow
    <2>2. script' \in [Closers -> Script] /\ locks' \in Closers \cup {Free, "sync"}
      BY <1>7, ScriptStops DEF ApplyLotUpdatesToSheet, Throws, To, Script, Steps
    <2> QED
      BY <1>7, <2>1, <2>2 DEF ApplyLotUpdatesToSheet
  <1>8. CASE MarkLotReconciliationApplied(c)
    <2>1. record' \in {None} \cup Record
      BY <1>8 DEF MarkLotReconciliationApplied, Record, None
    <2>2. script' \in [Closers -> Script] /\ locks' \in Closers \cup {Free, "sync"}
      BY <1>8, ScriptStops DEF MarkLotReconciliationApplied, Throws, To, Script, Steps
    <2> QED
      BY <1>8, <2>1, <2>2 DEF MarkLotReconciliationApplied
  <1>9. CASE Delist(c)
    BY <1>9, ScriptStops DEF Delist, Throws
  <1>10. CASE ScriptDies(c)
    BY <1>10 DEF ScriptDies, Script, Steps, LotRow, Idle
  <1> QED
    BY <1>1, <1>2, <1>3, <1>4, <1>5, <1>6, <1>7, <1>8, <1>9, <1>10 DEF Closing

LEMMA SyncKeepsTypes ==
  ASSUME ClosingTypes, SyncReads \/ SyncWrites \/ LockExpires
  PROVE  ClosingTypes'
  <1>1. CASE SyncReads
    BY <1>1 DEF SyncReads, ClosingTypes
  <1>2. CASE SyncWrites
    BY <1>2 DEF SyncWrites, ClosingTypes, LotRow
  <1>3. CASE LockExpires
    BY <1>3 DEF LockExpires, ClosingTypes
  <1> QED
    BY <1>1, <1>2, <1>3

-----------------------------------------------------------------------------
(* Turns                                                                   *)

\* While one script is at work nothing else is.
LEMMA OneAtWork ==
  ASSUME TakingTurns, NEW c \in Closers, script[c].pc # "idle"
  PROVE  /\ locks = c /\ sync.pc # "write"
         /\ \A q \in Closers \ {c} : script[q].pc = "idle"
  BY ClosureAssumption DEF TakingTurns, Exclusive

\* A script that stops leaves the turn to nobody.
LEMMA StoppedTurns ==
  ASSUME ClosingTypes, TakingTurns, NEW c \in Closers,
         script[c].pc # "idle", script' = [script EXCEPT ![c] = Idle],
         UNCHANGED sync, RecordTells'
  PROVE  TakingTurns'
  <1>1. sync.pc # "write" /\ \A q \in Closers \ {c} : script[q].pc = "idle"
    BY OneAtWork
  <1>2. \A q \in Closers : script'[q].pc = "idle"
    BY <1>1 DEF ClosingTypes, Idle
  <1> QED
    BY <1>1, <1>2 DEF TakingTurns, Exclusive, SyncCurrent, ScriptCurrent, At

\* A script that goes on keeps its turn.
LEMMA KeptTurns ==
  ASSUME ClosingTypes, TakingTurns, NEW c \in Closers, NEW pc \in Steps,
         script[c].pc # "idle", script' = [script EXCEPT ![c].pc = pc],
         UNCHANGED <<sync, locks>>, RecordTells', ScriptCurrent(c)'
  PROVE  TakingTurns'
  <1>1. locks = c /\ sync.pc # "write" /\ \A q \in Closers \ {c} : script[q].pc = "idle"
    BY OneAtWork
  <1>2. \A q \in Closers \ {c} : script'[q].pc = "idle"
    BY <1>1 DEF ClosingTypes
  <1> QED
    BY <1>1, <1>2 DEF TakingTurns, Exclusive, SyncCurrent, ScriptCurrent, At

LEMMA ClosingKeepsTurns ==
  ASSUME ClosingTypes, TakingTurns, NEW c \in Closers, Closing(c)
  PROVE  TakingTurns'
  <1> DEFINE s == script[c]
  <1>0. ScriptCurrent(c) /\ RecordTells
    BY DEF TakingTurns
  <1>1. CASE WithWorkflowLock(c)
    <2>1. locks = Free /\ \A q \in Closers : script[q].pc = "idle"
      BY <1>1, ClosureAssumption DEF WithWorkflowLock, TakingTurns, Exclusive
    <2>2. /\ sync.pc # "write"
          /\ script'[c].pc = "lots" /\ \A q \in Closers \ {c} : script'[q] = script[q]
      BY <1>1, <2>1 DEF WithWorkflowLock, Free, TakingTurns, Exclusive, ClosingTypes, Idle
    <2> QED
      BY <1>1, <2>1, <2>2
         DEF WithWorkflowLock, TakingTurns, Exclusive, SyncCurrent, ScriptCurrent, RecordTells, At
  <1>2. CASE ReadAllLots(c)
    <2>0. s.pc # "idle" /\ RecordTells' /\ UNCHANGED sync
      BY <1>0, <1>2 DEF ReadAllLots, At, RecordTells
    <2>1. CASE Stops(c)
      BY <1>2, <2>0, <2>1, StoppedTurns DEF Stops
    <2>2. CASE script' = [script EXCEPT ![c].lot = lot, ![c].pc = "plan"] /\ UNCHANGED locks
      <3>1. /\ locks = c /\ sync.pc # "write" /\ \A q \in Closers \ {c} : script[q].pc = "idle"
        BY <2>0, OneAtWork
      <3>2. /\ \A q \in Closers \ {c} : script'[q].pc = "idle"
            /\ script'[c].pc = "plan" /\ script'[c].lot = lot
        BY <2>2, <3>1 DEF ClosingTypes, Script
      <3> QED
        BY <1>2, <2>0, <2>2, <3>1, <3>2
           DEF ReadAllLots, TakingTurns, Exclusive, SyncCurrent, ScriptCurrent, At
    <2> QED
      BY <1>2, <2>1, <2>2 DEF ReadAllLots, Throws
  <1>3. CASE Plan(c)
    <2>0. s.pc = "plan" /\ s.lot = lot /\ RecordTells' /\ UNCHANGED <<sync, lot, record>>
      BY <1>0, <1>3 DEF Plan, At, RecordTells, ScriptCurrent
    <2>1. CASE Stops(c)
      BY <2>0, <2>1, StoppedTurns DEF Stops
    <2>2. CASE /\ Recovers(c) /\ script' = [script EXCEPT ![c].pc = "apply", ![c].recovered = TRUE]
               /\ UNCHANGED locks
      <3>1. /\ locks = c /\ sync.pc # "write" /\ \A q \in Closers \ {c} : script[q].pc = "idle"
        BY <2>0, OneAtWork
      <3>2. /\ \A q \in Closers \ {c} : script'[q].pc = "idle"
            /\ script'[c].pc = "apply" /\ lot'.shares = 0
        BY <2>0, <2>2, <3>1 DEF ClosingTypes, Script, Recovers
      <3> QED
        BY <2>0, <2>2, <3>1, <3>2
           DEF TakingTurns, Exclusive, SyncCurrent, ScriptCurrent, At
    <2>3. CASE PlanBrokerZeroLotClosure(c) /\ To(c, "begin") /\ UNCHANGED locks
      <3>1. script'[c].pc = "begin" /\ script'[c].lot = lot' /\ lot'.shares > 0
        BY <2>0, <2>3 DEF To, ClosingTypes, Script, PlanBrokerZeroLotClosure
      <3>2. ScriptCurrent(c)'
        BY <3>1 DEF ScriptCurrent, At
      <3> QED
        BY <2>0, <2>3, <3>2, KeptTurns DEF To, Steps
    <2> QED
      BY <1>3, <2>1, <2>2, <2>3 DEF Plan, Throws
  <1>4. CASE BeginLotReconciliation(c)
    <2> DEFINE planned == [status |-> "pending", shares |-> s.lot.shares, version |-> s.lot.version]
    <2>0. /\ s.pc = "begin" /\ s.lot = lot /\ lot.shares > 0 /\ UNCHANGED <<sync, lot, zeroed>>
          /\ zeroed = 0 /\ record.status # "applied"
      BY <1>0, <1>4 DEF BeginLotReconciliation, At, RecordTells, ScriptCurrent, ClosingTypes, LotRow
    <2>1. record' \in {record, planned}
      BY <1>4 DEF BeginLotReconciliation
    <2>2. RecordTells'
      BY <2>0, <2>1 DEF RecordTells
    <2>3. CASE Stops(c)
      BY <2>0, <2>2, <2>3, StoppedTurns DEF Stops
    <2>4. CASE record' = planned /\ To(c, "enlist") /\ UNCHANGED locks
      <3>1. script'[c].pc = "enlist" /\ script'[c].lot = lot' /\ lot'.shares > 0
        BY <2>0, <2>4 DEF To, ClosingTypes, Script
      <3>2. ScriptCurrent(c)'
        BY <2>0, <2>4, <3>1 DEF ScriptCurrent, At
      <3> QED
        BY <2>0, <2>2, <2>4, <3>2, KeptTurns DEF To, Steps
    <2>5. CASE /\ record # None /\ [record EXCEPT !.status = "pending"] = planned
               /\ To(c, "attempt") /\ UNCHANGED <<record, locks>>
      <3>1. script'[c].pc = "attempt" /\ script'[c].lot = lot' /\ lot'.shares > 0
        BY <2>0, <2>5 DEF To, ClosingTypes, Script
      <3>2. record.shares = lot.shares
        BY <2>0, <2>5 DEF ClosingTypes, Record
      <3>3. record.status \in {"pending", "attempted"}
        BY <2>0, <2>5 DEF ClosingTypes, Record
      <3>4. ScriptCurrent(c)'
        BY <2>0, <2>5, <3>1, <3>2, <3>3 DEF ScriptCurrent, At
      <3> QED
        BY <2>0, <2>2, <2>5, <3>4, KeptTurns DEF To, Steps
    <2> QED
      BY <1>4, <2>3, <2>4, <2>5 DEF BeginLotReconciliation, Throws
  <1>5. CASE Enlist(c)
    <2>0. s.pc = "enlist" /\ RecordTells' /\ UNCHANGED <<sync, lot, record>>
      BY <1>0, <1>5 DEF Enlist, At, RecordTells
    <2>1. CASE Stops(c)
      BY <2>0, <2>1, StoppedTurns DEF Stops
    <2>2. CASE To(c, "attempt") /\ UNCHANGED locks
      <3>1. ScriptCurrent(c)'
        BY <1>0, <2>0, <2>2 DEF ScriptCurrent, At, To, ClosingTypes, Script
      <3> QED
        BY <2>0, <2>2, <3>1, KeptTurns DEF To, Steps
    <2> QED
      BY <1>5, <2>1, <2>2 DEF Enlist, Throws
  <1>6. CASE MarkLotReconciliationSheetWriteAttempted(c)
    <2> DEFINE attempted == [record EXCEPT !.status = "attempted"]
    <2>0. /\ s.pc = "attempt" /\ s.lot = lot /\ lot.shares > 0 /\ zeroed = 0 /\ UNCHANGED <<sync, lot, zeroed>>
          /\ record.shares = lot.shares /\ record.status \in {"pending", "attempted"}
      BY <1>0, <1>6 DEF MarkLotReconciliationSheetWriteAttempted, At, RecordTells, ScriptCurrent, ClosingTypes, LotRow
    <2>1. record' \in {record, attempted}
      <3>1. [record EXCEPT !.status = IF @ = "pending" THEN "attempted" ELSE @] = attempted
        BY <2>0 DEF ClosingTypes, Record, None
      <3> QED
        BY <1>6, <3>1 DEF MarkLotReconciliationSheetWriteAttempted
    <2>2. record'.shares = record.shares /\ record'.status \in {record.status, "attempted"}
      BY <2>1 DEF ClosingTypes, Record, None
    <2>3. RecordTells'
      BY <2>0, <2>2 DEF RecordTells
    <2>4. CASE Stops(c)
      BY <2>0, <2>3, <2>4, StoppedTurns DEF Stops
    <2>5. CASE /\ To(c, "write") /\ UNCHANGED locks
               /\ record' = IF record.status = "pending" THEN attempted ELSE record
      <3>1. record'.status = "attempted"
        BY <2>0, <2>5 DEF ClosingTypes, Record, None
      <3>2. script'[c].pc = "write" /\ script'[c].lot = s.lot
        BY <2>5 DEF To, ClosingTypes, Script
      <3>3. ScriptCurrent(c)'
        BY <2>0, <2>2, <3>1, <3>2 DEF ScriptCurrent, At
      <3> QED
        BY <2>0, <2>3, <2>5, <3>3, KeptTurns DEF To, Steps
    <2> QED
      BY <1>6, <2>4, <2>5 DEF MarkLotReconciliationSheetWriteAttempted, Throws
  <1>7. CASE ApplyLotUpdatesToSheet(c)
    <2>0. /\ s.pc = "write" /\ lot.shares > 0 /\ zeroed = 0 /\ UNCHANGED <<sync, record>>
          /\ record.shares = lot.shares /\ record.status = "attempted"
      BY <1>0, <1>7 DEF ApplyLotUpdatesToSheet, At, RecordTells, ScriptCurrent, ClosingTypes, LotRow
    <2>1. \/ UNCHANGED <<lot, zeroed>>
          \/ lot'.shares = 0 /\ zeroed' = lot.shares
      BY <1>7, <2>0 DEF ApplyLotUpdatesToSheet, ClosingTypes, LotRow
    <2>2. RecordTells'
      BY <1>0, <2>0, <2>1 DEF RecordTells
    <2>3. CASE Stops(c)
      BY <2>0, <2>2, <2>3, StoppedTurns DEF Stops
    <2>4. CASE lot'.shares = 0 /\ To(c, "apply") /\ UNCHANGED locks
      <3>1. script'[c].pc = "apply"
        BY <2>4 DEF To, ClosingTypes, Script
      <3>2. ScriptCurrent(c)'
        BY <2>4, <3>1 DEF ScriptCurrent, At
      <3> QED
        BY <2>0, <2>2, <2>4, <3>2, KeptTurns DEF To, Steps
    <2> QED
      BY <1>7, <2>3, <2>4 DEF ApplyLotUpdatesToSheet, Throws
  <1>8. CASE MarkLotReconciliationApplied(c)
    <2>0. s.pc = "apply" /\ lot.shares = 0 /\ UNCHANGED <<sync, lot, zeroed>>
      BY <1>0, <1>8 DEF MarkLotReconciliationApplied, At, ScriptCurrent
    <2>1. \/ record' = record
          \/ record.status = "attempted" /\ record' = [record EXCEPT !.status = "applied"]
      BY <1>8 DEF MarkLotReconciliationApplied
    <2>2. record'.shares = record.shares /\ (record'.status = record.status \/ record'.status = "applied")
      BY <2>1 DEF ClosingTypes, Record, None
    <2>3. RecordTells'
      BY <1>0, <2>0, <2>2 DEF RecordTells
    <2>4. CASE Stops(c)
      BY <2>0, <2>3, <2>4, StoppedTurns DEF Stops
    <2>5. CASE To(c, "delist") /\ UNCHANGED locks
      <3>1. script'[c].pc = "delist"
        BY <2>5 DEF To, ClosingTypes, Script
      <3>2. ScriptCurrent(c)'
        BY <3>1 DEF ScriptCurrent, At
      <3> QED
        BY <2>0, <2>3, <2>5, <3>2, KeptTurns DEF To, Steps
    <2> QED
      BY <1>8, <2>4, <2>5 DEF MarkLotReconciliationApplied, Throws
  <1>9. CASE Delist(c)
    <2>1. s.pc # "idle" /\ RecordTells' /\ UNCHANGED sync /\ Stops(c)
      BY <1>0, <1>9 DEF Delist, At, RecordTells, Throws
    <2> QED
      BY <2>1, StoppedTurns DEF Stops
  <1>10. CASE ScriptDies(c)
    <2>1. /\ s.pc # "idle" /\ RecordTells' /\ UNCHANGED sync
          /\ script' = [script EXCEPT ![c] = Idle]
      BY <1>0, <1>10 DEF ScriptDies, RecordTells
    <2> QED
      BY <2>1, StoppedTurns
  <1> QED
    BY <1>1, <1>2, <1>3, <1>4, <1>5, <1>6, <1>7, <1>8, <1>9, <1>10 DEF Closing

\* The sync sells from the lot it has read, and never from a closed one.
LEMMA SyncKeepsTurns ==
  ASSUME ClosingTypes, TakingTurns,
         SyncReads \/ SyncWrites \/ LockExpires, ~expired'
  PROVE  TakingTurns'
  <1>1. CASE SyncReads
    <2>1. \A c \in Closers : script[c].pc = "idle"
      BY <1>1, ClosureAssumption DEF SyncReads, TakingTurns, Exclusive
    <2> QED
      BY <1>1, <2>1
         DEF SyncReads, TakingTurns, Exclusive, SyncCurrent, ScriptCurrent, RecordTells, At
  <1>2. CASE SyncWrites
    <2>1. locks = "sync" /\ lot.shares > 0 /\ sync.lot = lot
      BY <1>2 DEF SyncWrites, TakingTurns, Exclusive, SyncCurrent
    <2>2. \A c \in Closers : script[c].pc = "idle"
      BY <2>1, ClosureAssumption DEF TakingTurns, Exclusive
    <2>3. zeroed = 0 /\ record.status # "applied"
      BY <2>1 DEF TakingTurns, RecordTells, ClosingTypes, LotRow
    <2>4. sync'.pc = "idle" /\ UNCHANGED <<script, record, zeroed>>
      BY <1>2 DEF SyncWrites, ClosingTypes
    <2> QED
      BY <2>2, <2>3, <2>4
         DEF TakingTurns, Exclusive, SyncCurrent, ScriptCurrent, RecordTells, At
  <1>3. CASE LockExpires
    <2>1. locks # "sync" /\ (locks \in Closers => script[locks].pc = "idle")
      BY <1>3 DEF LockExpires
    <2>2. sync.pc # "write" /\ \A c \in Closers : script[c].pc = "idle"
      BY <2>1 DEF TakingTurns, Exclusive
    <2> QED
      BY <1>3, <2>2
         DEF LockExpires, TakingTurns, Exclusive, SyncCurrent, ScriptCurrent, RecordTells, At
  <1> QED
    BY <1>1, <1>2, <1>3

-----------------------------------------------------------------------------
(* The theorems                                                            *)

\* Shares leave a lot by hand only with a record that names them, and a
\* record counts as applied only over an empty lot, for any number of
\* scripts and failures (scripts/close-broker-zero-lot.js).
THEOREM ClosureTells == ClosureSpec => []ClosureIsOnRecord
  <1>1. ClosureInit => ClosingInv
    <2> SUFFICES ASSUME ClosureInit PROVE ClosingInv
      OBVIOUS
    <2>1. ClosingTypes
      BY ClosureAssumption DEF ClosureInit, ClosingTypes, LotRow, Script, Steps, Idle
    <2>2. Exclusive /\ SyncCurrent /\ RecordTells /\ \A c \in Closers : ScriptCurrent(c)
      BY DEF ClosureInit, Exclusive, SyncCurrent, RecordTells, ScriptCurrent, At, Idle, None
    <2> QED
      BY <2>1, <2>2 DEF ClosingInv, TakingTurns
  <1>2. ClosingInv /\ [ClosureNext]_closureVars => ClosingInv'
    <2> SUFFICES ASSUME ClosingInv, [ClosureNext]_closureVars PROVE ClosingInv'
      OBVIOUS
    <2>0. ClosingTypes /\ (expired \/ TakingTurns)
      BY DEF ClosingInv
    <2>1. CASE \E c \in Closers : Closing(c)
      <3>1. PICK c \in Closers : Closing(c)
        BY <2>1
      <3>2. ClosingTypes'
        BY <2>0, <3>1, ClosingKeepsTypes
      <3>3. expired' = expired
        BY <3>1 DEF Closing, WithWorkflowLock, ReadAllLots, Plan, BeginLotReconciliation, Enlist,
           MarkLotReconciliationSheetWriteAttempted, ApplyLotUpdatesToSheet,
           MarkLotReconciliationApplied, Delist, ScriptDies
      <3> QED
        BY <2>0, <3>1, <3>2, <3>3, ClosingKeepsTurns DEF ClosingInv
    <2>2. CASE SyncReads \/ SyncWrites \/ LockExpires
      <3>1. ClosingTypes'
        BY <2>0, <2>2, SyncKeepsTypes
      <3>2. expired => expired'
        BY <2>2 DEF SyncReads, SyncWrites, LockExpires
      <3> QED
        BY <2>0, <2>2, <3>1, <3>2, SyncKeepsTurns DEF ClosingInv
    <2>3. CASE UNCHANGED closing
      BY <2>0, <2>3 DEF closing, ClosingInv, ClosingTypes, TakingTurns, Exclusive, SyncCurrent, RecordTells,
         ScriptCurrent, At
    <2> QED
      BY <2>1, <2>2, <2>3 DEF ClosureNext, closureVars
  <1>3. ClosingInv => ClosureIsOnRecord
    BY DEF ClosingInv, TakingTurns, RecordTells, ClosureIsOnRecord
  <1> QED
    BY <1>1, <1>2, <1>3, PTL DEF ClosureSpec

\* What is stored of a mismatch and of an approval, between two steps of
\* the script that closes it.
Mismatch == [stored : BOOLEAN, open : BOOLEAN, known : BOOLEAN, resolution : BOOLEAN, pc : {"idle", "delist"}]
Approval == [status : {"approved", "rejected"}, attested : BOOLEAN, pc : {"idle", "reject"}]
EvidenceInv ==
    /\ queue \in [Orders -> Mismatch] /\ approval \in Approval
    /\ \A o \in Orders : queue[o].pc = "delist" => queue[o].resolution
    /\ approval.pc = "reject" => approval.attested
    /\ EvidenceBeforeEffect

LEMMA QueueKeepsEvidence ==
  ASSUME EvidenceInv, NEW o \in Orders,
         RecordReconciliationNeeded(o) \/ Resolve(o) \/ ResolveDelists(o), UNCHANGED approval
  PROVE  EvidenceInv'
  <1> DEFINE Kept(m) == /\ queue' = [queue EXCEPT ![o] = m]
                        /\ m.pc = "delist" \/ (m.known /\ ~m.open) => m.resolution
  <1>1. PICK m \in Mismatch : Kept(m)
    <2>0. queue[o] \in Mismatch
      BY DEF EvidenceInv
    <2>1. CASE RecordReconciliationNeeded(o)
      <3> DEFINE told == [queue[o] EXCEPT !.stored = TRUE, !.open = TRUE, !.known = TRUE]
                 kept(landed) == [queue[o] EXCEPT !.stored = landed \/ @]
      <3>1. told \in Mismatch /\ told.open /\ told.pc # "delist"
        BY <2>0, <2>1 DEF RecordReconciliationNeeded, Mismatch
      <3>2. ASSUME NEW landed \in BOOLEAN
            PROVE  /\ kept(landed) \in Mismatch /\ kept(landed).pc # "delist" /\ ~kept(landed).known
        BY <2>0, <2>1 DEF RecordReconciliationNeeded, Mismatch
      <3>3. \/ queue' = [queue EXCEPT ![o] = told]
            \/ \E landed \in BOOLEAN : queue' = [queue EXCEPT ![o] = kept(landed)]
        BY <2>0, <2>1 DEF RecordReconciliationNeeded
      <3> QED
        BY <3>1, <3>2, <3>3
    <2>2. CASE Resolve(o)
      <3> DEFINE resolved == [queue[o] EXCEPT !.resolution = TRUE, !.pc = "delist"]
                 kept(landed) == [queue[o] EXCEPT !.resolution = landed \/ @]
      <3>1. resolved \in Mismatch /\ resolved.resolution
        BY <2>0 DEF Mismatch
      <3>2. ASSUME NEW landed \in BOOLEAN
            PROVE  /\ kept(landed) \in Mismatch /\ kept(landed).pc # "delist"
                   /\ kept(landed).known /\ ~kept(landed).open => kept(landed).resolution
        BY <2>0, <2>2 DEF Resolve, Mismatch, EvidenceInv, EvidenceBeforeEffect
      <3>3. \/ queue' = [queue EXCEPT ![o] = resolved]
            \/ \E landed \in BOOLEAN : queue' = [queue EXCEPT ![o] = kept(landed)]
        BY <2>0, <2>2 DEF Resolve
      <3> QED
        BY <3>1, <3>2, <3>3
    <2>3. CASE ResolveDelists(o)
      <3> DEFINE closed == [queue[o] EXCEPT !.open = FALSE, !.pc = "idle"]
                 kept == [queue[o] EXCEPT !.pc = "idle"]
      <3>1. closed \in Mismatch /\ closed.resolution /\ kept \in Mismatch /\ kept.resolution
        BY <2>0, <2>3 DEF ResolveDelists, Mismatch, EvidenceInv
      <3>2. queue' = [queue EXCEPT ![o] = closed] \/ queue' = [queue EXCEPT ![o] = kept]
        BY <2>0, <2>3 DEF ResolveDelists
      <3> QED
        BY <3>1, <3>2
    <2> QED
      BY <2>1, <2>2, <2>3
  <1> QED
    BY <1>1 DEF EvidenceInv, EvidenceBeforeEffect

\* No mismatch its caller was told of leaves the open set before its signed
\* resolution is stored, and no legacy approval is rejected without its
\* attestation, wherever a call fails (resolveReconciliationTestArtifact,
\* closeLegacyTestApproval).
THEOREM EvidenceFirst == ClosureSpec => []EvidenceBeforeEffect
  <1>1. ClosureInit => EvidenceInv
    BY DEF ClosureInit, EvidenceInv, EvidenceBeforeEffect, Mismatch, Approval, Unrecorded
  <1>2. EvidenceInv /\ [ClosureNext]_closureVars => EvidenceInv'
    <2> SUFFICES ASSUME EvidenceInv, [ClosureNext]_closureVars PROVE EvidenceInv'
      OBVIOUS
    <2>1. CASE UNCHANGED <<queue, approval>>
      BY <2>1 DEF EvidenceInv, EvidenceBeforeEffect
    <2>2. CASE /\ \E o \in Orders : RecordReconciliationNeeded(o) \/ Resolve(o) \/ ResolveDelists(o)
               /\ UNCHANGED approval
      BY <2>2, QueueKeepsEvidence
    <2>3. CASE (CloseLegacyTestApproval \/ RejectLegacy) /\ UNCHANGED queue
      <3>1. /\ approval' \in Approval
            /\ approval'.pc = "reject" \/ approval'.status = "rejected" => approval'.attested
        BY <2>3 DEF CloseLegacyTestApproval, RejectLegacy, EvidenceInv, EvidenceBeforeEffect, Approval
      <3> QED
        BY <2>3, <3>1 DEF EvidenceInv, EvidenceBeforeEffect
    <2> QED
      BY <2>1, <2>2, <2>3 DEF ClosureNext, closureVars
  <1>3. EvidenceInv => EvidenceBeforeEffect
    BY DEF EvidenceInv
  <1> QED
    BY <1>1, <1>2, <1>3, PTL DEF ClosureSpec

(***************************************************************************)
(* The durable history of research.                                        *)
(*                                                                         *)
(* What is published is durable without any lock: each run only ever adds  *)
(* to its own rows, and publishes after them.  That the history of a name  *)
(* is a line needs the lock: as long as no run outlives it, the            *)
(* observation a run has found newest is still the newest but its own when *)
(* it writes its events.                                                   *)
(***************************************************************************)

Stages == {"idle", "announce", "prepare", "priors", "start", "data", "finish", "mark", "fail", "view", "events",
           "baseline", "select", "unconfigured", "publish", "release", "done", "dead"}
Someone == Refreshes \cup {Nobody}
Refresh == [pc : Stages, at : Nat, prior : [Names -> Someone], slate : Nat]
Event == [name : Names, current : Refreshes, previous : Someone]
Selection == [at : Nat, observed : Nat]

HistoryTypes ==
    /\ now \in Nat /\ slate \in Nat /\ holder \in Someone
    /\ refresh \in [Refreshes -> Refresh]
    /\ row \in [Refreshes -> {"none", "running", "completed", "failed"}]
    /\ stored \in SUBSET (Refreshes \X Names) /\ events \in SUBSET Event
    /\ selection \in [Refreshes -> Selection]
    /\ published \in [state : {"none", "running", "completed", "not_configured", "failed"}, run : Someone]
    /\ latest \in Someone /\ outlived \in BOOLEAN

\* The runs with an observation of a name; one of them is the newest.
Observers(n) == {r \in Refreshes : <<r, n>> \in stored}
NewestExists ==
    \A n \in Names : Observers(n) # {} => \E r \in Observers(n) : \A q \in Observers(n) : refresh[q].at <= refresh[r].at

Early == {"idle", "announce", "prepare", "priors", "start"}
Told(r) == \A n \in Names : \E e \in events : e.current = r /\ e.name = n

\* What is in the store of a run at each of its stages.
RunDurable(r) ==
    /\ refresh[r].pc \in Early => row[r] = "none"
    /\ refresh[r].pc \in Early \cup {"data"} => \A n \in Names : <<r, n>> \notin stored
    /\ refresh[r].pc \in Early \cup {"data", "finish", "view", "events"} => \A e \in events : e.current # r
    /\ row[r] = "completed" \/ Stage(r, "finish") => {r} \X Names \subseteq stored
    /\ refresh[r].pc \in {"view", "events", "baseline", "select", "publish"} => row[r] = "completed"
    /\ refresh[r].pc \in {"baseline", "select", "publish"} => Told(r)
    /\ Stage(r, "select") => refresh[r].slate # Never /\ refresh[r].at - refresh[r].slate \in 0..MaxAge
    /\ Stage(r, "publish") => selection[r] # NoSelection
    /\ selection[r].at # Never => selection[r].observed - selection[r].at \in 0..MaxAge

\* Both observations of an event are stored.
EventsStored ==
    \A e \in events :
        /\ <<e.current, e.name>> \in stored
        /\ e.previous # Nobody => <<e.previous, e.name>> \in stored

HistoryInv ==
    /\ HistoryTypes /\ NewestExists /\ EventsStored
    /\ \A r \in Refreshes : RunDurable(r)
    /\ published.state = "completed" => published.run \in Refreshes
    /\ PublishedIsDurable /\ NoLookAhead

-----------------------------------------------------------------------------
(* Types                                                                   *)

\* The newest observation of a name is one of those stored.
LEMMA NewestIs ==
  ASSUME NewestExists, NEW n \in Names
  PROVE  /\ Observers(n) = {} => Newest(n) = Nobody
         /\ Observers(n) # {} =>
               Newest(n) \in Observers(n) /\ \A q \in Observers(n) : refresh[q].at <= refresh[Newest(n)].at
  <1> DEFINE P(r) == \A q \in Observers(n) : refresh[q].at <= refresh[r].at
  <1>1. Newest(n) = IF Observers(n) = {} THEN Nobody ELSE CHOOSE r \in Observers(n) : P(r)
    BY DEF Newest, Observers
  <1>2. Observers(n) # {} => \E r \in Observers(n) : P(r)
    BY DEF NewestExists
  <1> QED
    BY <1>1, <1>2

LEMMA StageMoves ==
  ASSUME HistoryTypes, NEW r \in Refreshes, NEW pc \in Stages, Onward(r, pc)
  PROVE  /\ refresh' \in [Refreshes -> Refresh]
         /\ \A q \in Refreshes \ {r} : refresh'[q] = refresh[q]
         /\ refresh'[r] = [refresh[r] EXCEPT !.pc = pc]
         /\ refresh'[r].pc = pc /\ refresh'[r].at = refresh[r].at
         /\ refresh'[r].prior = refresh[r].prior /\ refresh'[r].slate = refresh[r].slate
  BY DEF HistoryTypes, Onward, Refresh

\* The status is of the run that sets it, or as it was.
LEMMA StatusIs ==
  ASSUME NEW state, NEW r, SetResearchDataStatus(state, r)
  PROVE  published' \in {published, [state |-> state, run |-> r]}
  BY DEF SetResearchDataStatus

-----------------------------------------------------------------------------
(* One step of a run                                                       *)

\* A step of a run adds to what is stored of it and leaves the others alone.
Adds(r) ==
    /\ refresh' \in [Refreshes -> Refresh]
    /\ row' \in [Refreshes -> {"none", "running", "completed", "failed"}]
    /\ selection' \in [Refreshes -> Selection]
    /\ \A q \in Refreshes \ {r} : refresh'[q] = refresh[q] /\ row'[q] = row[q] /\ selection'[q] = selection[q]
    /\ stored \subseteq stored' /\ stored' \subseteq stored \cup ({r} \X Names)
    /\ events \subseteq events' /\ \A e \in events' : e \in events \/ (e \in Event /\ e.current = r)
    /\ refresh'[r].at = refresh[r].at \/ Stage(r, "prepare")

LEMMA OthersStayDurable ==
  ASSUME HistoryTypes, NEW r \in Refreshes, Adds(r), NEW q \in Refreshes \ {r}, RunDurable(q)
  PROVE  RunDurable(q)'
  <1>1. /\ refresh'[q] = refresh[q] /\ row'[q] = row[q] /\ selection'[q] = selection[q]
        /\ \A n \in Names : <<q, n>> \in stored' <=> <<q, n>> \in stored
        /\ \A e \in events' : e.current = q => e \in events
        /\ stored \subseteq stored' /\ events \subseteq events'
    BY DEF Adds
  <1>2. Told(q) => Told(q)'
    BY <1>1 DEF Told
  <1> QED
    BY <1>1, <1>2 DEF RunDurable, Stage

\* A step that writes nothing durable.
LEMMA QuietStep ==
  ASSUME HistoryTypes, NEW r \in Refreshes, NEW pc \in Stages, Onward(r, pc), UNCHANGED durable
  PROVE  Adds(r)
  BY StageMoves DEF Adds, HistoryTypes, durable

LEMMA QuietKeeps ==
  ASSUME HistoryTypes, NEW r \in Refreshes, RunDurable(r), UNCHANGED durable,
         refresh'[r].at = refresh[r].at, refresh'[r].slate = refresh[r].slate,
         \/ refresh'[r].pc \in {"mark", "fail", "unconfigured", "release", "done", "dead"}
         \/ refresh[r].pc \in Early /\ refresh'[r].pc \in Early
         \/ Stage(r, "view") /\ refresh'[r].pc = "events"
  PROVE  RunDurable(r)'
  <1>1. Told(r)' <=> Told(r)
    BY DEF Told, durable
  <1> QED
    BY <1>1 DEF RunDurable, Stage, durable, Early

\* A run adds the events it has built, each checked against the store.
LEMMA EventsAdded ==
  ASSUME HistoryTypes, NEW r \in Refreshes, WriteResearchEvents(r)
  PROVE  /\ \E pc \in {"baseline", "fail"} :
               Onward(r, pc) /\ (pc = "baseline" => events' = events \cup BuildResearchEvents(r))
         /\ events \subseteq events'
         /\ \A e \in events' :
               e \in events \/ (e \in BuildResearchEvents(r) /\ ValidateEventReferences(e))
         /\ BuildResearchEvents(r) \subseteq Event
  <1> DEFINE new == BuildResearchEvents(r)
  <1>1. new \subseteq Event
    BY DEF BuildResearchEvents, Event, HistoryTypes, Refresh
  <1>2. CASE Right
    BY <1>1, <1>2 DEF WriteResearchEvents
  <1>3. CASE ~Right
    BY <1>1, <1>3 DEF WriteResearchEvents
  <1> QED
    BY <1>2, <1>3

LEMMA StepIsDurable ==
  ASSUME HistoryTypes, NewestExists, NEW r \in Refreshes, RunDurable(r), Refreshing(r)
  PROVE  Adds(r) /\ RunDurable(r)'
  <1>1. CASE WithRefreshLock(r)
    <2>1. PICK pc \in {"announce", "done"} : Onward(r, pc)
      BY <1>1 DEF WithRefreshLock
    <2>2. Adds(r)
      BY <1>1, <2>1, QuietStep DEF WithRefreshLock, Stages
    <2> QED
      BY <1>1, <2>1, <2>2, StageMoves, QuietKeeps DEF WithRefreshLock, Stage, Early, Stages
  <1>2. CASE Announce(r)
    <2>1. Onward(r, "prepare") /\ UNCHANGED durable
      BY <1>2 DEF Announce
    <2>2. Adds(r)
      BY <2>1, QuietStep DEF Stages
    <2> QED
      BY <1>2, <2>1, <2>2, StageMoves, QuietKeeps DEF Announce, Stage, Early, Stages
  <1>3. CASE Prepare(r)
    <2>1. CASE refresh' = [refresh EXCEPT ![r].pc = "priors", ![r].at = now]
      <3>1. /\ refresh' \in [Refreshes -> Refresh] /\ refresh'[r].pc = "priors"
            /\ \A q \in Refreshes \ {r} : refresh'[q] = refresh[q]
        BY ZenonT(30), <2>1 DEF HistoryTypes, Refresh, Stages
      <3>2. Adds(r)
        BY <1>3, <3>1 DEF Prepare, Adds, durable, HistoryTypes
      <3>3. RunDurable(r)'
        BY <1>3, <3>1 DEF Prepare, durable, RunDurable, Stage, Early
      <3> QED
        BY <3>2, <3>3
    <2>2. CASE Onward(r, "fail")
      <3>1. Adds(r)
        BY <1>3, <2>2, QuietStep DEF Prepare, Stages
      <3> QED
        BY <1>3, <2>2, <3>1, StageMoves, QuietKeeps DEF Prepare, Stages
    <2> QED
      BY <1>3, <2>1, <2>2 DEF Prepare
  <1>4. CASE ReadLatestPriorMandateScoreObservation(r)
    <2>1. CASE refresh' = [refresh EXCEPT ![r].pc = "start", ![r].prior = [n \in Names |-> Newest(n)]]
      <3>1. [n \in Names |-> Newest(n)] \in [Names -> Someone]
        BY NewestIs DEF Observers, Someone
      <3>2. /\ refresh' \in [Refreshes -> Refresh] /\ refresh'[r].pc = "start"
            /\ refresh'[r].at = refresh[r].at /\ refresh'[r].slate = refresh[r].slate
            /\ \A q \in Refreshes \ {r} : refresh'[q] = refresh[q]
        BY ZenonT(30), <2>1, <3>1 DEF HistoryTypes, Refresh, Stages
      <3>3. Adds(r)
        BY <1>4, <3>2 DEF ReadLatestPriorMandateScoreObservation, Adds, durable, HistoryTypes
      <3> QED
        BY <1>4, <3>2, <3>3, QuietKeeps DEF ReadLatestPriorMandateScoreObservation, Stage, Early
    <2>2. CASE Onward(r, "fail")
      <3>1. Adds(r)
        BY <1>4, <2>2, QuietStep DEF ReadLatestPriorMandateScoreObservation, Stages
      <3> QED
        BY <1>4, <2>2, <3>1, StageMoves, QuietKeeps DEF ReadLatestPriorMandateScoreObservation, Stages
    <2> QED
      BY <1>4, <2>1, <2>2 DEF ReadLatestPriorMandateScoreObservation
  <1>5. CASE WriteResearchJobStart(r)
    <2>1. PICK pc \in {"data", "fail"}, status \in {"none", "running"} :
             Onward(r, pc) /\ row' = [row EXCEPT ![r] = status]
      BY <1>5 DEF WriteResearchJobStart
    <2>2. UNCHANGED <<stored, events, selection>> /\ Stage(r, "start")
      BY <1>5 DEF WriteResearchJobStart
    <2>3. Adds(r) /\ refresh'[r].pc = pc /\ row'[r] # "completed"
      BY <2>1, <2>2, StageMoves DEF Adds, Stages, HistoryTypes
    <2> QED
      BY <2>1, <2>2, <2>3 DEF RunDurable, Stage, Early
  <1>6. CASE CommitResearch(r)
    <2>1. PICK pc \in {"finish", "mark"} :
             /\ Onward(r, pc) /\ stored' \in {stored, stored \cup ({r} \X Names)}
             /\ pc = "finish" => stored' = stored \cup ({r} \X Names)
      BY <1>6 DEF CommitResearch
    <2>2. UNCHANGED <<row, events, selection>> /\ Stage(r, "data")
      BY <1>6 DEF CommitResearch
    <2>3. Adds(r) /\ refresh'[r].pc = pc
      BY ZenonT(30), <2>1, <2>2, StageMoves DEF Adds, Stages, HistoryTypes
    <2> QED
      BY <2>1, <2>2, <2>3 DEF RunDurable, Stage, Early
  <1>7. CASE FinishResearchJobRun(r)
    <2>1. PICK pc \in {"view", "mark"}, done \in {row, [row EXCEPT ![r] = "completed"]} :
             /\ Onward(r, pc) /\ row' = done
             /\ pc = "view" => row' = [row EXCEPT ![r] = "completed"]
      BY <1>7 DEF FinishResearchJobRun
    <2>2. UNCHANGED <<stored, events, selection>> /\ Stage(r, "finish")
      BY <1>7 DEF FinishResearchJobRun
    <2>3. Adds(r) /\ refresh'[r].pc = pc /\ (pc = "view" => row'[r] = "completed")
      BY ZenonT(30), <2>1, <2>2, StageMoves DEF Adds, Stages, HistoryTypes
    <2> QED
      BY <2>1, <2>2, <2>3 DEF RunDurable, Stage, Early
  <1>8. CASE FailResearchJobRun(r)
    <2>1. /\ UNCHANGED <<stored, events, selection>> /\ Stage(r, "mark") /\ Onward(r, "fail")
          /\ row' \in {row, [row EXCEPT ![r] = IF @ = "running" THEN "failed" ELSE @]}
      BY <1>8 DEF FailResearchJobRun
    <2>2. /\ row'[r] \in {row[r], "failed"} /\ \A q \in Refreshes \ {r} : row'[q] = row[q]
          /\ row' \in [Refreshes -> {"none", "running", "completed", "failed"}]
      <3>1. row[r] \in {"none", "running", "completed", "failed"}
        BY DEF HistoryTypes
      <3>2. PICK status \in {row[r], "failed"} : row' = [row EXCEPT ![r] = status]
        BY <2>1 DEF HistoryTypes
      <3> QED
        BY <3>1, <3>2 DEF HistoryTypes
    <2>3. Adds(r) /\ refresh'[r].pc = "fail" /\ (row'[r] = "completed" => row[r] = "completed")
      BY <2>1, <2>2, StageMoves DEF Adds, Stages, HistoryTypes
    <2> QED
      BY <2>1, <2>3 DEF RunDurable, Stage, Early
  <1>9. CASE SetMandateScores(r)
    <2>1. Onward(r, "events") /\ UNCHANGED durable
      BY <1>9 DEF SetMandateScores
    <2>2. Adds(r)
      BY <2>1, QuietStep DEF Stages
    <2> QED
      BY <1>9, <2>1, <2>2, StageMoves, QuietKeeps DEF SetMandateScores, Stages
  <1>10. CASE WriteResearchEvents(r)
    <2>1. PICK pc \in {"baseline", "fail"} :
             Onward(r, pc) /\ (pc = "baseline" => events' = events \cup BuildResearchEvents(r))
      BY <1>10, EventsAdded
    <2>2. UNCHANGED <<row, stored, selection>> /\ Stage(r, "events")
      BY <1>10 DEF WriteResearchEvents
    <2>3. /\ events \subseteq events'
          /\ \A e \in events' : e \in events \/ (e \in Event /\ e.current = r)
      BY <1>10, EventsAdded DEF BuildResearchEvents
    <2>4. Adds(r) /\ refresh'[r].pc = pc
      BY ZenonT(30), <2>1, <2>2, <2>3, StageMoves DEF Adds, Stages, HistoryTypes
    <2>5. pc = "baseline" => Told(r)'
      <3>1. \A n \in Names : \E e \in BuildResearchEvents(r) : e.current = r /\ e.name = n
        <4> TAKE n \in Names
        <4> DEFINE e == [name |-> n, current |-> r, previous |-> refresh[r].prior[n]]
        <4>1. e \in BuildResearchEvents(r)
          BY DEF BuildResearchEvents
        <4> QED
          BY <4>1
      <3> QED
        BY <2>1, <3>1 DEF Told
    <2> QED
      BY <2>1, <2>2, <2>4, <2>5 DEF RunDurable, Stage, Early
  <1>11. CASE LoadPrivateBaseline(r)
    <2>1. UNCHANGED durable /\ Stage(r, "baseline")
      BY <1>11 DEF LoadPrivateBaseline
    <2>2. CASE refresh' = [refresh EXCEPT ![r].slate = slate, ![r].pc =
                             IF ValidatedBaseline(r, slate) THEN "select" ELSE "unconfigured"]
      <3>1. PICK pc \in {"select", "unconfigured"} :
               /\ refresh' = [refresh EXCEPT ![r].slate = slate, ![r].pc = pc]
               /\ pc = "select" => ValidatedBaseline(r, slate)
        BY <2>2
      <3>2. /\ refresh' \in [Refreshes -> Refresh] /\ refresh'[r].pc = pc
            /\ refresh'[r].at = refresh[r].at /\ refresh'[r].slate = slate
            /\ \A q \in Refreshes \ {r} : refresh'[q] = refresh[q]
        BY ZenonT(30), <3>1 DEF HistoryTypes, Refresh, Stages
      <3>3. Adds(r)
        BY <2>1, <3>2 DEF Adds, durable, HistoryTypes
      <3>4. Told(r)' <=> Told(r)
        BY <2>1 DEF Told, durable
      <3> QED
        BY <2>1, <3>1, <3>2, <3>3, <3>4 DEF RunDurable, Stage, durable, Early, ValidatedBaseline
    <2>3. CASE Onward(r, "unconfigured")
      <3>1. Adds(r)
        BY <2>1, <2>3, QuietStep DEF Stages
      <3> QED
        BY <2>1, <2>3, <3>1, StageMoves, QuietKeeps DEF Stages
    <2> QED
      BY <1>11, <2>2, <2>3 DEF LoadPrivateBaseline
  <1>12. CASE WriteResearchSelectionRun(r)
    <2> DEFINE chosen == [at |-> refresh[r].slate, observed |-> refresh[r].at]
    <2>1. PICK pc \in {"publish", "fail"} :
             /\ Onward(r, pc) /\ selection' \in {selection, [selection EXCEPT ![r] = chosen]}
             /\ pc = "publish" => selection' = [selection EXCEPT ![r] = chosen]
      BY <1>12 DEF WriteResearchSelectionRun
    <2>2. UNCHANGED <<row, stored, events>> /\ Stage(r, "select")
      BY <1>12 DEF WriteResearchSelectionRun
    <2>3. /\ chosen \in Selection /\ chosen # NoSelection
          /\ chosen.observed - chosen.at \in 0..MaxAge
      <3>1. refresh[r].slate # Never /\ refresh[r].at - refresh[r].slate \in 0..MaxAge
        BY <2>2 DEF RunDurable
      <3>2. refresh[r].slate \in Nat /\ refresh[r].at \in Nat
        BY DEF HistoryTypes, Refresh
      <3> QED
        BY <3>1, <3>2 DEF Selection, NoSelection
    <2> HIDE DEF chosen
    <2>5. /\ selection'[r] \in {selection[r], chosen} /\ (pc = "publish" => selection'[r] = chosen)
          /\ selection' \in [Refreshes -> Selection]
          /\ \A q \in Refreshes \ {r} : selection'[q] = selection[q]
      BY <2>1, <2>3 DEF HistoryTypes
    <2>4. Adds(r) /\ refresh'[r].pc = pc
      <3>1. /\ refresh' \in [Refreshes -> Refresh] /\ refresh'[r].pc = pc /\ refresh'[r].at = refresh[r].at
            /\ \A q \in Refreshes \ {r} : refresh'[q] = refresh[q]
        BY <2>1, StageMoves DEF Stages
      <3> QED
        BY <2>2, <2>5, <3>1 DEF Adds, HistoryTypes
    <2>6. Told(r)' <=> Told(r)
      BY <2>2 DEF Told
    <2> QED
      BY <2>1, <2>2, <2>3, <2>4, <2>5, <2>6 DEF RunDurable, Stage, Early
  <1>13. CASE Publish(r)
    <2>1. Onward(r, "release") /\ UNCHANGED durable
      BY <1>13 DEF Publish
    <2>2. Adds(r)
      BY <2>1, QuietStep DEF Stages
    <2> QED
      BY <2>1, <2>2, StageMoves, QuietKeeps DEF Stages
  <1>14. CASE ReleaseRefresh(r)
    <2>1. Onward(r, "done") /\ UNCHANGED durable
      BY <1>14 DEF ReleaseRefresh
    <2>2. Adds(r)
      BY <2>1, QuietStep DEF Stages
    <2> QED
      BY <2>1, <2>2, StageMoves, QuietKeeps DEF Stages
  <1> QED
    BY <1>1, <1>2, <1>3, <1>4, <1>5, <1>6, <1>7, <1>8, <1>9, <1>10, <1>11, <1>12, <1>13, <1>14 DEF Refreshing

-----------------------------------------------------------------------------
(* What the store says of all runs                                         *)

\* A stored observation keeps its time.
LEMMA TimesStand ==
  ASSUME HistoryTypes, NEW r \in Refreshes, RunDurable(r), Adds(r)
  PROVE  \A q \in Refreshes, n \in Names : <<q, n>> \in stored => refresh'[q].at = refresh[q].at
  <1>1. Stage(r, "prepare") => \A n \in Names : <<r, n>> \notin stored
    BY DEF RunDurable, Early, Stage
  <1> QED
    BY <1>1 DEF Adds

LEMMA NewestStillExists ==
  ASSUME HistoryInv, NEW r \in Refreshes, Adds(r), HistoryTypes'
  PROVE  NewestExists'
  <1> SUFFICES ASSUME NEW n \in Names, Observers(n)' # {}
               PROVE  \E x \in Observers(n)' : \A q \in Observers(n)' : refresh'[q].at <= refresh'[x].at
    BY DEF NewestExists
  <1>1. \A q \in Refreshes : <<q, n>> \in stored => refresh'[q].at = refresh[q].at
    BY TimesStand DEF HistoryInv
  <1>2. Observers(n) \subseteq Observers(n)' /\ Observers(n)' \subseteq Observers(n) \cup {r}
    BY DEF Observers, Adds
  <1>3. \A q \in Refreshes : refresh'[q].at \in Nat
    BY DEF HistoryTypes, Refresh
  <1>4. CASE Observers(n) = {}
    BY <1>2, <1>3, <1>4 DEF Observers
  <1>5. CASE Observers(n) # {}
    <2>1. PICK x \in Observers(n) : \A q \in Observers(n) : refresh[q].at <= refresh[x].at
      BY <1>5 DEF HistoryInv, NewestExists
    <2>2. \A q \in Observers(n) : refresh'[q].at <= refresh'[x].at
      BY <1>1, <2>1 DEF Observers
    <2>3. CASE r \in Observers(n)' /\ refresh'[x].at <= refresh'[r].at
      <3>1. \A q \in Observers(n)' : refresh'[q].at <= refresh'[r].at
        BY <1>2, <1>3, <2>2, <2>3 DEF Observers
      <3> QED
        BY <2>3, <3>1
    <2>4. CASE ~(r \in Observers(n)' /\ refresh'[x].at <= refresh'[r].at)
      BY <1>2, <1>3, <2>2, <2>4 DEF Observers
    <2> QED
      BY <2>3, <2>4
  <1> QED
    BY <1>4, <1>5

\* Events stay stored and backward in time when a run adds to the store,
\* if the new ones are.
LEMMA EventsStand ==
  ASSUME HistoryInv, NEW r \in Refreshes, Adds(r),
         \A e \in events' : e \in events \/ ValidateEventReferences(e)'
  PROVE  EventsStored' /\ \A e \in events' : e.previous # Nobody => refresh'[e.previous].at < refresh'[e.current].at
  <1>1. \A q \in Refreshes, n \in Names : <<q, n>> \in stored => refresh'[q].at = refresh[q].at
    BY TimesStand DEF HistoryInv
  <1> SUFFICES ASSUME NEW e \in events'
               PROVE  /\ <<e.current, e.name>> \in stored'
                      /\ e.previous # Nobody =>
                            <<e.previous, e.name>> \in stored' /\ refresh'[e.previous].at < refresh'[e.current].at
    BY DEF EventsStored
  <1>2. CASE e \in events
    <2>1. e.current \in Refreshes /\ e.name \in Names /\ (e.previous # Nobody => e.previous \in Refreshes)
      BY <1>2 DEF HistoryInv, HistoryTypes, Event, Someone
    <2>2. /\ <<e.current, e.name>> \in stored
          /\ e.previous # Nobody =>
                <<e.previous, e.name>> \in stored /\ refresh[e.previous].at < refresh[e.current].at
      BY <1>2 DEF HistoryInv, EventsStored, NoLookAhead
    <2> QED
      BY <1>1, <2>1, <2>2 DEF Adds
  <1>3. CASE ValidateEventReferences(e)'
    BY <1>3 DEF ValidateEventReferences
  <1> QED
    BY <1>2, <1>3

\* The events a step of a run adds are valid where it leaves the store.
LEMMA NewEventsValid ==
  ASSUME HistoryInv, NEW r \in Refreshes, Refreshing(r)
  PROVE  /\ events' # events => WriteResearchEvents(r)
         /\ \A e \in events' : e \in events \/ ValidateEventReferences(e)'
  <1>1. CASE WriteResearchEvents(r)
    <2>1. PICK pc \in {"baseline", "fail"} : Onward(r, pc)
      BY <1>1, EventsAdded DEF HistoryInv
    <2>2. \A q \in Refreshes : refresh'[q].at = refresh[q].at
      BY <2>1, StageMoves DEF HistoryInv, Stages
    <2>3. stored' = stored
      BY <1>1 DEF WriteResearchEvents
    <2> SUFFICES ASSUME NEW e \in events', e \notin events PROVE ValidateEventReferences(e)'
      BY <1>1
    <2>4. e \in Event /\ ValidateEventReferences(e)
      BY <1>1, EventsAdded DEF HistoryInv
    <2> QED
      BY <2>2, <2>3, <2>4 DEF ValidateEventReferences, Event, Someone
  <1>2. CASE ~WriteResearchEvents(r)
    BY <1>2 DEF Refreshing, WithRefreshLock, Announce, Prepare, ReadLatestPriorMandateScoreObservation,
       WriteResearchJobStart, CommitResearch, FinishResearchJobRun, FailResearchJobRun, SetMandateScores,
       LoadPrivateBaseline, WriteResearchSelectionRun, Publish, ReleaseRefresh, durable
  <1> QED
    BY <1>1, <1>2

\* What is published is of the run that publishes it, and of its last stage.
LEMMA PublishedIs ==
  ASSUME HistoryInv, NEW r \in Refreshes, Refreshing(r)
  PROVE  /\ published' = published \/ (published'.run = r /\ published'.state # "completed")
            \/ (published'.run = r /\ Stage(r, "publish"))
         /\ latest' = latest \/ (latest' = r /\ Stage(r, "view"))
         /\ published' \in [state : {"none", "running", "completed", "not_configured", "failed"}, run : Someone]
  <1>1. CASE Announce(r)
    <2>1. published' \in {published, [state |-> "running", run |-> r]} /\ latest' = latest
      BY <1>1, StatusIs DEF Announce
    <2> QED
      BY <2>1 DEF HistoryInv, HistoryTypes, Someone
  <1>2. CASE Publish(r)
    <2>1. /\ published' \in {published, [state |-> FinalState[refresh[r].pc], run |-> r]} /\ latest' = latest
          /\ refresh[r].pc \in {"publish", "unconfigured", "fail"}
      BY <1>2, StatusIs DEF Publish, FinalState
    <2>2. /\ FinalState[refresh[r].pc] \in {"completed", "not_configured", "failed"}
          /\ refresh[r].pc # "publish" => FinalState[refresh[r].pc] # "completed"
      BY <2>1 DEF FinalState
    <2> QED
      BY <2>1, <2>2 DEF HistoryInv, HistoryTypes, Someone, Stage
  <1>3. CASE ~Announce(r) /\ ~Publish(r)
    <2>1. published' = published /\ (latest' = latest \/ (latest' = r /\ Stage(r, "view")))
      BY <1>3 DEF Refreshing, WithRefreshLock, Prepare, ReadLatestPriorMandateScoreObservation,
         WriteResearchJobStart, CommitResearch, FinishResearchJobRun, FailResearchJobRun, SetMandateScores,
         WriteResearchEvents, LoadPrivateBaseline, WriteResearchSelectionRun, ReleaseRefresh
    <2> QED
      BY <2>1 DEF HistoryInv, HistoryTypes
  <1> QED
    BY <1>1, <1>2, <1>3

\* Every other action leaves the store and the runs' times alone.
LEMMA RestKeeps ==
  ASSUME HistoryInv, UNCHANGED <<durable, published, latest>>,
         \/ UNCHANGED refresh
         \/ \E r \in Refreshes : Onward(r, "dead"),
         HistoryTypes'
  PROVE  HistoryInv'
  <1>1. CASE UNCHANGED refresh
    <2>1. NewestExists' /\ EventsStored' /\ PublishedIsDurable' /\ NoLookAhead'
      BY <1>1 DEF HistoryInv, durable, NewestExists, Observers, EventsStored, PublishedIsDurable, NoLookAhead
    <2>2. \A r \in Refreshes : RunDurable(r)'
      BY <1>1 DEF HistoryInv, durable, RunDurable, Told, Stage
    <2> QED
      BY <2>1, <2>2 DEF HistoryInv
  <1>2. ASSUME NEW r \in Refreshes, Onward(r, "dead")
        PROVE  HistoryInv'
    <2>1. /\ \A q \in Refreshes \ {r} : refresh'[q] = refresh[q]
          /\ refresh'[r].pc = "dead" /\ refresh'[r].at = refresh[r].at /\ refresh'[r].slate = refresh[r].slate
          /\ Adds(r)
      BY <1>2, StageMoves, QuietStep DEF HistoryInv, Stages
    <2>2. RunDurable(r)'
      BY <2>1, QuietKeeps DEF HistoryInv
    <2>3. \A q \in Refreshes : RunDurable(q)'
      BY <2>1, <2>2, OthersStayDurable DEF HistoryInv
    <2>4. \A q \in Refreshes : refresh'[q].at = refresh[q].at
      BY <2>1
    <2>5. NewestExists'
      BY <2>1, NewestStillExists
    <2>6. EventsStored' /\ PublishedIsDurable' /\ (published'.state = "completed" => published'.run \in Refreshes)
      BY DEF HistoryInv, durable, EventsStored, PublishedIsDurable
    <2>7. NoLookAhead'
      BY <2>4 DEF HistoryInv, HistoryTypes, Event, Someone, durable, NoLookAhead
    <2> QED
      BY <2>3, <2>5, <2>6, <2>7 DEF HistoryInv
  <1> QED
    BY <1>1, <1>2

\* A selection is not taken back.
LEMMA SelectionStays ==
  ASSUME HistoryInv, NEW r \in Refreshes, Refreshing(r), selection[r] # NoSelection
  PROVE  selection'[r] # NoSelection
  <1>1. CASE WriteResearchSelectionRun(r)
    <2> DEFINE chosen == [at |-> refresh[r].slate, observed |-> refresh[r].at]
    <2>1. selection' \in {selection, [selection EXCEPT ![r] = chosen]} /\ Stage(r, "select")
      BY <1>1 DEF WriteResearchSelectionRun
    <2>2. chosen # NoSelection
      BY <2>1 DEF HistoryInv, RunDurable, NoSelection
    <2> HIDE DEF chosen
    <2> QED
      BY <2>1, <2>2 DEF HistoryInv, HistoryTypes
  <1>2. CASE ~WriteResearchSelectionRun(r)
    BY <1>2 DEF Refreshing, WithRefreshLock, Announce, Prepare, ReadLatestPriorMandateScoreObservation,
       WriteResearchJobStart, CommitResearch, FinishResearchJobRun, FailResearchJobRun, SetMandateScores,
       WriteResearchEvents, LoadPrivateBaseline, Publish, ReleaseRefresh, durable
  <1> QED
    BY <1>1, <1>2

LEMMA RunKeepsHistory ==
  ASSUME HistoryInv, NEW r \in Refreshes, Refreshing(r)
  PROVE  HistoryInv'
  <1>1. Adds(r) /\ RunDurable(r)' /\ RunDurable(r)
    BY StepIsDurable DEF HistoryInv
  <1>2. \A q \in Refreshes : RunDurable(q)'
    BY <1>1, OthersStayDurable DEF HistoryInv
  <1>3. HistoryTypes'
    <2>1. now' = now /\ slate' = slate /\ outlived' = outlived /\ holder' \in Someone
      BY DEF Refreshing, WithRefreshLock, Announce, Prepare, ReadLatestPriorMandateScoreObservation,
         WriteResearchJobStart, CommitResearch, FinishResearchJobRun, FailResearchJobRun, SetMandateScores,
         WriteResearchEvents, LoadPrivateBaseline, WriteResearchSelectionRun, Publish, ReleaseRefresh, durable,
         HistoryInv, HistoryTypes, Someone
    <2>2. latest' \in Someone
      BY PublishedIs DEF HistoryInv, HistoryTypes, Someone
    <2>3. stored' \in SUBSET (Refreshes \X Names) /\ events' \in SUBSET Event
      BY <1>1 DEF HistoryInv, HistoryTypes, Adds
    <2> QED
      BY <1>1, <2>1, <2>2, <2>3, PublishedIs DEF Adds, HistoryInv, HistoryTypes
  <1>4. NewestExists'
    BY <1>1, <1>3, NewestStillExists
  <1>5. EventsStored' /\ NoLookAhead'
    BY <1>1, <1>2, EventsStand, NewEventsValid DEF NoLookAhead, RunDurable
  <1>6. PublishedIsDurable'
    <2>1. \A q \in Refreshes : row'[q] = "completed" => {q} \X Names \subseteq stored'
      BY <1>2 DEF RunDurable
    <2>2. ASSUME NEW q \in Refreshes, row[q] = "completed"
          PROVE  row'[q] = "completed"
      <3>1. CASE q # r
        BY <1>1, <2>2, <3>1 DEF Adds
      <3>2. CASE q = r
        <4>1. ~Stage(r, "start")
          BY <1>1, <2>2, <3>2 DEF RunDurable, Early, Stage
        <4>2. row' \in {row, [row EXCEPT ![r] = "completed"]} \/ FailResearchJobRun(r)
          BY <4>1 DEF Refreshing, WithRefreshLock, Announce, Prepare, ReadLatestPriorMandateScoreObservation,
             WriteResearchJobStart, CommitResearch, FinishResearchJobRun, SetMandateScores,
             WriteResearchEvents, LoadPrivateBaseline, WriteResearchSelectionRun, Publish, ReleaseRefresh, durable
        <4> QED
          BY <2>2, <3>2, <4>2 DEF FailResearchJobRun, HistoryInv, HistoryTypes
      <3> QED
        BY <3>1, <3>2
    <2>3. latest' # Nobody => row'[latest'] = "completed"
      <3>1. latest' = latest \/ (latest' = r /\ row[r] = "completed")
        BY <1>1, PublishedIs DEF RunDurable, Stage
      <3> QED
        BY <2>2, <3>1 DEF HistoryInv, HistoryTypes, Someone, PublishedIsDurable
    <2>4. published'.state = "completed" =>
             /\ row'[published'.run] = "completed" /\ selection'[published'.run] # NoSelection
             /\ \A n \in Names : \E e \in events' : e.current = published'.run /\ e.name = n
      <3> SUFFICES ASSUME published'.state = "completed", NEW p, p = published'.run
                   PROVE  /\ row'[p] = "completed" /\ selection'[p] # NoSelection
                          /\ \A n \in Names : \E e \in events' : e.current = p /\ e.name = n
        OBVIOUS
      <3>1. row[p] = "completed" /\ p \in Refreshes /\ selection[p] # NoSelection /\ Told(p)
        <4>1. CASE published' = published
          BY <1>3, <4>1 DEF HistoryInv, HistoryTypes, Someone, PublishedIsDurable, Told
        <4>2. CASE p = r /\ Stage(r, "publish")
          BY <1>1, <4>2 DEF RunDurable, Stage
        <4> QED
          BY <4>1, <4>2, PublishedIs
      <3>2. row'[p] = "completed"
        BY <2>2, <3>1
      <3>3. \A n \in Names : \E e \in events' : e.current = p /\ e.name = n
        BY <1>1, <3>1 DEF Told, Adds
      <3>4. selection'[p] # NoSelection
        BY <1>1, <3>1, SelectionStays DEF Adds
      <3> QED
        BY <3>2, <3>3, <3>4
    <2> QED
      BY <2>1, <2>3, <2>4 DEF PublishedIsDurable
  <1>7. published'.state = "completed" => published'.run \in Refreshes
    BY PublishedIs DEF HistoryInv
  <1> QED
    BY <1>2, <1>3, <1>4, <1>5, <1>6, <1>7 DEF HistoryInv

LEMMA HistoryKept ==
  ASSUME HistoryInv, [HistoryNext]_historyVars
  PROVE  HistoryInv'
  <1>1. CASE \E r \in Refreshes : Refreshing(r)
    BY <1>1, RunKeepsHistory
  <1>2. CASE \E r \in Refreshes : RefreshDies(r)
    <2>1. PICK r \in Refreshes : RefreshDies(r)
      BY <1>2
    <2>2. refresh' \in [Refreshes -> Refresh]
      BY <2>1, StageMoves DEF RefreshDies, HistoryInv, Stages
    <2>3. HistoryTypes'
      <3>1. UNCHANGED <<now, holder, row, stored, events, selection, slate, published, latest, outlived>>
        BY <2>1 DEF RefreshDies, durable
      <3> QED
        BY <2>2, <3>1 DEF HistoryInv, HistoryTypes
    <2> QED
      BY <2>1, <2>3, RestKeeps DEF RefreshDies
  <1>3. CASE RefreshLockExpires \/ SetPrivateResearchSlate \/ TimePasses
    <2>1. UNCHANGED <<durable, published, latest, refresh>>
      BY <1>3 DEF RefreshLockExpires, SetPrivateResearchSlate, TimePasses
    <2>2. now' \in Nat /\ slate' \in Nat /\ holder' \in Someone /\ outlived' \in BOOLEAN
      <3>1. CASE RefreshLockExpires
        <4>1. outlived' = TRUE \/ outlived' = outlived
          BY <3>1 DEF RefreshLockExpires
        <4>2. UNCHANGED <<now, slate>> /\ holder' = Nobody
          BY <3>1 DEF RefreshLockExpires
        <4> QED
          BY <4>1, <4>2 DEF HistoryInv, HistoryTypes, Someone
      <3>2. CASE SetPrivateResearchSlate
        BY <3>2 DEF SetPrivateResearchSlate, HistoryInv, HistoryTypes
      <3>3. CASE TimePasses
        BY <3>3 DEF TimePasses, HistoryInv, HistoryTypes
      <3> QED
        BY <1>3, <3>1, <3>2, <3>3
    <2>3. HistoryTypes'
      BY <2>1, <2>2 DEF HistoryInv, HistoryTypes, durable
    <2> QED
      BY <2>1, <2>3, RestKeeps
  <1>4. CASE UNCHANGED historyVars
    <2>1. HistoryTypes'
      BY <1>4 DEF historyVars, durable, HistoryInv, HistoryTypes
    <2> QED
      BY <1>4, <2>1, RestKeeps DEF historyVars
  <1> QED
    BY <1>1, <1>2, <1>3, <1>4 DEF HistoryNext

LEMMA HistoryStarts == HistoryInit => HistoryInv
  <1> SUFFICES ASSUME HistoryInit PROVE HistoryInv
    OBVIOUS
  <1>1. HistoryTypes
    BY DEF HistoryInit, HistoryTypes, Someone, Refresh, Selection, Stages, Unset, NoSelection, Never, Nobody
  <1>2. \A r \in Refreshes : RunDurable(r)
    BY DEF HistoryInit, RunDurable, Stage, Unset, NoSelection, Never
  <1>3. NewestExists /\ EventsStored /\ PublishedIsDurable /\ NoLookAhead
    BY DEF HistoryInit, NewestExists, Observers, EventsStored, PublishedIsDurable, NoLookAhead, NoSelection, Never
  <1> QED
    BY <1>1, <1>2, <1>3 DEF HistoryInv, HistoryInit

-----------------------------------------------------------------------------
(* The lock                                                                *)

\* A run at work holds the lock.
LockHeld == \A r \in Refreshes : Alive(r) => holder = r

\* What a run found newest is still the newest, its own observation aside.
PriorCurrent(r) ==
    refresh[r].pc \in {"start", "data", "finish", "view", "events"} =>
        \A n \in Names :
            /\ refresh[r].prior[n] = Nobody => Observers(n) \subseteq {r}
            /\ refresh[r].prior[n] # Nobody =>
                  /\ refresh[r].prior[n] \in Observers(n)
                  /\ \A q \in Observers(n) \ {r} : refresh[q].at <= refresh[refresh[r].prior[n]].at

OneAtATime == LockHeld /\ OneSuccessor /\ \A r \in Refreshes : PriorCurrent(r)
LineInv == HistoryInv /\ (outlived \/ OneAtATime)

\* While one run is at work the others are not.
LEMMA OneRunAlive ==
  ASSUME LockHeld, NEW r \in Refreshes, Alive(r), NEW q \in Refreshes \ {r}
  PROVE  ~Alive(q)
  BY DEF LockHeld

LEMMA LockStaysHeld ==
  ASSUME HistoryInv, LockHeld, NEW r \in Refreshes, Refreshing(r)
  PROVE  LockHeld'
  <1>1. \A q \in Refreshes \ {r} : refresh'[q] = refresh[q]
    BY StepIsDurable DEF HistoryInv, Adds
  <1>2. CASE WithRefreshLock(r)
    <2>1. CASE holder = Nobody /\ holder' = r
      BY <1>1, <2>1, HistoryAssumption DEF LockHeld, Alive
    <2>2. CASE holder' = holder /\ Onward(r, "done")
      <3>1. refresh'[r].pc = "done"
        BY <2>2, StageMoves DEF HistoryInv, Stages
      <3> QED
        BY <1>1, <2>2, <3>1 DEF LockHeld, Alive
    <2> QED
      BY <1>2, <2>1, <2>2 DEF WithRefreshLock
  <1>3. CASE ReleaseRefresh(r)
    <2>1. refresh'[r].pc = "done"
      BY <1>3, StageMoves DEF HistoryInv, Stages, ReleaseRefresh
    <2>2. holder = r
      BY <1>3 DEF ReleaseRefresh, Stage, LockHeld, Alive
    <2>3. \A q \in Refreshes \ {r} : ~Alive(q)
      BY <2>2 DEF LockHeld
    <2> QED
      BY <1>1, <2>1, <2>3 DEF LockHeld, Alive
  <1>4. CASE ~WithRefreshLock(r) /\ ~ReleaseRefresh(r)
    <2>1. holder' = holder /\ Alive(r)
      BY <1>4 DEF Refreshing, Announce, Prepare, ReadLatestPriorMandateScoreObservation,
         WriteResearchJobStart, CommitResearch, FinishResearchJobRun, FailResearchJobRun, SetMandateScores,
         WriteResearchEvents, LoadPrivateBaseline, WriteResearchSelectionRun, Publish, Stage, Alive, FinalState
    <2> QED
      BY <1>1, <2>1 DEF LockHeld, Alive
  <1> QED
    BY <1>2, <1>3, <1>4

Comparing == {"start", "data", "finish", "view", "events"}

LEMMA PriorStaysCurrent ==
  ASSUME HistoryInv, OneAtATime, NEW r \in Refreshes, Refreshing(r)
  PROVE  \A q \in Refreshes : PriorCurrent(q)'
  <1>0. Adds(r) /\ RunDurable(r)
    BY StepIsDurable DEF HistoryInv
  <1>1. ASSUME NEW q \in Refreshes \ {r}
        PROVE  PriorCurrent(q)'
    <2>1. refresh'[q] = refresh[q]
      BY <1>0 DEF Adds
    <2>2. CASE refresh[q].pc \notin Comparing
      BY <2>1, <2>2 DEF PriorCurrent, Comparing
    <2>3. CASE refresh[q].pc \in Comparing
      <3>1. ~Alive(r)
        BY <2>3, OneRunAlive DEF OneAtATime, Alive, Comparing
      <3>2. WithRefreshLock(r)
        BY <3>1 DEF Refreshing, Announce, Prepare, ReadLatestPriorMandateScoreObservation, WriteResearchJobStart,
           CommitResearch, FinishResearchJobRun, FailResearchJobRun, SetMandateScores, WriteResearchEvents,
           LoadPrivateBaseline, WriteResearchSelectionRun, Publish, ReleaseRefresh, Stage, Alive, FinalState
      <3>3. UNCHANGED stored /\ \A x \in Refreshes : refresh'[x].at = refresh[x].at
        BY <1>0, <3>2 DEF WithRefreshLock, durable, Adds, Stage
      <3>4. PriorCurrent(q) /\ refresh[q].prior \in [Names -> Someone]
        BY DEF OneAtATime, HistoryInv, HistoryTypes, Refresh
      <3> QED
        BY <2>1, <3>3, <3>4 DEF PriorCurrent, Observers, Someone
    <2> QED
      BY <2>2, <2>3
  <1>2. PriorCurrent(r)'
    <2>1. CASE refresh' = [refresh EXCEPT ![r].pc = "start", ![r].prior = [n \in Names |-> Newest(n)]]
               /\ Stage(r, "priors") /\ UNCHANGED durable
      <3>1. /\ refresh'[r].prior = [n \in Names |-> Newest(n)]
            /\ \A q \in Refreshes : refresh'[q].at = refresh[q].at
        BY <2>1 DEF HistoryInv, HistoryTypes, Refresh
      <3>2. ASSUME NEW n \in Names
            PROVE  /\ Newest(n) = Nobody => Observers(n) \subseteq {r}
                   /\ Newest(n) # Nobody =>
                         /\ Newest(n) \in Observers(n)
                         /\ \A q \in Observers(n) \ {r} : refresh[q].at <= refresh[Newest(n)].at
        BY NewestIs, HistoryAssumption DEF HistoryInv, Observers
      <3>3. \A n \in Names : Observers(n)' = Observers(n) /\ Observers(n) \subseteq Refreshes
        BY <2>1 DEF Observers, durable
      <3> QED
        BY <3>1, <3>2, <3>3 DEF PriorCurrent
    <2>2. CASE /\ refresh[r].pc \in Comparing
               /\ refresh'[r].prior = refresh[r].prior /\ refresh'[r].at = refresh[r].at
      <3>1. \A q \in Refreshes : refresh'[q].at = refresh[q].at
        BY <1>0, <2>2 DEF Adds
      <3>2. \A n \in Names : /\ Observers(n) \subseteq Observers(n)' /\ Observers(n)' \subseteq Observers(n) \cup {r}
                             /\ Observers(n) \subseteq Refreshes
        BY <1>0 DEF Adds, Observers
      <3>3. PriorCurrent(r)
        BY DEF OneAtATime
      <3> QED
        BY <2>2, <3>1, <3>2, <3>3 DEF PriorCurrent, Comparing
    <2>3. CASE refresh'[r].pc \notin Comparing
      BY <2>3 DEF PriorCurrent, Comparing
    <2>4. CASE ReadLatestPriorMandateScoreObservation(r)
      <3>1. Onward(r, "fail") => refresh'[r].pc \notin Comparing
        BY StageMoves DEF HistoryInv, Stages, Comparing
      <3> QED
        BY <2>1, <2>3, <2>4, <3>1 DEF ReadLatestPriorMandateScoreObservation
    <2>5. CASE ~ReadLatestPriorMandateScoreObservation(r) /\ refresh'[r].pc \in Comparing
      <3>1. CASE \/ WriteResearchJobStart(r) \/ CommitResearch(r) \/ FinishResearchJobRun(r)
                 \/ SetMandateScores(r) \/ WriteResearchEvents(r)
        <4>1. refresh[r].pc \in Comparing
          BY <3>1 DEF WriteResearchJobStart, CommitResearch, FinishResearchJobRun, SetMandateScores,
             WriteResearchEvents, Stage, Comparing
        <4>2. \E pc \in Stages : Onward(r, pc)
          BY <3>1 DEF WriteResearchJobStart, CommitResearch, FinishResearchJobRun, SetMandateScores,
             WriteResearchEvents, Stages
        <4> QED
          BY <2>2, <4>1, <4>2, StageMoves DEF HistoryInv
      <3>2. CASE \/ WithRefreshLock(r) \/ Announce(r) \/ FailResearchJobRun(r) \/ WriteResearchSelectionRun(r)
                 \/ Publish(r) \/ ReleaseRefresh(r)
        <4>1. \E pc \in Stages \ Comparing : Onward(r, pc)
          BY <3>2 DEF WithRefreshLock, Announce, FailResearchJobRun, WriteResearchSelectionRun, Publish, ReleaseRefresh,
             Stages, Comparing
        <4> QED
          BY <2>5, <4>1, StageMoves DEF HistoryInv
      <3>3. CASE Prepare(r)
        <4>1. CASE Onward(r, "fail")
          BY <2>5, <4>1, StageMoves DEF HistoryInv, Stages, Comparing
        <4>2. CASE refresh' = [refresh EXCEPT ![r].pc = "priors", ![r].at = now]
          BY <2>5, <4>2 DEF HistoryInv, HistoryTypes, Refresh, Comparing
        <4> QED
          BY <3>3, <4>1, <4>2 DEF Prepare
      <3>4. CASE LoadPrivateBaseline(r)
        <4>1. CASE Onward(r, "unconfigured")
          BY <2>5, <4>1, StageMoves DEF HistoryInv, Stages, Comparing
        <4>2. CASE \E pc \in {"select", "unconfigured"} : refresh' = [refresh EXCEPT ![r].slate = slate, ![r].pc = pc]
          BY <2>5, <4>2 DEF HistoryInv, HistoryTypes, Refresh, Comparing
        <4> QED
          BY <3>4, <4>1, <4>2 DEF LoadPrivateBaseline
      <3> QED
        BY <2>5, <3>1, <3>2, <3>3, <3>4 DEF Refreshing
    <2> QED
      BY <2>3, <2>4, <2>5
  <1> QED
    BY <1>1, <1>2

LEMMA SuccessorStaysOne ==
  ASSUME HistoryInv, OneAtATime, NEW r \in Refreshes, Refreshing(r), ~outlived
  PROVE  OneSuccessor'
  <1>1. CASE events' = events
    BY <1>1 DEF OneAtATime, OneSuccessor
  <1>2. CASE WriteResearchEvents(r)
    <2>1. \A e \in events' : e \in events \/ e \in BuildResearchEvents(r)
      BY <1>2, EventsAdded DEF HistoryInv
    <2>2. ASSUME NEW e \in BuildResearchEvents(r), NEW f \in events, e.name = f.name, e.previous = f.previous
          PROVE  FALSE
      <3>1. /\ e.name \in Names /\ e.previous = refresh[r].prior[e.name]
            /\ f.current \in Refreshes \ {r} /\ f.previous \in Someone
        BY <1>2, <2>2 DEF BuildResearchEvents, HistoryInv, HistoryTypes, Event, RunDurable, WriteResearchEvents, Stage
      <3>2. f.current \in Observers(e.name) \ {r}
        BY <2>2, <3>1 DEF HistoryInv, EventsStored, Observers
      <3>3. /\ e.previous # Nobody
            /\ refresh[f.current].at <= refresh[e.previous].at
        BY <1>2, <3>1, <3>2 DEF OneAtATime, PriorCurrent, WriteResearchEvents, Stage
      <3>4. refresh[e.previous].at < refresh[f.current].at
        BY <2>2, <3>3 DEF HistoryInv, NoLookAhead
      <3>5. refresh[e.previous].at \in Nat /\ refresh[f.current].at \in Nat
        BY <2>2, <3>1, <3>3 DEF HistoryInv, HistoryTypes, Refresh, Someone
      <3> QED
        BY <3>3, <3>4, <3>5
    <2>3. \A e, f \in BuildResearchEvents(r) : e.name = f.name => e = f
      BY DEF BuildResearchEvents
    <2>4. \A e, f \in events : e.name = f.name /\ e.previous = f.previous => e = f
      BY DEF OneAtATime, OneSuccessor
    <2> QED
      BY <2>1, <2>2, <2>3, <2>4 DEF OneSuccessor
  <1> QED
    BY <1>1, <1>2, NewEventsValid

-----------------------------------------------------------------------------
(* The theorems                                                            *)

\* What Redis publishes of a run is in Postgres, whichever calls fail, die or
\* lose their reply, for any number of overlapping runs (runMandateScoring,
\* setResearchDataStatus).
THEOREM PublishedLasts == HistorySpec => []PublishedIsDurable
  <1>1. HistoryInv => PublishedIsDurable
    BY DEF HistoryInv
  <1> QED
    BY <1>1, HistoryStarts, HistoryKept, PTL DEF HistorySpec

\* The history of a name is one line in time: nothing compares with what is
\* not older, and no observation has two successors, for any number of runs
\* of which none outlives its lock (validateEventReferences).
THEOREM HistoryIsALine == HistorySpec => []OneLineInTime
  <1>1. HistoryInit => LineInv
    <2>1. HistoryInit => OneAtATime
      BY DEF HistoryInit, OneAtATime, LockHeld, OneSuccessor, PriorCurrent, Alive, Unset
    <2> QED
      BY <2>1, HistoryStarts DEF LineInv
  <1>2. LineInv /\ [HistoryNext]_historyVars => LineInv'
    <2> SUFFICES ASSUME LineInv, [HistoryNext]_historyVars PROVE LineInv'
      OBVIOUS
    <2>0. HistoryInv /\ HistoryInv'
      BY HistoryKept DEF LineInv
    <2>1. CASE \E r \in Refreshes : Refreshing(r)
      <3>1. PICK r \in Refreshes : Refreshing(r)
        BY <2>1
      <3>2. outlived' = outlived
        BY <3>1 DEF Refreshing, WithRefreshLock, Announce, Prepare, ReadLatestPriorMandateScoreObservation,
           WriteResearchJobStart, CommitResearch, FinishResearchJobRun, FailResearchJobRun, SetMandateScores,
           WriteResearchEvents, LoadPrivateBaseline, WriteResearchSelectionRun, Publish, ReleaseRefresh
      <3> QED
        BY <2>0, <3>1, <3>2, LockStaysHeld, PriorStaysCurrent, SuccessorStaysOne DEF LineInv, OneAtATime
    <2>2. CASE \E r \in Refreshes : RefreshDies(r)
      <3>1. PICK r \in Refreshes : RefreshDies(r)
        BY <2>2
      <3>2. /\ \A q \in Refreshes \ {r} : refresh'[q] = refresh[q]
            /\ refresh'[r].pc = "dead" /\ \A q \in Refreshes : refresh'[q].at = refresh[q].at
        BY <2>0, <3>1, StageMoves DEF RefreshDies, HistoryInv, Stages
      <3>3. UNCHANGED <<holder, stored, events, outlived>>
        BY <3>1 DEF RefreshDies, durable
      <3>4. LockHeld => LockHeld'
        BY <3>2, <3>3 DEF LockHeld, Alive
      <3>5. ASSUME NEW q \in Refreshes, PriorCurrent(q)
            PROVE  PriorCurrent(q)'
        <4>1. refresh[q].prior \in [Names -> Someone]
          BY <2>0 DEF HistoryInv, HistoryTypes, Refresh
        <4> QED
          BY <3>2, <3>3, <3>5, <4>1 DEF PriorCurrent, Observers, Someone
      <3> QED
        BY <2>0, <3>3, <3>4, <3>5 DEF LineInv, OneAtATime, OneSuccessor
    <2>3. CASE RefreshLockExpires
      <3>1. UNCHANGED <<refresh, stored, events>> /\ holder' = Nobody
        BY <2>3 DEF RefreshLockExpires, durable
      <3>2. outlived' \/ (outlived' = outlived /\ ~Alive(holder))
        BY <2>3 DEF RefreshLockExpires
      <3>3. LockHeld /\ ~Alive(holder) => LockHeld'
        BY <3>1 DEF LockHeld, Alive
      <3> QED
        BY <2>0, <3>1, <3>2, <3>3 DEF LineInv, OneAtATime, OneSuccessor, PriorCurrent, Observers
    <2>4. CASE UNCHANGED <<refresh, holder, stored, events, outlived>>
      BY <2>0, <2>4 DEF LineInv, OneAtATime, LockHeld, Alive, OneSuccessor, PriorCurrent, Observers
    <2> QED
      BY <2>1, <2>2, <2>3, <2>4 DEF HistoryNext, SetPrivateResearchSlate, TimePasses, durable, historyVars
  <1>3. LineInv => OneLineInTime
    BY DEF LineInv, HistoryInv, OneAtATime, OneLineInTime, OneSuccessor
  <1> QED
    BY <1>1, <1>2, <1>3, PTL DEF HistorySpec

-------------------------------------------------------------------------------
(* The daily comparison with the shadow                                    *)
(*                                                                         *)
(* What it has read of an object that has not moved since is what is still *)
(* there, or the object is among the unread.                               *)

CheckShape == {"pc", "left", "right", "unread", "quotes", "stale", "expired", "blind", "moved", "matched", "ok"}
ShapesHold ==
  /\ DOMAIN check = CheckShape /\ check.pc \in {"idle", "reading", "done"}
  /\ DOMAIN books = Objects /\ DOMAIN shadow = Objects
LeftIsRead ==
  /\ check.stale \cup check.expired \subseteq check.moved /\ check.blind \subseteq Proposals \cap DOMAIN check.left
  /\ \A d \in Domains \ check.unread : \A x \in (Members(d) \cap DOMAIN check.left) \ check.moved :
        check.left[x] = IF x \in check.blind THEN Nil ELSE books[x]
RightIsRead ==
  \A d \in Domains \ check.unread : \A x \in (Members(d) \cap DOMAIN check.right) \ check.moved :
     check.right[x] = shadow[x]
NothingReadYet == check.pc = "idle" => DOMAIN check.left = {} /\ DOMAIN check.right = {}
Concluded ==
  check.pc = "done" =>
     /\ DOMAIN check.left = Objects /\ DOMAIN check.right = Objects
     /\ check.matched = FailClosedOnReadErrors(CompareParity)
     /\ check.ok => check.matched = Domains
ParityInv == ShapesHold /\ LeftIsRead /\ RightIsRead /\ NothingReadYet /\ Concluded

\* An object is in its own domain and no other.
LEMMA OneDomain ==
  ASSUME NEW d \in Domains, NEW x \in Members(d)
  PROVE  x \in Objects /\ (x \in Tables => x = d) /\ (x \in Proposals => d = "proposals")
  BY ParityConstants DEF Domains, Members, Objects

LEMMA ParityStart == ASSUME ParityInit PROVE ParityInv
  BY DEF ParityInit, NoCheck, ParityInv, ShapesHold, CheckShape, LeftIsRead, RightIsRead, NothingReadYet, Concluded

\* The comparison stands still.
LEMMA ParityStill == ASSUME ParityInv, UNCHANGED <<books, shadow, check>> PROVE ParityInv'
  BY DEF ParityInv, ShapesHold, LeftIsRead, RightIsRead, NothingReadYet, Concluded, FailClosedOnReadErrors, CompareParity

\* An object that changes on a side has moved.
LEMMA MovedIsNoted ==
  ASSUME ParityInv, NEW y \in Objects, Moved(y), DOMAIN books' = Objects, DOMAIN shadow' = Objects,
         \A x \in Objects \ {y} : books'[x] = books[x] /\ shadow'[x] = shadow[x]
  PROVE  ParityInv'
  <1>1. CASE check.pc = "idle"
    <2>1. check' = check
      BY <1>1 DEF Moved
    <2> QED
      BY <1>1, <2>1 DEF ParityInv, ShapesHold, LeftIsRead, RightIsRead, NothingReadYet, Concluded
  <1>2. CASE check.pc # "idle"
    <2>1. check' = [check EXCEPT !.moved = @ \cup {y}]
      BY <1>2 DEF Moved
    <2>2. /\ DOMAIN check' = CheckShape /\ check'.moved = check.moved \cup {y}
          /\ check'.pc = check.pc /\ check'.left = check.left /\ check'.right = check.right
          /\ check'.unread = check.unread /\ check'.matched = check.matched
          /\ check'.stale = check.stale /\ check'.expired = check.expired /\ check'.blind = check.blind
      BY <2>1 DEF ParityInv, ShapesHold, CheckShape
    <2>3. check'.ok <=> check.ok
      BY <2>1 DEF ParityInv, ShapesHold, CheckShape
    <2>4. LeftIsRead'
      BY <2>2, OneDomain DEF ParityInv, LeftIsRead
    <2>5. RightIsRead'
      BY <2>2, OneDomain DEF ParityInv, RightIsRead
    <2>6. Concluded'
      BY <2>2, <2>3 DEF ParityInv, Concluded, FailClosedOnReadErrors, CompareParity
    <2> QED
      BY <1>2, <2>2, <2>4, <2>5, <2>6 DEF ParityInv, ShapesHold, NothingReadYet
  <1> QED
    BY <1>1, <1>2

LEMMA BooksAreMoved == ASSUME ParityInv, NEW w \in Scribes, WritesBooks(w) PROVE ParityInv'
  <1>1. PICK x \in Objects, v \in (Content \cup {Expired}) \ {Nil} : books' = [books EXCEPT ![x] = v] /\ Moved(x)
    BY DEF WritesBooks
  <1>2. shadow' = shadow
    BY DEF WritesBooks
  <1> QED
    BY <1>1, <1>2, MovedIsNoted DEF ParityInv, ShapesHold

\* What is copied is an object of the books.
LEMMA CopyIsNoted ==
  ASSUME ParityInv, NEW w \in Scribes, scribe[w].object \in Objects, RunShadowOperation(w)
  PROVE  ParityInv'
  <1>1. books' = books
    BY DEF RunShadowOperation
  <1>2. CASE UNCHANGED <<shadow, check>>
    BY <1>1, <1>2, ParityStill
  <1>3. CASE /\ shadow' = [shadow EXCEPT ![scribe[w].object] = Copied(scribe[w].object, scribe[w].content)]
             /\ Moved(scribe[w].object)
    BY <1>1, <1>3, MovedIsNoted DEF ParityInv, ShapesHold
  <1> QED
    BY <1>2, <1>3 DEF RunShadowOperation

LEMMA StartReads == ASSUME ParityInv, StartCheck PROVE ParityInv'
  <1>1. check.pc = "idle" /\ check' = [check EXCEPT !.pc = "reading"] /\ UNCHANGED <<books, shadow>>
    BY DEF StartCheck
  <1>2. /\ DOMAIN check' = CheckShape /\ check'.pc = "reading" /\ check'.left = check.left /\ check'.right = check.right
        /\ check'.unread = check.unread /\ check'.moved = check.moved /\ check'.blind = check.blind
        /\ check'.stale = check.stale /\ check'.expired = check.expired
    BY <1>1 DEF ParityInv, ShapesHold, CheckShape
  <1> QED
    BY <1>1, <1>2 DEF ParityInv, ShapesHold, LeftIsRead, RightIsRead, NothingReadYet, Concluded

\* Reading the objects S of the books: what is found of one that did not move
\* and has no error is its content, or nothing when its own read failed.
LEMMA Gathers ==
  ASSUME ParityInv, check.pc = "reading", DOMAIN check' = CheckShape, check'.pc = "reading",
         check'.right = check.right, check.unread \subseteq check'.unread, check.moved \subseteq check'.moved,
         check'.stale \cup check'.expired \subseteq check'.moved,
         NEW S \in SUBSET Objects, NEW found, check'.left = Reads(check.left, S, found),
         check.blind \subseteq check'.blind, check'.blind \subseteq check.blind \cup (S \cap Proposals),
         DOMAIN books' = Objects, DOMAIN shadow' = Objects,
         \A x \in Objects \ check'.moved : books'[x] = books[x] /\ shadow'[x] = shadow[x],
         \A x \in S : \/ x \in check'.moved \/ x \in Tables \cap check'.unread
                      \/ found[x] = IF x \in check'.blind THEN Nil ELSE books[x]
  PROVE  ParityInv'
  <1>1. /\ DOMAIN check'.left = DOMAIN check.left \cup S
        /\ \A x \in DOMAIN check'.left : check'.left[x] = IF x \in S THEN found[x] ELSE check.left[x]
    BY DEF Reads
  <1>2. ASSUME NEW d \in Domains \ check'.unread, NEW x \in (Members(d) \cap DOMAIN check'.left) \ check'.moved
        PROVE  check'.left[x] = IF x \in check'.blind THEN Nil ELSE books'[x]
    <2>1. x \in Objects /\ (x \in Tables => x = d)
      BY OneDomain
    <2>2. CASE x \in S
      BY <1>1, <2>1, <2>2
    <2>3. CASE x \notin S
      <3>1. x \in (Members(d) \cap DOMAIN check.left) \ check.moved /\ d \in Domains \ check.unread
        BY <1>1, <2>3
      <3> QED
        BY <1>1, <2>1, <2>3, <3>1 DEF ParityInv, LeftIsRead
    <2> QED
      BY <2>2, <2>3
  <1>3. LeftIsRead'
    <2>1. check.blind \subseteq Proposals \cap DOMAIN check.left
      BY DEF ParityInv, LeftIsRead
    <2>2. check'.blind \subseteq Proposals \cap DOMAIN check'.left
      BY <1>1, <2>1
    <2> QED
      BY <1>2, <2>2 DEF LeftIsRead
  <1>4. RightIsRead'
    BY OneDomain DEF ParityInv, RightIsRead
  <1> QED
    BY <1>3, <1>4 DEF ParityInv, ShapesHold, NothingReadYet, Concluded

LEMMA ListReads == ASSUME ParityInv, ListFails PROVE ParityInv'
  <1>1. /\ check.pc = "reading" /\ UNCHANGED <<books, shadow>>
        /\ check' = [check EXCEPT !.left = Reads(@, Proposals, Nothing), !.blind = Proposals]
    BY DEF ListFails
  <1>2. /\ DOMAIN check' = CheckShape /\ check'.pc = "reading" /\ check'.left = Reads(check.left, Proposals, Nothing)
        /\ check'.right = check.right /\ check'.unread = check.unread /\ check'.moved = check.moved
        /\ check'.blind = Proposals /\ check'.stale = check.stale /\ check'.expired = check.expired
    BY <1>1 DEF ParityInv, ShapesHold, CheckShape
  <1>3. Proposals \in SUBSET Objects /\ \A x \in Proposals : Nothing[x] = Nil
    BY DEF Nothing, Objects
  <1>4. /\ check.blind \subseteq Proposals /\ check.stale \cup check.expired \subseteq check.moved
        /\ DOMAIN books = Objects /\ DOMAIN shadow = Objects
    BY DEF ParityInv, ShapesHold, LeftIsRead
  <1> QED
    BY <1>1, <1>2, <1>3, <1>4, Gathers

LEMMA ProposalReads == ASSUME ParityInv, NEW p \in Proposals, GetProposal(p) PROVE ParityInv'
  <1>0. /\ check.pc = "reading" /\ UNCHANGED <<books, shadow>> /\ p \in Objects /\ Nothing[p] = Nil
        /\ DOMAIN books = Objects /\ DOMAIN shadow = Objects
        /\ check.stale \cup check.expired \subseteq check.moved /\ check.blind \subseteq Proposals
    BY DEF GetProposal, Nothing, Objects, ParityInv, ShapesHold, LeftIsRead
  <1>1. CASE check' = [check EXCEPT !.left = Reads(@, {p}, books)] /\ p \notin check.blind
    <2>1. /\ DOMAIN check' = CheckShape /\ check'.pc = "reading" /\ check'.left = Reads(check.left, {p}, books)
          /\ check'.right = check.right /\ check'.unread = check.unread /\ check'.moved = check.moved
          /\ check'.blind = check.blind /\ check'.stale = check.stale /\ check'.expired = check.expired
      BY <1>0, <1>1 DEF ParityInv, ShapesHold, CheckShape
    <2> QED
      BY <1>0, <1>1, <2>1, Gathers
  <1>2. CASE check' = [check EXCEPT !.stale = @ \cup {p}, !.moved = @ \cup {p}]
    <2>1. /\ DOMAIN check' = CheckShape /\ check'.pc = "reading" /\ check'.left = check.left
          /\ check'.right = check.right /\ check'.unread = check.unread /\ check'.moved = check.moved \cup {p}
          /\ check'.blind = check.blind /\ check'.stale = check.stale \cup {p} /\ check'.expired = check.expired
      BY <1>0, <1>2 DEF ParityInv, ShapesHold, CheckShape
    <2>2. LeftIsRead'
      BY <1>0, <2>1 DEF ParityInv, LeftIsRead
    <2>3. RightIsRead'
      BY <1>0, <2>1 DEF ParityInv, RightIsRead
    <2> QED
      BY <1>0, <2>1, <2>2, <2>3 DEF ParityInv, ShapesHold, NothingReadYet, Concluded
  <1>3. CASE check' = [check EXCEPT !.left = Reads(@, {p}, Nothing), !.blind = @ \cup {p}]
    <2>1. /\ DOMAIN check' = CheckShape /\ check'.pc = "reading" /\ check'.left = Reads(check.left, {p}, Nothing)
          /\ check'.right = check.right /\ check'.unread = check.unread /\ check'.moved = check.moved
          /\ check'.blind = check.blind \cup {p} /\ check'.stale = check.stale /\ check'.expired = check.expired
      BY <1>0, <1>3 DEF ParityInv, ShapesHold, CheckShape
    <2> QED
      BY <1>0, <2>1, Gathers
  <1>4. p \notin check.blind
    BY DEF GetProposal, ToGet, ParityInv, LeftIsRead
  <1> QED
    BY <1>1, <1>2, <1>3, <1>4 DEF GetProposal

\* A proposal being expired has moved, whatever becomes of the writes.
LEMMA ExpiryReads ==
  ASSUME ParityInv, NEW p \in Proposals, ExpireProposal(p) \/ ShadowExpired(p)
  PROVE  ParityInv'
  <1>0. /\ check.pc = "reading" /\ p \in check.moved /\ p \in Objects
        /\ DOMAIN books = Objects /\ DOMAIN shadow = Objects
        /\ check.stale \cup check.expired \subseteq check.moved /\ check.blind \subseteq Proposals
    BY DEF ExpireProposal, ShadowExpired, Objects, ParityInv, ShapesHold, LeftIsRead
  <1>1. /\ books' \in {books, [books EXCEPT ![p] = Expired]}
        /\ shadow' \in {shadow, [shadow EXCEPT ![p] = Expired]}
    BY DEF ExpireProposal, ShadowExpired
  <1>2. /\ DOMAIN books' = Objects /\ DOMAIN shadow' = Objects
        /\ \A x \in Objects \ check.moved : books'[x] = books[x] /\ shadow'[x] = shadow[x]
    BY <1>0, <1>1
  <1>3. CASE check' = [check EXCEPT !.stale = @ \ {p}, !.expired = @ \cup {p}]
    <2>1. /\ DOMAIN check' = CheckShape /\ check'.pc = "reading" /\ check'.left = check.left
          /\ check'.right = check.right /\ check'.unread = check.unread /\ check'.moved = check.moved
          /\ check'.blind = check.blind /\ check'.stale = check.stale \ {p} /\ check'.expired = check.expired \cup {p}
      BY <1>0, <1>3 DEF ParityInv, ShapesHold, CheckShape
    <2>2. LeftIsRead'
      BY <1>0, <1>2, <2>1, OneDomain DEF ParityInv, LeftIsRead
    <2>3. RightIsRead'
      BY <1>0, <1>2, <2>1, OneDomain DEF ParityInv, RightIsRead
    <2> QED
      BY <1>0, <1>2, <2>1, <2>2, <2>3 DEF ParityInv, ShapesHold, NothingReadYet, Concluded
  <1>4. CASE \/ check' = [check EXCEPT !.stale = @ \ {p}, !.left = Reads(@, {p}, Lapsed)]
             \/ check' = [check EXCEPT !.expired = @ \ {p}, !.left = Reads(@, {p}, Lapsed)]
    <2>1. /\ DOMAIN check' = CheckShape /\ check'.pc = "reading" /\ check'.left = Reads(check.left, {p}, Lapsed)
          /\ check'.right = check.right /\ check'.unread = check.unread /\ check'.moved = check.moved
          /\ check'.blind = check.blind /\ check'.stale \subseteq check.stale /\ check'.expired \subseteq check.expired
      BY <1>0, <1>4 DEF ParityInv, ShapesHold, CheckShape
    <2> QED
      BY <1>0, <1>2, <2>1, Gathers
  <1> QED
    BY <1>3, <1>4 DEF ExpireProposal, ShadowExpired

LEMMA SheetsRead == ASSUME ParityInv, GatherSheets PROVE ParityInv'
  <1>0. /\ check.pc = "reading" /\ UNCHANGED <<books, shadow>>
        /\ DOMAIN books = Objects /\ DOMAIN shadow = Objects
        /\ check.stale \cup check.expired \subseteq check.moved /\ check.blind \subseteq Proposals
    BY DEF GatherSheets, ParityInv, ShapesHold, LeftIsRead
  <1>1. ASSUME NEW d \in Tables,
               check' = [check EXCEPT !.left = Reads(@, {d}, books),
                                      !.quotes.left = IF d = "positions" THEN quotes.left ELSE @]
        PROVE  ParityInv'
    <2>1. /\ DOMAIN check' = CheckShape /\ check'.pc = "reading" /\ check'.left = Reads(check.left, {d}, books)
          /\ check'.right = check.right /\ check'.unread = check.unread /\ check'.moved = check.moved
          /\ check'.blind = check.blind /\ check'.stale = check.stale /\ check'.expired = check.expired
      BY <1>0, <1>1 DEF ParityInv, ShapesHold, CheckShape
    <2>2. d \notin check.blind /\ d \in Objects
      BY <1>0, ParityConstants DEF Objects
    <2> QED
      BY <1>0, <2>1, <2>2, Gathers
  <1>2. CASE check' = [check EXCEPT !.left = Reads(@, Tables, Nothing), !.unread = @ \cup Tables]
    <2>1. /\ DOMAIN check' = CheckShape /\ check'.pc = "reading" /\ check'.left = Reads(check.left, Tables, Nothing)
          /\ check'.right = check.right /\ check'.unread = check.unread \cup Tables /\ check'.moved = check.moved
          /\ check'.blind = check.blind /\ check'.stale = check.stale /\ check'.expired = check.expired
      BY <1>0, <1>2 DEF ParityInv, ShapesHold, CheckShape
    <2>2. Tables \subseteq Objects
      BY DEF Objects
    <2> QED
      BY <1>0, <2>1, <2>2, Gathers
  <1> QED
    BY <1>1, <1>2 DEF GatherSheets

LEMMA LeftReads == ASSUME ParityInv, GatherAuthoritativeState PROVE ParityInv'
  BY ListReads, ProposalReads, ExpiryReads, SheetsRead DEF GatherAuthoritativeState

LEMMA RightReads == ASSUME ParityInv, GatherPostgresShadow PROVE ParityInv'
  <1>1. check.pc = "reading" /\ UNCHANGED <<books, shadow>>
    BY DEF GatherPostgresShadow
  <1>2. ASSUME NEW d \in Domains,
               check' = [check EXCEPT !.right = Reads(@, Members(d), shadow),
                                      !.quotes.right = IF d = "positions" THEN quotes.right ELSE @]
        PROVE  ParityInv'
    <2>1. /\ DOMAIN check' = CheckShape /\ check'.pc = "reading" /\ check'.right = Reads(check.right, Members(d), shadow)
          /\ check'.left = check.left /\ check'.unread = check.unread /\ check'.moved = check.moved
          /\ check'.blind = check.blind /\ check'.stale = check.stale /\ check'.expired = check.expired
      BY <1>1, <1>2 DEF ParityInv, ShapesHold, CheckShape
    <2>2. RightIsRead'
      BY <1>1, <2>1 DEF ParityInv, RightIsRead, Reads
    <2> QED
      BY <1>1, <2>1, <2>2 DEF ParityInv, ShapesHold, LeftIsRead, NothingReadYet, Concluded
  <1>3. ASSUME NEW d \in Domains,
               check' = [check EXCEPT !.right = Reads(@, Members(d), Nothing), !.unread = @ \cup {d}]
        PROVE  ParityInv'
    <2>1. /\ DOMAIN check' = CheckShape /\ check'.pc = "reading" /\ check'.right = Reads(check.right, Members(d), Nothing)
          /\ check'.left = check.left /\ check'.unread = check.unread \cup {d} /\ check'.moved = check.moved
          /\ check'.blind = check.blind /\ check'.stale = check.stale /\ check'.expired = check.expired
      BY <1>1, <1>3 DEF ParityInv, ShapesHold, CheckShape
    <2>2. \A e \in Domains \ {d} : \A x \in Members(e) : x \notin Members(d)
      BY ParityConstants DEF Members, Domains
    <2>3. RightIsRead'
      BY <1>1, <2>1, <2>2 DEF ParityInv, RightIsRead, Reads
    <2> QED
      BY <1>1, <2>1, <2>3 DEF ParityInv, ShapesHold, LeftIsRead, NothingReadYet, Concluded
  <1> QED
    BY <1>2, <1>3 DEF GatherPostgresShadow, PgLeft

LEMMA VerdictReads == ASSUME ParityInv, RunParityCheck PROVE ParityInv'
  <1> DEFINE matched == FailClosedOnReadErrors(CompareParity)
             ok == matched = Domains /\ ComparePositionValuation \notin {"VALUE_MISMATCH", "UNREADABLE"}
  <1>1. /\ DOMAIN check.left = Objects /\ DOMAIN check.right = Objects /\ UNCHANGED <<books, shadow>>
        /\ check' = [check EXCEPT !.pc = "done", !.matched = matched, !.ok = ok]
    BY DEF RunParityCheck
  <1>2. ok => matched = Domains
    OBVIOUS
  <1>3. FailClosedOnReadErrors(CompareParity)' = matched
        /\ check'.left = check.left /\ check'.right = check.right /\ check'.unread = check.unread
        /\ check'.moved = check.moved /\ check'.pc = "done" /\ DOMAIN check' = CheckShape
    <2> HIDE DEF ok
    <2>1. /\ check'.left = check.left /\ check'.right = check.right /\ check'.unread = check.unread
          /\ check'.moved = check.moved /\ check'.pc = "done" /\ DOMAIN check' = CheckShape
      <3> HIDE DEF matched
      <3> QED
        BY <1>1 DEF ParityInv, ShapesHold, CheckShape
    <2> QED
      BY <2>1 DEF FailClosedOnReadErrors, CompareParity
  <1> HIDE DEF matched, ok
  <1>4. check'.matched = matched /\ check'.blind = check.blind /\ check'.stale = check.stale /\ check'.expired = check.expired
    BY <1>1 DEF ParityInv, ShapesHold, CheckShape
  <1>5. check'.ok <=> ok
    BY <1>1 DEF ParityInv, ShapesHold, CheckShape
  <1>6. LeftIsRead'
    BY <1>1, <1>3, <1>4 DEF ParityInv, LeftIsRead
  <1>7. RightIsRead'
    BY <1>1, <1>3 DEF ParityInv, RightIsRead
  <1>8. Concluded'
    BY <1>1, <1>2, <1>3, <1>4, <1>5 DEF Concluded
  <1> QED
    BY <1>1, <1>3, <1>6, <1>7, <1>8 DEF ParityInv, ShapesHold, NothingReadYet

\* A scribe that copies, copies an object of the books.
ScribesHold == \A w \in Scribes : scribe[w].pc \in {"copy", "rebuild"} => scribe[w].object \in Objects
LEMMA ScribesStep ==
  ASSUME ScribesHold, DOMAIN scribe = Scribes, ParityNext
  PROVE  ScribesHold' /\ DOMAIN scribe' = Scribes
  <1>1. ASSUME NEW w \in Scribes, WritesBooks(w) PROVE ScribesHold' /\ DOMAIN scribe' = Scribes
    BY <1>1 DEF WritesBooks, ScribesHold
  <1>2. ASSUME NEW w \in Scribes, ReadsForRebuild(w) PROVE ScribesHold' /\ DOMAIN scribe' = Scribes
    BY <1>2 DEF ReadsForRebuild, ScribesHold
  <1>3. ASSUME NEW w \in Scribes, RunShadowOperation(w) PROVE ScribesHold' /\ DOMAIN scribe' = Scribes
    BY <1>3 DEF RunShadowOperation, ScribesHold, AtRest
  <1>4. CASE UNCHANGED scribe
    BY <1>4 DEF ScribesHold
  <1> QED
    BY <1>1, <1>2, <1>3, <1>4
       DEF ParityNext, StartCheck, GatherAuthoritativeState, ListFails, GetProposal, ExpireProposal,
           ShadowExpired, GatherSheets, GatherPostgresShadow, RunParityCheck

ShadowInv == ParityInv /\ ScribesHold /\ DOMAIN scribe = Scribes
LEMMA ShadowStart == ASSUME ParityInit PROVE ShadowInv
  BY ParityStart DEF ParityInit, ShadowInv, ScribesHold, AtRest
LEMMA ShadowStep == ASSUME ShadowInv, [ParityNext]_parityVars PROVE ShadowInv'
  <1>1. CASE UNCHANGED parityVars
    BY <1>1, ParityStill DEF ShadowInv, ScribesHold, parityVars
  <1>2. CASE ParityNext
    <2>1. ParityInv'
      <3>1. ASSUME NEW w \in Scribes, ReadsForRebuild(w) PROVE ParityInv'
        BY <3>1, ParityStill DEF ReadsForRebuild, ShadowInv
      <3>2. ASSUME NEW w \in Scribes, RunShadowOperation(w) PROVE ParityInv'
        <4>1. scribe[w].object \in Objects
          BY <3>2 DEF RunShadowOperation, ShadowInv, ScribesHold
        <4> QED
          BY <3>2, <4>1, CopyIsNoted DEF ShadowInv
      <3> QED
        BY <1>2, <3>1, <3>2, BooksAreMoved, StartReads, LeftReads, RightReads, VerdictReads DEF ShadowInv, ParityNext
    <2> QED
      BY <1>2, <2>1, ScribesStep DEF ShadowInv
  <1> QED
    BY <1>1, <1>2

LEMMA VerdictFollows == ASSUME ParityInv PROVE VerdictIsTrue
  <1> SUFFICES ASSUME check.pc = "done" PROVE VerdictIsTrue
    BY DEF VerdictIsTrue
  <1>1. /\ DOMAIN check.left = Objects /\ DOMAIN check.right = Objects
        /\ check.ok => check.matched = Domains
        /\ check.matched = FailClosedOnReadErrors(CompareParity)
    BY DEF ParityInv, Concluded
  <1>2. ASSUME NEW d \in Domains
        PROVE  /\ d \in check.matched <=> /\ \A x \in Members(d) : check.left[x] = check.right[x]
                                          /\ d \notin check.unread
                                          /\ ~(d = "accounting_snapshot" /\ Nil \in {check.left[d], check.right[d]})
               /\ d \notin check.unread => \A x \in Members(d) \ check.moved :
                     /\ check.left[x] = IF x \in check.blind THEN Nil ELSE books[x]
                     /\ check.right[x] = shadow[x]
    <2>1. d \in check.matched <=> /\ \A x \in Members(d) : check.left[x] = check.right[x]
                                  /\ d \notin check.unread
                                  /\ ~(d = "accounting_snapshot" /\ Nil \in {check.left[d], check.right[d]})
      BY <1>1, ParityConstants DEF FailClosedOnReadErrors, CompareParity, Domains
    <2>2. d \notin check.unread => \A x \in Members(d) \ check.moved :
             check.left[x] = IF x \in check.blind THEN Nil ELSE books[x]
      BY <1>1, OneDomain DEF ParityInv, LeftIsRead
    <2>3. d \notin check.unread => \A x \in Members(d) \ check.moved : check.right[x] = shadow[x]
      BY <1>1, OneDomain DEF ParityInv, RightIsRead
    <2> QED
      BY <2>1, <2>2, <2>3
  <1>3. "accounting_snapshot" \notin check.blind
    BY ParityConstants DEF ParityInv, LeftIsRead
  <1>4. ASSUME NEW d \in Domains, d \in check.matched
        PROVE  d \notin check.unread /\ \A x \in Members(d) \ check.moved : InStep(x)
    <2>1. "accounting_snapshot" \in Members(d) => d = "accounting_snapshot"
      BY ParityConstants DEF Members
    <2> QED
      BY <1>2, <1>3, <1>4, <2>1 DEF InStep
  <1>5. ASSUME NEW d \in Domains, d \notin check.matched \cup check.unread, Members(d) \cap check.moved = {}
        PROVE  \E x \in Members(d) : ~InStep(x)
    <2>1. d = "accounting_snapshot" => d \in Members(d)
      BY DEF Members
    <2>2. CASE \E x \in Members(d) : check.left[x] # check.right[x]
      BY <1>2, <1>5, <2>2 DEF InStep
    <2>3. CASE d = "accounting_snapshot" /\ Nil \in {check.left[d], check.right[d]}
      BY <1>2, <1>3, <1>5, <2>1, <2>3 DEF InStep
    <2> QED
      BY <1>2, <1>5, <2>2, <2>3
  <1> QED
    BY <1>1, <1>4, <1>5 DEF VerdictIsTrue

\* The verdict of the daily comparison is true of what stood still while
\* it was taken (runParityCheck, failClosedOnReadErrors), whatever scribes
\* write, copy late, lose or copy again, and whichever reads fail, except that
\* a proposal whose own read failed is taken for absent (listAllProposals).
THEOREM VerdictHolds == ParitySpec => []VerdictIsTrue
  <1>1. ParityInit => ShadowInv
    BY ShadowStart
  <1>2. ShadowInv /\ [ParityNext]_parityVars => ShadowInv'
    BY ShadowStep
  <1>3. ShadowInv => VerdictIsTrue
    BY VerdictFollows DEF ShadowInv
  <1> QED
    BY <1>1, <1>2, <1>3, PTL DEF ParitySpec
================================================================================
