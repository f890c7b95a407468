----------------------------- MODULE FillProofs -----------------------------
(***************************************************************************)
(* What holds of a proposal record and the Trade Ledger although nobody    *)
(* locks the record and the accounting lock may run out: a fulfilled       *)
(* proposal has its order in the ledger, a decided one never expires, and  *)
(* every variable keeps its type, the tax lots among them.  Then what      *)
(* holds while the lock outlives its holder: an order is booked once, a    *)
(* proposal an order closed stays closed unless a report was under way, a  *)
(* sale whose lots were not moved is queued, and the Lots tab agrees with  *)
(* the Trade Ledger.                                                       *)
(***************************************************************************)
EXTENDS FillAccounting, TotalsProofs, SequenceTheorems, TLAPS

\* The types of the control state.
ControlType ==
    /\ proposals \in [Proposals -> Proposal]
    /\ trades \in [Orders -> Seq(Row)]
    /\ cursor \subseteq Orders /\ filled \subseteq Orders /\ aged \subseteq Proposals
    /\ lock \in Bookers \cup {NoOne}
    /\ booker \in [Bookers -> BookerState]
    /\ client \in [Clients -> ClientState]

\* A post works on one order, made for a proposal.
PostsOne ==
    \A b \in Posts : booker[b].step # "idle" =>
        \E o \in Orders : booker[b].batch = {o} /\ OrderOf[o].prop # NoProposal

Typed == ControlType /\ PostsOne

BookedFor(o, p) == \E i \in DOMAIN trades[o] : trades[o][i].prop = p

\* The rows of an order name it.
RowsAtHome ==
    \A o \in Orders : \A i \in DOMAIN trades[o] : trades[o][i].order = o

\* A batch has one row for each of its orders.
RowsDistinct ==
    \A b \in Bookers : \A i, j \in DOMAIN booker[b].rows :
        booker[b].rows[i].order = booker[b].rows[j].order => i = j

PastLedger == {"newLots", "lots", "rows", "openSet", "fulfil"}

\* Past the append, every row a booker is to close is in the Trade Ledger.
RowsBooked ==
    \A b \in Bookers : booker[b].step \in PastLedger =>
        \A i \in DOMAIN booker[b].rows :
            BookedFor(booker[b].rows[i].order, booker[b].rows[i].prop)

\* Only an approved proposal has been fulfilled, and whoever is to write a
\* record back read it unfulfilled.
ReadUnfulfilled ==
    /\ \A p \in Proposals : proposals[p].status = "Pending" =>
           proposals[p].by = NoOrder
    /\ \A c \in Clients : client[c].step # "idle" =>
           client[c].prop \in Proposals /\ client[c].seen.by = NoOrder

\* Who is about to mark a proposal fulfilled read it approved.
ReadApproved ==
    \A b \in Bookers : booker[b].step = "fulfil" =>
        booker[b].seen.status = "Approved"

FulfilInv ==
    /\ Typed /\ RowsAtHome /\ RowsDistinct /\ RowsBooked
    /\ ReadUnfulfilled /\ ReadApproved /\ FulfilledIsBooked

-----------------------------------------------------------------------------
(* Types                                                                   *)

LEMMA IdleTyped == Idle \in BookerState /\ Idle.step = "idle" /\ Idle.rows = <<>>
                   /\ NoProposalRead \in Proposal
  BY DEF Idle, BookerState, NoProposalRead, Proposal, Statuses, Steps

LEMMA StartTyped ==
  ASSUME NEW s \in Steps, NEW B \in SUBSET Orders
  PROVE  LET r == [Idle EXCEPT !.step = s, !.batch = B]
         IN  r \in BookerState /\ r.step = s /\ r.batch = B /\ r.rows = <<>>
  BY IdleTyped DEF Idle, BookerState

LEMMA StartBooker ==
  ASSUME booker \in [Bookers -> BookerState], NEW b \in Bookers,
         NEW s \in Steps, NEW B \in SUBSET Orders,
         booker' = [booker EXCEPT ![b] = [Idle EXCEPT !.step = s, !.batch = B]]
  PROVE  /\ booker' \in [Bookers -> BookerState]
         /\ booker'[b].step = s /\ booker'[b].batch = B /\ booker'[b].rows = <<>>
         /\ \A x \in Bookers : x # b => booker'[x] = booker[x]
  <1> DEFINE r == [Idle EXCEPT !.step = s, !.batch = B]
  <1>1. r \in BookerState /\ r.step = s /\ r.batch = B /\ r.rows = <<>>
    BY StartTyped
  <1>2. booker' = [booker EXCEPT ![b] = r]
    OBVIOUS
  <1> HIDE DEF r
  <1> QED
    BY <1>1, <1>2

LEMMA AdvanceBooker ==
  ASSUME booker \in [Bookers -> BookerState], NEW b \in Bookers, NEW s \in Steps,
         booker' = [booker EXCEPT ![b].step = s]
  PROVE  /\ booker' \in [Bookers -> BookerState]
         /\ booker'[b].step = s /\ booker'[b].rows = booker[b].rows
         /\ booker'[b].next = booker[b].next /\ booker'[b].batch = booker[b].batch
         /\ booker'[b].seen = booker[b].seen
         /\ \A x \in Bookers : x # b => booker'[x] = booker[x]
  BY DEF BookerState

LEMMA SeeBooker ==
  ASSUME booker \in [Bookers -> BookerState], NEW b \in Bookers, NEW s \in Steps,
         NEW p \in Proposal,
         booker' = [booker EXCEPT ![b].step = s, ![b].seen = p]
  PROVE  /\ booker' \in [Bookers -> BookerState]
         /\ booker'[b].step = s /\ booker'[b].seen = p
         /\ booker'[b].rows = booker[b].rows /\ booker'[b].batch = booker[b].batch
         /\ \A x \in Bookers : x # b => booker'[x] = booker[x]
  BY DEF BookerState

LEMMA NextBooker ==
  ASSUME booker \in [Bookers -> BookerState], NEW b \in Bookers, NEW s \in Steps,
         booker' = [booker EXCEPT ![b].step = s, ![b].next = @ + 1]
  PROVE  /\ booker' \in [Bookers -> BookerState]
         /\ booker'[b].step = s /\ booker'[b].rows = booker[b].rows
         /\ booker'[b].batch = booker[b].batch
         /\ \A x \in Bookers : x # b => booker'[x] = booker[x]
  <1> DEFINE r == [booker[b] EXCEPT !.step = s, !.next = @ + 1]
  <1>1. booker[b] \in BookerState
    OBVIOUS
  <1>2. booker[b].next + 1 \in Nat \ {0}
    BY <1>1 DEF BookerState
  <1>3. /\ r \in BookerState /\ r.step = s
        /\ r.rows = booker[b].rows /\ r.batch = booker[b].batch
    BY <1>1, <1>2 DEF BookerState
  <1>4. booker' = [booker EXCEPT ![b] = r]
    OBVIOUS
  <1> HIDE DEF r
  <1> QED
    BY <1>3, <1>4

LEMMA StampBooker ==
  ASSUME booker \in [Bookers -> BookerState], NEW b \in Bookers, NEW s \in Steps,
         NEW S \in SUBSET Orders,
         booker' = [booker EXCEPT ![b].step = s, ![b].stamp = S]
  PROVE  /\ booker' \in [Bookers -> BookerState]
         /\ booker'[b].step = s /\ booker'[b].rows = booker[b].rows
         /\ \A x \in Bookers : x # b => booker'[x] = booker[x]
  BY DEF BookerState

LEMMA ExitBooker ==
  ASSUME booker \in [Bookers -> BookerState], NEW b \in Bookers, NEW r \in BookerState,
         booker' = [booker EXCEPT ![b] = r]
  PROVE  /\ booker' \in [Bookers -> BookerState]
         /\ booker'[b] = r
         /\ \A x \in Bookers : x # b => booker'[x] = booker[x]
  OBVIOUS

LEMMA PostedTyped ==
  ASSUME Typed, NEW b \in Posts, booker[b].step # "idle"
  PROVE  /\ Posted(b) \in Orders /\ booker[b].batch = {Posted(b)}
         /\ Target(b) \in Proposals
  <1>1. PICK o \in Orders : booker[b].batch = {o} /\ OrderOf[o].prop # NoProposal
    BY DEF Typed, PostsOne
  <1>2. Posted(b) = o
    BY <1>1 DEF Posted
  <1> QED
    BY <1>1, <1>2, FillConstants DEF Target, OrderType

LEMMA RowsTyped ==
  ASSUME NEW n \in Nat, NEW batch \in [1 .. n -> Orders],
         NEW props \in [1 .. n -> Proposals \cup {NoProposal}]
  PROVE  /\ PlanRows(batch, props) \in Seq(Row)
         /\ DOMAIN PlanRows(batch, props) = 1 .. n
         /\ \A i \in 1 .. n : /\ PlanRows(batch, props)[i].order = batch[i]
                              /\ PlanRows(batch, props)[i].prop = props[i]
  <1> DEFINE R(i) == [order |-> batch[i], prop |-> props[i], owner |-> OwnerFor(props[i]),
                      recon |-> /\ EnforceOwnership /\ props[i] # NoProposal
                                /\ Short(Working(batch, props)[i - 1], batch[i], OwnerFor(props[i]))]
  <1>1. \A i \in 1 .. n : R(i).recon \in BOOLEAN
    BY DEF Short
  <1>2. \A i \in 1 .. n : OwnerFor(props[i]) \in Owners
    BY FillConstants DEF OwnerFor, Owners
  <1>3. \A i \in 1 .. n : R(i) \in Row
    BY <1>1, <1>2 DEF Row
  <1>4. PlanRows(batch, props) = [i \in 1 .. n |-> R(i)]
    BY DEF PlanRows
  <1> HIDE DEF R
  <1>5. PlanRows(batch, props) \in [1 .. n -> Row]
    BY <1>3, <1>4
  <1>6. [1 .. n -> Row] \subseteq Seq(Row)
    BY SeqDef
  <1> QED
    BY <1>4, <1>5, <1>6 DEF R

-----------------------------------------------------------------------------
(* Steps that leave the ledger, the proposals and the readers alone        *)

\* Booker b moves on, drops its rows or keeps them; it does not get past the
\* append.  Nobody else moves.
Settles(b) ==
    /\ booker' \in [Bookers -> BookerState]
    /\ lock' \in Bookers \cup {NoOne}
    /\ \A x \in Bookers : x # b => booker'[x] = booker[x]
    /\ \/ booker'[b].step = "idle"
       \/ booker[b].step # "idle" /\ booker'[b].batch = booker[b].batch
       \/ b = Sync
       \/ \E o \in Orders : booker'[b].batch = {o} /\ OrderOf[o].prop # NoProposal
    /\ \/ booker'[b].rows = <<>>
       \/ /\ booker'[b].rows = booker[b].rows
          /\ booker'[b].step \in PastLedger => booker[b].step \in PastLedger
    /\ booker'[b].step = "fulfil" => booker'[b].seen.status = "Approved"

LEMMA ExitSettles ==
  ASSUME Typed, NEW b \in Bookers, Exit(b)
  PROVE  Settles(b)
  BY IdleTyped, ExitBooker DEF Typed, ControlType, Exit, Settles

LEMMA AdvanceSettles ==
  ASSUME Typed, NEW b \in Bookers, NEW s \in Steps, Advance(b, s),
         booker[b].step # "idle", s # "fulfil",
         s \in PastLedger => booker[b].step \in PastLedger
  PROVE  Settles(b)
  <1>1. booker' = [booker EXCEPT ![b].step = s] /\ lock' = lock
    BY DEF Advance
  <1> QED
    BY <1>1, AdvanceBooker DEF Typed, ControlType, Settles

LEMMA RowSettles ==
  ASSUME Typed, NEW b \in Bookers, booker[b].step \in PastLedger,
         NextRow(b) \/ FailRow(b)
  PROVE  Settles(b)
  <1>1. CASE NextRow(b)
    <2>1. "rows" \in Steps /\ "rows" # "fulfil"
      BY DEF Steps
    <2>2. booker' = [booker EXCEPT ![b].step = "rows", ![b].next = @ + 1] /\ lock' = lock
      BY <1>1 DEF NextRow
    <2>3. /\ booker' \in [Bookers -> BookerState]
          /\ booker'[b].step = "rows" /\ booker'[b].rows = booker[b].rows
          /\ booker'[b].batch = booker[b].batch
          /\ \A x \in Bookers : x # b => booker'[x] = booker[x]
      BY <2>1, <2>2, NextBooker DEF Typed, ControlType
    <2>4. booker[b].step # "idle"
      BY DEF PastLedger
    <2> QED
      BY <2>1, <2>2, <2>3, <2>4 DEF Typed, ControlType, Settles
  <1>2. CASE Exit(b)
    BY <1>2, ExitSettles
  <1> QED
    BY <1>1, <1>2 DEF FailRow

LEMMA Quiet ==
  ASSUME FulfilInv, NEW b \in Bookers, Settles(b),
         UNCHANGED <<proposals, trades, client>>,
         cursor' \subseteq Orders, filled' \subseteq Orders, aged' \subseteq Proposals
  PROVE  FulfilInv'
  <1>1. ControlType'
    BY DEF FulfilInv, Typed, ControlType, Settles
  <1>2. PostsOne'
    BY FillConstants DEF FulfilInv, Typed, PostsOne, Settles, Bookers
  <1>3. RowsAtHome' /\ ReadUnfulfilled' /\ FulfilledIsBooked'
    BY DEF FulfilInv, RowsAtHome, ReadUnfulfilled, FulfilledIsBooked
  <1>4. RowsDistinct' /\ RowsBooked' /\ ReadApproved'
    BY DEF FulfilInv, RowsDistinct, RowsBooked, BookedFor, ReadApproved, Settles
  <1> QED
    BY <1>1, <1>2, <1>3, <1>4 DEF FulfilInv, Typed

LEMMA PostQuiet ==
  ASSUME FulfilInv, NEW b \in Posts,
         (\E o \in Orders : PostStart(b, o)) \/ ReadProposal(b) \/ RefuseFill(b)
  PROVE  FulfilInv'
  <1> USE DEF FulfilInv
  <1>0. b \in Bookers
    BY DEF Bookers
  <1>1. Settles(b)
    <2>1. ASSUME NEW o \in Orders, PostStart(b, o) PROVE Settles(b)
      <3>1. /\ booker' = [booker EXCEPT ![b] = [Idle EXCEPT !.step = "locked", !.batch = {o}]]
            /\ lock' = b /\ OrderOf[o].prop # NoProposal
        BY <2>1 DEF PostStart
      <3>2. "locked" \in Steps /\ {o} \in SUBSET Orders
        BY DEF Steps
      <3>3. /\ booker' \in [Bookers -> BookerState]
            /\ booker'[b].step = "locked" /\ booker'[b].batch = {o}
            /\ booker'[b].rows = <<>>
            /\ \A x \in Bookers : x # b => booker'[x] = booker[x]
        <4>1. booker \in [Bookers -> BookerState]
          BY DEF Typed, ControlType
        <4>2. booker' = [booker EXCEPT ![b] = [Idle EXCEPT !.step = "locked", !.batch = {o}]]
          BY <3>1
        <4> QED
          BY ZenonT(30), <1>0, <3>2, <4>1, <4>2, StartBooker
      <3> QED
        BY <1>0, <3>1, <3>3 DEF Settles
    <2>2. CASE ReadProposal(b)
      <3>1. /\ booker' = [booker EXCEPT ![b].step = "read", ![b].seen = proposals[Target(b)]]
            /\ lock' = lock /\ booker[b].step = "locked"
        BY <2>2 DEF ReadProposal
      <3>2. proposals[Target(b)] \in Proposal /\ "read" \in Steps
        <4>1. Target(b) \in Proposals
          BY <3>1, PostedTyped
        <4> QED
          BY <4>1 DEF Typed, ControlType, Steps
      <3>3. /\ booker' \in [Bookers -> BookerState]
            /\ booker'[b].step = "read" /\ booker'[b].batch = booker[b].batch
            /\ booker'[b].rows = booker[b].rows
            /\ \A x \in Bookers : x # b => booker'[x] = booker[x]
        BY <1>0, <3>1, <3>2, SeeBooker DEF Typed, ControlType
      <3> QED
        BY <3>1, <3>3 DEF Settles, PastLedger, Typed, ControlType
    <2>3. CASE RefuseFill(b)
      BY <1>0, <2>3, ExitSettles DEF RefuseFill
    <2> QED
      BY <2>1, <2>2, <2>3
  <1>2. UNCHANGED <<store, env, client>>
    BY DEF PostStart, ReadProposal, RefuseFill
  <1> QED
    BY <1>0, <1>1, <1>2, Quiet DEF store, env, Typed, ControlType

LEMMA SyncQuiet ==
  ASSUME FulfilInv, SyncFetch \/ SyncStamp \/ SyncLock \/ SyncCursor
  PROVE  FulfilInv'
  <1> USE DEF FulfilInv
  <1>0. Sync \in Bookers /\ booker[Sync].stamp \subseteq Orders
    BY DEF Bookers, Typed, ControlType, BookerState
  <1>1. Settles(Sync)
    <2>1. CASE SyncFetch
      <3>1. PICK got \in SUBSET (filled \ cursor) :
               booker' = [booker EXCEPT ![Sync] = [Idle EXCEPT !.step = "fetched", !.batch = got]]
        BY <2>1 DEF SyncFetch
      <3>2. "fetched" \in Steps /\ got \in SUBSET Orders /\ lock' = lock
        BY <2>1 DEF Steps, SyncFetch, Typed, ControlType
      <3>3. /\ booker' \in [Bookers -> BookerState]
            /\ booker'[Sync].step = "fetched" /\ booker'[Sync].rows = <<>>
            /\ \A x \in Bookers : x # Sync => booker'[x] = booker[x]
        BY <1>0, <3>1, <3>2, StartBooker DEF Typed, ControlType
      <3> QED
        BY <3>2, <3>3 DEF Settles, Typed, ControlType
    <2>2. CASE SyncStamp
      <3>1. booker' = [booker EXCEPT ![Sync].step = "stamped", ![Sync].stamp = filled]
        BY <2>2 DEF SyncStamp
      <3>2. /\ "stamped" \in Steps /\ "stamped" \notin PastLedger
            /\ filled \in SUBSET Orders /\ lock' = lock
        BY <2>2 DEF Steps, PastLedger, SyncStamp, Typed, ControlType
      <3>3. /\ booker' \in [Bookers -> BookerState]
            /\ booker'[Sync].step = "stamped" /\ booker'[Sync].rows = booker[Sync].rows
            /\ \A x \in Bookers : x # Sync => booker'[x] = booker[x]
        BY <1>0, <3>1, <3>2, StampBooker DEF Typed, ControlType
      <3> QED
        BY <1>0, <3>2, <3>3 DEF Settles, Typed, ControlType
    <2>3. CASE SyncLock
      <3>1. CASE Advance(Sync, "cursor")
        BY <1>0, <2>3, <3>1, AdvanceSettles DEF SyncLock, Steps, PastLedger
      <3>2. CASE lock' = Sync /\ booker' = [booker EXCEPT ![Sync].step = "locked"]
        <4>1. "locked" \in Steps /\ "locked" \notin PastLedger
          BY DEF Steps, PastLedger
        <4> QED
          BY <1>0, <3>2, <4>1, AdvanceBooker DEF Settles, Typed, ControlType
      <3>3. CASE Exit(Sync)
        BY <1>0, <3>3, ExitSettles
      <3> QED
        BY <2>3, <3>1, <3>2, <3>3 DEF SyncLock
    <2>4. CASE SyncCursor
      BY <1>0, <2>4, IdleTyped, ExitBooker DEF SyncCursor, Settles, Typed, ControlType
    <2> QED
      BY <2>1, <2>2, <2>3, <2>4
  <1>2. /\ UNCHANGED <<proposals, trades, client, filled, aged>>
        /\ cursor' \in {cursor, booker[Sync].stamp}
    BY DEF SyncFetch, SyncStamp, SyncLock, SyncCursor, store, env
  <1> QED
    BY <1>0, <1>1, <1>2, Quiet DEF Typed, ControlType

LEMMA WriteQuiet ==
  ASSUME FulfilInv, NEW b \in Bookers,
         \/ AppendLots(b) \/ UpdateLots(b) \/ EndRows(b) \/ QueueRecon(b)
         \/ OpenRecon(b) \/ SkipRow(b) \/ ReadToFulfil(b) \/ Release(b) \/ Crash(b)
  PROVE  FulfilInv'
  <1> USE DEF FulfilInv
  <1>1. Settles(b)
    <2>1. CASE AppendLots(b) \/ UpdateLots(b)
      BY <2>1, ExitSettles, AdvanceSettles
         DEF AppendLots, UpdateLots, Continue, Steps, PastLedger
    <2>2. CASE EndRows(b)
      BY <2>2, AdvanceSettles DEF EndRows, Steps, PastLedger
    <2>3. CASE QueueRecon(b)
      BY <2>3, AdvanceSettles, RowSettles DEF QueueRecon, AtRow, Steps, PastLedger
    <2>4. CASE OpenRecon(b) \/ SkipRow(b)
      BY <2>4, RowSettles DEF OpenRecon, SkipRow, AtRow, PastLedger
    <2>5. CASE ReadToFulfil(b)
      <3> DEFINE p == proposals[ThisRow(b).prop]
      <3>0. \/ FailRow(b)
            \/ /\ booker' = [booker EXCEPT ![b].step = "fulfil", ![b].seen = p]
               /\ UNCHANGED <<plan, lock>>
               /\ p.status = "Approved"
        <4>1. CASE CanFulfil(p, ThisRow(b).order)
          BY <2>5, <4>1 DEF ReadToFulfil, CanFulfil
        <4>2. CASE ~CanFulfil(p, ThisRow(b).order)
          BY <2>5, <4>2 DEF ReadToFulfil
        <4> QED
          BY <4>1, <4>2
      <3>1. CASE FailRow(b)
        BY <2>5, <3>1, RowSettles DEF ReadToFulfil, AtRow, PastLedger
      <3>2. CASE /\ booker' = [booker EXCEPT ![b].step = "fulfil", ![b].seen = p]
                 /\ UNCHANGED <<plan, lock>>
                 /\ p.status = "Approved"
        <4>1. booker[b].next \in DOMAIN booker[b].rows
          BY <2>5, LenProperties
             DEF ReadToFulfil, AtRow, Typed, ControlType, BookerState
        <4>2. ThisRow(b) \in Row
          BY <4>1, ElementOfSeq, LenProperties DEF ThisRow, Typed, ControlType, BookerState
        <4>3. proposals[ThisRow(b).prop] \in Proposal
          BY <2>5, <4>2 DEF ReadToFulfil, Typed, ControlType, Row
        <4>4. "fulfil" \in Steps /\ booker[b].step = "rows" /\ "rows" \in PastLedger
          BY <2>5 DEF ReadToFulfil, AtRow, Steps, PastLedger
        <4>5. /\ booker' \in [Bookers -> BookerState]
              /\ booker'[b].step = "fulfil" /\ booker'[b].seen.status = "Approved"
              /\ booker'[b].rows = booker[b].rows /\ booker'[b].batch = booker[b].batch
              /\ \A x \in Bookers : x # b => booker'[x] = booker[x]
          <5>1. p \in Proposal
            BY <4>3
          <5>2. booker \in [Bookers -> BookerState]
            BY DEF Typed, ControlType
          <5> DEFINE r == [booker[b] EXCEPT !.step = "fulfil", !.seen = p]
          <5>3. booker' = [booker EXCEPT ![b] = r]
            BY <3>2, <5>2
          <5> HIDE DEF p
          <5>4. /\ r \in BookerState /\ r.step = "fulfil" /\ r.seen = p
                /\ r.rows = booker[b].rows /\ r.batch = booker[b].batch
            BY <4>4, <5>1, <5>2 DEF BookerState
          <5>5. p.status = "Approved"
            BY <3>2
          <5> HIDE DEF r
          <5> QED
            BY <5>2, <5>3, <5>4, <5>5
        <4> QED
          BY <3>2, <4>4, <4>5 DEF Settles, Typed, ControlType
      <3> QED
        BY <3>0, <3>1, <3>2
    <2>6. CASE Release(b)
      <3>1. CASE b = Sync
        <4>1. /\ booker' = [booker EXCEPT ![b].step = "cursor"]
              /\ lock' \in {lock, NoOne} /\ booker[b].step = "release"
          BY <2>6, <3>1 DEF Release
        <4>2. "cursor" \in Steps /\ "cursor" \notin PastLedger
          BY DEF Steps, PastLedger
        <4> QED
          BY ZenonT(30), <4>1, <4>2, AdvanceBooker DEF Settles, Typed, ControlType
      <3> QED
        BY <2>6, <3>1, ExitSettles DEF Release
    <2>7. CASE Crash(b)
      BY <2>7, IdleTyped, ExitBooker DEF Crash, Settles, Typed, ControlType
    <2> QED
      BY <2>1, <2>2, <2>3, <2>4, <2>5, <2>6, <2>7
  <1>2. UNCHANGED <<proposals, trades, client, filled, aged, cursor>>
    BY DEF AppendLots, UpdateLots, EndRows, QueueRecon, OpenRecon, SkipRow,
           ReadToFulfil, Release, Crash, store, env
  <1> QED
    BY <1>1, <1>2, Quiet DEF Typed, ControlType

-----------------------------------------------------------------------------
(* Planning a batch, and an order that is booked already                   *)

\* What planning a batch of different orders leaves.
LEMMA PlannedRows ==
  ASSUME Typed, NEW b \in Bookers, NEW n \in Nat, NEW batch \in [1 .. n -> Orders],
         NEW props \in [1 .. n -> Proposals \cup {NoProposal}],
         PlanBatch(b, batch, props)
  PROVE  /\ booker' \in [Bookers -> BookerState]
         /\ booker'[b].step = "trades" /\ booker'[b].batch = booker[b].batch
         /\ DOMAIN booker'[b].rows = 1 .. n
         /\ \A i \in 1 .. n : booker'[b].rows[i].order = batch[i]
         /\ \A x \in Bookers : x # b => booker'[x] = booker[x]
         /\ lock' = lock
  <1> DEFINE R == PlanRows(batch, props)
  <1>1. /\ R \in Seq(Row) /\ DOMAIN R = 1 .. n
        /\ \A i \in 1 .. n : R[i].order = batch[i]
    BY RowsTyped
  <1>2. booker' = [booker EXCEPT ![b].step = "trades", ![b].rows = R] /\ lock' = lock
    BY DEF PlanBatch
  <1> HIDE DEF R
  <1>3. booker \in [Bookers -> BookerState] /\ "trades" \in Steps
    BY DEF Typed, ControlType, Steps
  <1>4. /\ booker' \in [Bookers -> BookerState]
        /\ booker'[b].step = "trades" /\ booker'[b].batch = booker[b].batch
        /\ booker'[b].rows = R
        /\ \A x \in Bookers : x # b => booker'[x] = booker[x]
    <2> DEFINE r == [booker[b] EXCEPT !.step = "trades", !.rows = R]
    <2>1. booker' = [booker EXCEPT ![b] = r]
      BY <1>2, <1>3
    <2>2. /\ r \in BookerState /\ r.step = "trades" /\ r.rows = R
          /\ r.batch = booker[b].batch
      BY <1>1, <1>3 DEF BookerState
    <2> HIDE DEF r
    <2> QED
      BY <1>3, <2>1, <2>2
  <1> QED
    BY <1>1, <1>2, <1>4

LEMMA PlanKeeps ==
  ASSUME FulfilInv, NEW b \in Bookers, NEW n \in Nat,
         NEW batch \in [1 .. n -> Orders],
         \A i, j \in 1 .. n : batch[i] = batch[j] => i = j,
         NEW props \in [1 .. n -> Proposals \cup {NoProposal}],
         PlanBatch(b, batch, props), booker[b].step # "idle",
         UNCHANGED <<store, env, client>>
  PROVE  FulfilInv'
  <1> USE DEF FulfilInv
  <1>1. /\ booker' \in [Bookers -> BookerState]
        /\ booker'[b].step = "trades" /\ booker'[b].batch = booker[b].batch
        /\ DOMAIN booker'[b].rows = 1 .. n
        /\ \A i \in 1 .. n : booker'[b].rows[i].order = batch[i]
        /\ \A x \in Bookers : x # b => booker'[x] = booker[x]
        /\ lock' = lock
    BY PlannedRows
  <1>2. ControlType' /\ PostsOne'
    <2>1. ControlType'
      BY <1>1 DEF Typed, ControlType, store, env
    <2>2. PostsOne'
      BY <1>1 DEF Typed, PostsOne, Bookers
    <2> QED
      BY <2>1, <2>2
  <1>3. RowsAtHome' /\ ReadUnfulfilled' /\ FulfilledIsBooked'
    BY DEF RowsAtHome, ReadUnfulfilled, FulfilledIsBooked, store
  <1>4. RowsDistinct'
    <2> SUFFICES ASSUME NEW x \in Bookers, NEW i \in DOMAIN booker'[x].rows,
                        NEW j \in DOMAIN booker'[x].rows,
                        booker'[x].rows[i].order = booker'[x].rows[j].order
                 PROVE  i = j
      BY DEF RowsDistinct
    <2>1. CASE x = b
      <3>1. i \in 1 .. n /\ j \in 1 .. n
        BY <1>1, <2>1
      <3>2. booker'[x].rows[i].order = batch[i] /\ booker'[x].rows[j].order = batch[j]
        BY <1>1, <2>1, <3>1
      <3>3. batch[i] = batch[j]
        BY <3>2
      <3> QED
        BY <3>1, <3>3
    <2>2. CASE x # b
      <3>1. booker'[x] = booker[x]
        BY <1>1, <2>2
      <3> QED
        BY <3>1 DEF RowsDistinct
    <2> QED
      BY <2>1, <2>2
  <1>5. RowsBooked'
    <2> SUFFICES ASSUME NEW x \in Bookers, booker'[x].step \in PastLedger,
                        NEW i \in DOMAIN booker'[x].rows
                 PROVE  \E k \in DOMAIN trades'[booker'[x].rows[i].order] :
                           trades'[booker'[x].rows[i].order][k].prop = booker'[x].rows[i].prop
      BY DEF RowsBooked, BookedFor
    <2>1. x # b /\ booker'[x] = booker[x] /\ trades' = trades
      BY <1>1 DEF PastLedger, store
    <2> QED
      BY <2>1 DEF RowsBooked, BookedFor
  <1>6. ReadApproved'
    BY <1>1 DEF ReadApproved
  <1> QED
    BY <1>2, <1>3, <1>4, <1>5, <1>6 DEF Typed

LEMMA RecordFillKeeps ==
  ASSUME FulfilInv, NEW b \in Posts, RecordFill(b)
  PROVE  FulfilInv'
  <1>1. Posted(b) \in Orders /\ Target(b) \in Proposals /\ b \in Bookers
    BY PostedTyped DEF FulfilInv, RecordFill, Bookers
  <1> DEFINE batch == <<Posted(b)>>
             props == <<Target(b)>>
  <1>2. /\ batch \in [1 .. 1 -> Orders]
        /\ props \in [1 .. 1 -> Proposals \cup {NoProposal}]
        /\ \A i, j \in 1 .. 1 : batch[i] = batch[j] => i = j
    BY <1>1
  <1>3. /\ PlanBatch(b, batch, props) /\ booker[b].step # "idle"
        /\ UNCHANGED <<store, env, client>>
    BY DEF RecordFill
  <1> HIDE DEF batch, props
  <1> QED
    BY <1>1, <1>2, <1>3, PlanKeeps

\* A sync's fresh fills are finitely many orders, listed once each.
LEMMA FreshBatch ==
  ASSUME Typed, NEW batch \in Orderings(Unbooked(booker[Sync].batch))
  PROVE  /\ Cardinality(Unbooked(booker[Sync].batch)) \in Nat
         /\ batch \in [1 .. Cardinality(Unbooked(booker[Sync].batch)) -> Orders]
         /\ \A i, j \in 1 .. Cardinality(Unbooked(booker[Sync].batch)) :
               batch[i] = batch[j] => i = j
         /\ \A i \in 1 .. Cardinality(Unbooked(booker[Sync].batch)) :
               trades[batch[i]] = <<>>
  <1> DEFINE F == Unbooked(booker[Sync].batch)
  <1>1. F \subseteq Orders /\ \A o \in F : trades[o] = <<>>
    BY DEF Unbooked, Typed, ControlType, BookerState, Bookers
  <1>2. IsFiniteSet(F)
    BY <1>1, FS_Subset, FillConstants
  <1>3. Cardinality(F) \in Nat
    BY <1>2, FS_CardinalityType
  <1>4. batch \in [1 .. Cardinality(F) -> F]
        /\ \A i, j \in DOMAIN batch : batch[i] = batch[j] => i = j
    BY DEF Orderings
  <1> HIDE DEF F
  <1>5. /\ batch \in [1 .. Cardinality(F) -> Orders]
        /\ \A i, j \in 1 .. Cardinality(F) : batch[i] = batch[j] => i = j
        /\ \A i \in 1 .. Cardinality(F) : trades[batch[i]] = <<>>
    BY <1>1, <1>4
  <1> QED
    BY <1>3, <1>5 DEF F

LEMMA AttributedTyped ==
  ASSUME NEW n \in Nat, NEW batch \in [1 .. n -> Orders]
  PROVE  [i \in DOMAIN batch |-> Attributed(batch, i)]
            \in [1 .. n -> Proposals \cup {NoProposal}]
  <1>1. \A o \in Orders : Matches(o) \in Proposals \cup {NoProposal}
    BY FillConstants DEF Matches, OrderType
  <1>2. \A i \in 1 .. n : Attributed(batch, i) \in Proposals \cup {NoProposal}
    BY <1>1 DEF Attributed
  <1> QED
    BY <1>2

LEMMA SyncPlanKeeps ==
  ASSUME FulfilInv, SyncPlan
  PROVE  FulfilInv'
  <1>0. Sync \in Bookers /\ Typed
    BY DEF Bookers, FulfilInv
  <1>1. UNCHANGED <<store, env, client>> /\ booker[Sync].step = "locked"
    BY DEF SyncPlan
  <1>2. CASE Advance(Sync, "release")
    <2>1. Settles(Sync)
      BY <1>0, <1>1, <1>2, AdvanceSettles DEF Steps, PastLedger
    <2> QED
      BY <1>0, <1>1, <2>1, Quiet DEF Typed, ControlType, store, env
  <1>3. ASSUME NEW batch \in Orderings(Unbooked(booker[Sync].batch)),
               PlanBatch(Sync, batch, [i \in DOMAIN batch |-> Attributed(batch, i)])
        PROVE  FulfilInv'
    <2> DEFINE n == Cardinality(Unbooked(booker[Sync].batch))
               props == [i \in DOMAIN batch |-> Attributed(batch, i)]
    <2>1. /\ n \in Nat /\ batch \in [1 .. n -> Orders]
          /\ \A i, j \in 1 .. n : batch[i] = batch[j] => i = j
      BY <1>0, FreshBatch
    <2>2. props \in [1 .. n -> Proposals \cup {NoProposal}]
      BY <2>1, AttributedTyped
    <2>3. PlanBatch(Sync, batch, props)
      BY <1>3
    <2> HIDE DEF n, props
    <2> QED
      BY <1>0, <1>1, <2>1, <2>2, <2>3, PlanKeeps
  <1> QED
    BY <1>2, <1>3 DEF SyncPlan

LEMMA RecordAgainKeeps ==
  ASSUME FulfilInv, NEW b \in Posts, RecordAgain(b)
  PROVE  FulfilInv'
  <1> USE DEF FulfilInv
  <1> DEFINE o == Posted(b)
             row == trades[o][1]
             again == [row EXCEPT !.recon = FALSE]
  <1>1. o \in Orders /\ b \in Bookers
    BY PostedTyped DEF RecordAgain, Bookers
  <1>2. trades[o] \in Seq(Row) /\ trades[o] # <<>> /\ row.prop = Target(b)
    BY <1>1 DEF RecordAgain, Typed, ControlType
  <1>3. 1 \in DOMAIN trades[o] /\ row \in Row /\ row.order = o
    BY <1>1, <1>2, LenProperties, EmptySeq, ElementOfSeq DEF RowsAtHome
  <1>4. again \in Row /\ again.order = o /\ again.prop = row.prop
    BY <1>3 DEF Row
  <1>5. /\ booker' = [booker EXCEPT ![b].step = "rows", ![b].rows = <<again>>]
        /\ UNCHANGED <<store, env, lock, client>> /\ booker[b].step = "read"
    BY DEF RecordAgain
  <1>6. BookedFor(again.order, again.prop)
    BY <1>3, <1>4 DEF BookedFor
  <1> HIDE DEF o, row, again
  <1>7. /\ booker' \in [Bookers -> BookerState]
        /\ booker'[b].step = "rows" /\ booker'[b].batch = booker[b].batch
        /\ booker'[b].rows = <<again>>
        /\ \A x \in Bookers : x # b => booker'[x] = booker[x]
    <2>1. booker \in [Bookers -> BookerState] /\ "rows" \in Steps /\ <<again>> \in Seq(Row)
      BY <1>4 DEF Typed, ControlType, Steps
    <2> QED
      BY <1>1, <1>5, <2>1 DEF BookerState
  <1>8. ControlType' /\ PostsOne'
    <2>1. ControlType'
      BY <1>5, <1>7 DEF Typed, ControlType, store, env
    <2>2. PostsOne'
      BY <1>5, <1>7 DEF Typed, PostsOne, Bookers
    <2> QED
      BY <2>1, <2>2
  <1>9. RowsAtHome' /\ ReadUnfulfilled' /\ FulfilledIsBooked'
    BY <1>5 DEF RowsAtHome, ReadUnfulfilled, FulfilledIsBooked, store
  <1>10. \A x \in Bookers : x # b \/ (DOMAIN booker'[x].rows = {1} /\ booker'[x].rows[1] = again)
    BY <1>7
  <1>11. RowsDistinct'
    BY <1>7, <1>10 DEF RowsDistinct
  <1>12. RowsBooked'
    <2> SUFFICES ASSUME NEW x \in Bookers, booker'[x].step \in PastLedger,
                        NEW i \in DOMAIN booker'[x].rows
                 PROVE  \E k \in DOMAIN trades'[booker'[x].rows[i].order] :
                           trades'[booker'[x].rows[i].order][k].prop = booker'[x].rows[i].prop
      BY DEF RowsBooked, BookedFor
    <2>1. trades' = trades
      BY <1>5 DEF store
    <2>2. CASE x # b
      <3>1. booker'[x] = booker[x]
        BY <1>7, <2>2
      <3> QED
        BY <2>1, <3>1 DEF RowsBooked, BookedFor
    <2>3. CASE x = b
      BY <1>6, <1>10, <2>1, <2>3 DEF BookedFor
    <2> QED
      BY <2>2, <2>3
  <1>13. ReadApproved'
    BY <1>7 DEF ReadApproved
  <1> QED
    BY <1>8, <1>9, <1>11, <1>12, <1>13 DEF Typed

-----------------------------------------------------------------------------
(* The append to the Trade Ledger                                          *)

LEMMA OneMore ==
  ASSUME NEW S, NEW s \in Seq(S), NEW t \in Seq(S), Len(t) = 1
  PROVE  /\ s \o t \in Seq(S) /\ Len(s \o t) = Len(s) + 1
         /\ \A i \in 1 .. Len(s) : (s \o t)[i] = s[i]
         /\ (s \o t)[Len(s) + 1] = t[1]
  <1>1. /\ s \o t \in Seq(S) /\ Len(s \o t) = Len(s) + Len(t)
        /\ \A i \in 1 .. Len(s) + Len(t) : (s \o t)[i] =
               IF i <= Len(s) THEN s[i] ELSE t[i - Len(s)]
    BY ConcatProperties
  <1>2. Len(s) \in Nat
    BY LenProperties
  <1> QED
    BY <1>1, <1>2

LEMMA AppendedRow ==
  ASSUME FulfilInv, NEW b \in Bookers, NEW x \in Orders
  PROVE  /\ RowsOf(b, x) \in Seq(Row)
         /\ \A i \in DOMAIN RowsOf(b, x) : RowsOf(b, x)[i].order = x
         /\ trades[x] \o RowsOf(b, x) \in Seq(Row)
         /\ \A i \in DOMAIN trades[x] :
               /\ i \in DOMAIN (trades[x] \o RowsOf(b, x))
               /\ (trades[x] \o RowsOf(b, x))[i] = trades[x][i]
         /\ \A i \in DOMAIN (trades[x] \o RowsOf(b, x)) :
               (trades[x] \o RowsOf(b, x))[i].order = x
         /\ \A i \in DOMAIN booker[b].rows : booker[b].rows[i].order = x =>
               \E k \in DOMAIN (trades[x] \o RowsOf(b, x)) :
                  (trades[x] \o RowsOf(b, x))[k] = booker[b].rows[i]
  <1> DEFINE rows == booker[b].rows
             i0 == CHOOSE i \in DOMAIN rows : rows[i].order = x
             new == RowsOf(b, x)
             all == trades[x] \o new
  <1>1. rows \in Seq(Row) /\ trades[x] \in Seq(Row)
    BY DEF FulfilInv, Typed, ControlType, BookerState
  <1>2. CASE \E i \in DOMAIN rows : rows[i].order = x
    <2>1. i0 \in DOMAIN rows /\ rows[i0].order = x
      BY <1>2
    <2>2. \A i \in DOMAIN rows : rows[i].order = x => i = i0
      BY <2>1 DEF FulfilInv, RowsDistinct
    <2>3. new = <<rows[i0]>> /\ rows[i0] \in Row
      BY <1>1, <1>2, <2>1, ElementOfSeq, LenProperties DEF RowsOf
    <2> HIDE DEF i0, rows, new
    <2>4. new \in Seq(Row) /\ Len(new) = 1 /\ new[1] = rows[i0] /\ DOMAIN new = {1}
      BY <2>3
    <2>5. /\ all \in Seq(Row) /\ Len(all) = Len(trades[x]) + 1
          /\ \A i \in 1 .. Len(trades[x]) : all[i] = trades[x][i]
          /\ all[Len(trades[x]) + 1] = new[1]
      BY <1>1, <2>4, OneMore
    <2> HIDE DEF all
    <2>6. /\ DOMAIN all = 1 .. Len(trades[x]) + 1 /\ Len(trades[x]) \in Nat
          /\ DOMAIN trades[x] = 1 .. Len(trades[x])
      BY <1>1, <2>5, LenProperties
    <2>7. all[Len(trades[x]) + 1] = rows[i0] /\ Len(trades[x]) + 1 \in DOMAIN all
      BY <2>4, <2>5, <2>6
    <2>8. \A i \in DOMAIN trades[x] : i \in DOMAIN all /\ all[i] = trades[x][i]
      BY <2>5, <2>6
    <2>9. \A i \in DOMAIN trades[x] : trades[x][i].order = x
      BY DEF FulfilInv, RowsAtHome
    <2>10. \A i \in DOMAIN all : i \in DOMAIN trades[x] \/ i = Len(trades[x]) + 1
      BY <2>6
    <2>11. \A i \in DOMAIN all : all[i].order = x
      BY <2>1, <2>7, <2>8, <2>9, <2>10
    <2>12. \A i \in DOMAIN rows : rows[i].order = x => \E k \in DOMAIN all : all[k] = rows[i]
      BY <2>2, <2>7
    <2> QED
      BY <2>1, <2>4, <2>5, <2>8, <2>11, <2>12 DEF all, new, rows
  <1>3. CASE ~ \E i \in DOMAIN rows : rows[i].order = x
    <2>1. new = <<>>
      BY <1>3 DEF RowsOf
    <2>2. all = trades[x]
      BY <1>1, <2>1, ConcatEmptySeq
    <2> QED
      BY <1>1, <1>3, <2>1, <2>2 DEF FulfilInv, RowsAtHome
  <1> QED
    BY <1>2, <1>3

LEMMA AppendTradesKeeps ==
  ASSUME FulfilInv, NEW b \in Bookers, AppendTrades(b)
  PROVE  FulfilInv'
  <1>0. PICK o \in Outcomes :
          /\ CountFault(o)
          /\ trades' = IF o = "failed" THEN trades
                       ELSE [x \in Orders |-> trades[x] \o RowsOf(b, x)]
          /\ Continue(b, o, "newLots")
    BY DEF AppendTrades
  <1>1. /\ UNCHANGED <<proposals, cursor, env, client>> /\ booker[b].step = "trades"
        /\ Typed
    BY DEF AppendTrades, FulfilInv
  <1>2. CASE o = "failed"
    <2>1. trades' = trades /\ Settles(b)
      BY <1>0, <1>1, <1>2, ExitSettles DEF Continue
    <2> QED
      BY <1>1, <2>1, Quiet DEF env, Typed, ControlType
  <1>3. CASE o # "failed"
    <2>1. \A x \in Orders : trades'[x] = trades[x] \o RowsOf(b, x)
      BY <1>0, <1>3
    <2>2. trades' \in [Orders -> Seq(Row)]
      BY <1>0, <1>3, AppendedRow
    <2> DEFINE Grown(x, all) ==
          /\ \A i \in DOMAIN trades[x] : i \in DOMAIN all /\ all[i] = trades[x][i]
          /\ \A i \in DOMAIN all : all[i].order = x
          /\ \A i \in DOMAIN booker[b].rows : booker[b].rows[i].order = x =>
                \E k \in DOMAIN all : all[k] = booker[b].rows[i]
    <2>a. \A x \in Orders : Grown(x, trades[x] \o RowsOf(b, x))
      BY AppendedRow
    <2>b. \A x \in Orders : Grown(x, trades'[x])
      <3> HIDE DEF Grown
      <3> QED
        BY <2>1, <2>a
    <2>3. \A x \in Orders : \A i \in DOMAIN trades[x] :
             i \in DOMAIN trades'[x] /\ trades'[x][i] = trades[x][i]
      BY <2>b
    <2>4. \A x \in Orders : \A i \in DOMAIN trades'[x] : trades'[x][i].order = x
      BY <2>b
    <2>5. \A x \in Orders : \A i \in DOMAIN booker[b].rows :
             booker[b].rows[i].order = x =>
                \E k \in DOMAIN trades'[x] : trades'[x][k] = booker[b].rows[i]
      BY <2>b
    <2> HIDE DEF Grown
    <2>6. \A x \in Orders, p \in Proposals \cup {NoProposal} :
             BookedFor(x, p) => BookedFor(x, p)'
      BY <2>3 DEF BookedFor
    <2>7. \A y \in Bookers : \A i \in DOMAIN booker[y].rows :
             /\ booker[y].rows[i].order \in Orders
             /\ booker[y].rows[i].prop \in Proposals \cup {NoProposal}
      <3> SUFFICES ASSUME NEW y \in Bookers, NEW i \in DOMAIN booker[y].rows
                   PROVE  booker[y].rows[i] \in Row
        BY DEF Row
      <3>1. booker[y].rows \in Seq(Row)
        BY <1>1 DEF Typed, ControlType, BookerState
      <3> QED
        BY <3>1, LenProperties, ElementOfSeq
    <2>8. /\ booker' \in [Bookers -> BookerState] /\ lock' \in Bookers \cup {NoOne}
          /\ \A x \in Bookers : x # b => booker'[x] = booker[x]
          /\ \/ booker'[b].step = "idle" /\ booker'[b].rows = <<>>
             \/ /\ booker'[b].step = "newLots" /\ booker'[b].rows = booker[b].rows
                /\ booker'[b].batch = booker[b].batch
      <3>1. CASE Exit(b)
        BY <1>1, <3>1, IdleTyped, ExitBooker DEF Exit, Typed, ControlType
      <3>2. CASE Advance(b, "newLots")
        <4>1. booker' = [booker EXCEPT ![b].step = "newLots"] /\ lock' = lock
          BY <3>2 DEF Advance
        <4>2. "newLots" \in Steps
          BY DEF Steps
        <4> QED
          BY <1>1, <4>1, <4>2, AdvanceBooker DEF Typed, ControlType
      <3> QED
        BY <1>0, <3>1, <3>2 DEF Continue
    <2>9. Typed'
      <3>1. ControlType'
        BY <1>1, <2>2, <2>8 DEF Typed, ControlType, env
      <3>2. PostsOne'
        BY <1>1, <2>8 DEF Typed, PostsOne, Bookers
      <3> QED
        BY <3>1, <3>2 DEF Typed
    <2>10. RowsAtHome' /\ ReadUnfulfilled'
      BY <1>1, <2>4 DEF FulfilInv, RowsAtHome, ReadUnfulfilled
    <2>11. RowsDistinct'
      BY <2>8 DEF FulfilInv, RowsDistinct
    <2>12. RowsBooked'
      <3> SUFFICES ASSUME NEW x \in Bookers, booker'[x].step \in PastLedger,
                          NEW i \in DOMAIN booker'[x].rows
                   PROVE  \E k \in DOMAIN trades'[booker'[x].rows[i].order] :
                             trades'[booker'[x].rows[i].order][k].prop = booker'[x].rows[i].prop
        BY DEF RowsBooked, BookedFor
      <3>1. booker'[x].rows = booker[x].rows /\ (x = b \/ booker'[x] = booker[x])
        <4>1. booker'[x].step # "idle"
          BY DEF PastLedger
        <4> QED
          BY <2>8, <4>1
      <3> DEFINE row == booker[x].rows[i]
      <3>2. /\ row.order \in Orders /\ row.prop \in Proposals \cup {NoProposal}
            /\ booker'[x].rows[i] = row
        BY <2>7, <3>1
      <3>3. CASE x = b
        <4>1. row.order \in Orders /\ i \in DOMAIN booker[b].rows /\ row = booker[b].rows[i]
          BY <3>1, <3>2, <3>3
        <4>2. \E k \in DOMAIN trades'[row.order] : trades'[row.order][k] = row
          BY <2>5, <4>1
        <4> QED
          BY <3>2, <4>2
      <3>4. CASE x # b
        <4>1. BookedFor(row.order, row.prop)
          BY <2>8, <3>1, <3>4 DEF FulfilInv, RowsBooked
        <4> QED
          BY <3>2, <2>3, <4>1 DEF BookedFor
      <3> QED
        BY <3>3, <3>4
    <2>13. FulfilledIsBooked'
      BY <1>1, <2>3 DEF FulfilInv, FulfilledIsBooked
    <2>14. ReadApproved'
      BY <2>8 DEF FulfilInv, ReadApproved
    <2> QED
      BY <2>9, <2>10, <2>11, <2>12, <2>13, <2>14 DEF FulfilInv
  <1> QED
    BY <1>2, <1>3

-----------------------------------------------------------------------------
(* Who writes a proposal record                                            *)

LEMMA WriteFulfilledKeeps ==
  ASSUME FulfilInv, NEW b \in Bookers, WriteFulfilled(b)
  PROVE  FulfilInv'
  <1>0. PICK o \in Outcomes :
          /\ proposals' = IF o = "failed" THEN proposals
                ELSE [proposals EXCEPT ![ThisRow(b).prop] =
                        [booker[b].seen EXCEPT !.by = ThisRow(b).order, !.executing = FALSE]]
          /\ IF o = "ok" THEN NextRow(b) ELSE FailRow(b)
    BY DEF WriteFulfilled
  <1>1. /\ UNCHANGED <<trades, cursor, env, client>> /\ booker[b].step = "fulfil"
        /\ booker[b].next <= Len(booker[b].rows)
    BY DEF WriteFulfilled, AtRow
  <1>2. /\ FulfilInv /\ Typed
        /\ booker[b].seen \in Proposal /\ booker[b].seen.status = "Approved"
    BY <1>1 DEF FulfilInv, Typed, ControlType, BookerState, ReadApproved
  <1>3. Settles(b)
    BY <1>0, <1>1, <1>2, RowSettles DEF PastLedger
  <1>4. CASE proposals' = proposals
    BY <1>1, <1>3, <1>4, Quiet DEF FulfilInv, Typed, ControlType, env
  <1> DEFINE row == ThisRow(b)
             closed == [booker[b].seen EXCEPT !.by = row.order, !.executing = FALSE]
  <1>5. CASE proposals' = [proposals EXCEPT ![row.prop] = closed]
    <2>1. row \in Row /\ BookedFor(row.order, row.prop)
      <3>1. booker[b].rows \in Seq(Row) /\ booker[b].next \in Nat \ {0}
        BY <1>2 DEF Typed, ControlType, BookerState
      <3>2. booker[b].next \in DOMAIN booker[b].rows
        BY <1>1, <3>1, LenProperties
      <3>3. row \in Row
        BY <3>1, <3>2, LenProperties, ElementOfSeq DEF ThisRow
      <3> QED
        BY <1>1, <3>2, <3>3 DEF FulfilInv, RowsBooked, PastLedger, ThisRow
    <2>2. row.order \in Orders /\ row.prop \in Proposals \cup {NoProposal}
      BY <2>1 DEF Row
    <2>3. /\ closed \in Proposal /\ closed.by = row.order
          /\ closed.status = "Approved"
      BY <1>2, <2>2 DEF Proposal
    <2> HIDE DEF row, closed
    <2>4. /\ proposals' \in [Proposals -> Proposal]
          /\ \A p \in Proposals : proposals'[p] = proposals[p]
                                  \/ (p = row.prop /\ proposals'[p] = closed)
      BY <1>2, <1>5, <2>3 DEF Typed, ControlType
    <2>5. Typed'
      <3>1. ControlType'
        BY <1>1, <1>2, <1>3, <2>4 DEF Typed, ControlType, Settles, env
      <3>2. PostsOne'
        BY <1>1, <1>2, <1>3, FillConstants DEF Typed, PostsOne, Settles, Bookers
      <3> QED
        BY <3>1, <3>2 DEF Typed
    <2>6. RowsAtHome' /\ RowsDistinct' /\ RowsBooked' /\ ReadApproved'
      <3>1. RowsAtHome'
        BY <1>1 DEF FulfilInv, RowsAtHome
      <3>2. RowsDistinct' /\ ReadApproved'
        BY <1>3 DEF FulfilInv, RowsDistinct, ReadApproved, Settles
      <3>3. RowsBooked'
        BY <1>1, <1>3 DEF FulfilInv, RowsBooked, BookedFor, Settles
      <3> QED
        BY <3>1, <3>2, <3>3
    <2>7. ReadUnfulfilled'
      BY <1>1, <2>3, <2>4 DEF FulfilInv, ReadUnfulfilled
    <2>8. FulfilledIsBooked'
      <3> SUFFICES ASSUME NEW p \in Proposals, NEW x \in Orders, proposals'[p].by = x
                   PROVE  \E i \in DOMAIN trades[x] : trades[x][i].prop = p
        BY <1>1 DEF FulfilledIsBooked
      <3> QED
        BY <2>1, <2>3, <2>4 DEF FulfilInv, FulfilledIsBooked, BookedFor
    <2> QED
      BY <2>5, <2>6, <2>7, <2>8 DEF FulfilInv
  <1> QED
    BY <1>0, <1>4, <1>5

\* A reader, the dashboard or the market writes a proposal or takes a note of
\* one; the bookers and the ledger stay.
LEMMA RecordKeeps ==
  ASSUME FulfilInv, UNCHANGED <<trades, cursor, booker>>,
         proposals' \in [Proposals -> Proposal],
         filled' \subseteq Orders, aged' \subseteq Proposals,
         lock' \in Bookers \cup {NoOne},
         client' \in [Clients -> ClientState],
         \A p \in Proposals :
            /\ proposals'[p].by \in {proposals[p].by, NoOrder}
            /\ proposals'[p].status = "Pending" => proposals'[p].by = NoOrder,
         \A c \in Clients : client'[c].step # "idle" =>
            client'[c].prop \in Proposals /\ client'[c].seen.by = NoOrder
  PROVE  FulfilInv'
  <1>1. Typed'
    BY DEF FulfilInv, Typed, ControlType, PostsOne
  <1>2. RowsAtHome' /\ RowsDistinct' /\ RowsBooked' /\ ReadApproved'
    BY DEF FulfilInv, RowsAtHome, RowsDistinct, RowsBooked, BookedFor, ReadApproved
  <1>3. ReadUnfulfilled'
    BY DEF ReadUnfulfilled
  <1>4. FulfilledIsBooked'
    BY FillConstants DEF FulfilInv, FulfilledIsBooked
  <1> QED
    BY <1>1, <1>2, <1>3, <1>4 DEF FulfilInv

LEMMA ClientKeeps ==
  ASSUME FulfilInv, NEW c \in Clients,
         \/ \E p \in Proposals : ClientRead(c, p)
         \/ ExpireStale(c) \/ ReportState(c)
  PROVE  FulfilInv'
  <1>0. /\ proposals \in [Proposals -> Proposal] /\ client \in [Clients -> ClientState]
        /\ filled \subseteq Orders /\ aged \subseteq Proposals
        /\ lock \in Bookers \cup {NoOne} /\ ReadUnfulfilled
    BY DEF FulfilInv, Typed, ControlType
  <1>1. ASSUME NEW p \in Proposals, ClientRead(c, p)
        PROVE  FulfilInv'
    <2>1. PICK k \in {"expire", "report"} :
             client' = [client EXCEPT ![c] = [step |-> k, prop |-> p, seen |-> proposals[p]]]
      BY <1>1 DEF ClientRead
    <2>2. proposals[p].by = NoOrder
      BY <1>0, <1>1 DEF ClientRead, Open, ReadUnfulfilled
    <2> DEFINE new == [step |-> k, prop |-> p, seen |-> proposals[p]]
    <2>3. new \in ClientState /\ new.prop = p /\ new.seen = proposals[p]
      BY <1>0 DEF ClientState
    <2> HIDE DEF new
    <2>4. /\ client' \in [Clients -> ClientState]
          /\ \A d \in Clients : client'[d] = client[d] \/ client'[d] = new
      BY <1>0, <2>1, <2>3 DEF new
    <2>5. UNCHANGED <<store, env, lock, booker>>
      BY <1>1 DEF ClientRead
    <2> QED
      BY <1>0, <2>2, <2>3, <2>4, <2>5, RecordKeeps DEF ReadUnfulfilled, store, env
  <1>2. CASE ExpireStale(c) \/ ReportState(c)
    <2> DEFINE q == client[c].prop
    <2>1. /\ q \in Proposals /\ client[c].seen \in Proposal /\ client[c].seen.by = NoOrder
      BY <1>0, <1>2 DEF ExpireStale, ReportState, ReadUnfulfilled, ClientState
    <2>2. PICK patch \in {[client[c].seen EXCEPT !.status = "Expired"],
                          [client[c].seen EXCEPT !.executing = TRUE],
                          [client[c].seen EXCEPT !.status = "ExecutionFailed"]} :
             proposals' \in {proposals, [proposals EXCEPT ![q] = patch]}
      BY <1>2 DEF ExpireStale, ReportState
    <2>3. patch \in Proposal /\ patch.by = NoOrder
      BY <2>1, <2>2 DEF Proposal, Statuses
    <2> HIDE DEF q
    <2>4. /\ proposals' \in [Proposals -> Proposal]
          /\ \A p \in Proposals : proposals'[p] = proposals[p] \/ proposals'[p] = patch
      BY <1>0, <2>1, <2>2, <2>3
    <2>5. client' = [client EXCEPT ![c] = IdleClient]
      BY <1>2 DEF ExpireStale, ReportState
    <2>6. IdleClient \in ClientState /\ IdleClient.step = "idle"
      BY IdleTyped DEF IdleClient, ClientState
    <2>7. /\ client' \in [Clients -> ClientState]
          /\ \A d \in Clients : client'[d] = client[d] \/ client'[d].step = "idle"
      BY <1>0, <2>5, <2>6
    <2>8. UNCHANGED <<trades, cursor, env, lock, booker>>
      BY <1>2 DEF ExpireStale, ReportState
    <2> QED
      BY <1>0, <2>3, <2>4, <2>7, <2>8, RecordKeeps DEF ReadUnfulfilled, env
  <1> QED
    BY <1>1, <1>2

LEMMA OutsideKeeps ==
  ASSUME FulfilInv,
         \/ LockExpires
         \/ \E p \in Proposals : Decide(p) \/ Ages(p)
         \/ \E o \in Orders : BrokerFills(o)
  PROVE  FulfilInv'
  <1>0. /\ proposals \in [Proposals -> Proposal] /\ client \in [Clients -> ClientState]
        /\ filled \subseteq Orders /\ aged \subseteq Proposals
        /\ lock \in Bookers \cup {NoOne} /\ ReadUnfulfilled
    BY DEF FulfilInv, Typed, ControlType
  <1>1. CASE LockExpires \/ (\E p \in Proposals : Ages(p)) \/ (\E o \in Orders : BrokerFills(o))
    <2>1. UNCHANGED <<store, booker, client>>
      BY <1>1 DEF LockExpires, Ages, BrokerFills
    <2>2. /\ filled' \subseteq Orders /\ aged' \subseteq Proposals
          /\ lock' \in Bookers \cup {NoOne}
      BY <1>0, <1>1 DEF LockExpires, Ages, BrokerFills, env
    <2> QED
      BY <1>0, <2>1, <2>2, RecordKeeps DEF ReadUnfulfilled, store
  <1>2. ASSUME NEW p \in Proposals, Decide(p)
        PROVE  FulfilInv'
    <2>1. PICK d \in {"Approved", "Rejected"} : proposals' = [proposals EXCEPT ![p].status = d]
      BY <1>2 DEF Decide
    <2>2. /\ proposals' \in [Proposals -> Proposal]
          /\ \A q \in Proposals : proposals'[q].by = proposals[q].by
          /\ \A q \in Proposals : proposals'[q].status = "Pending" =>
                                  proposals[q].status = "Pending"
      BY <1>0, <2>1 DEF Proposal, Statuses
    <2>3. UNCHANGED <<trades, cursor, env, lock, booker, client>>
      BY <1>2 DEF Decide
    <2> QED
      BY <1>0, <2>2, <2>3, RecordKeeps DEF ReadUnfulfilled, env
  <1> QED
    BY <1>1, <1>2

LEMMA StutterKeeps ==
  ASSUME FulfilInv, UNCHANGED vars
  PROVE  FulfilInv'
  BY RecordKeeps DEF FulfilInv, Typed, ControlType, ReadUnfulfilled, vars, store, env

-----------------------------------------------------------------------------
LEMMA FulfilInit == Init => FulfilInv
  <1> SUFFICES ASSUME Init PROVE FulfilInv
    OBVIOUS
  <1>1. /\ \A p \in Proposals : proposals[p] = NoProposalRead
        /\ \A o \in Orders : trades[o] = <<>>
        /\ \A b \in Bookers : booker[b] = Idle
        /\ \A c \in Clients : client[c] = IdleClient
    BY DEF Init
  <1>2. /\ IdleClient \in ClientState /\ IdleClient.step = "idle"
        /\ NoProposalRead.status = "Pending" /\ NoProposalRead.by = NoOrder
    BY IdleTyped DEF IdleClient, ClientState, NoProposalRead
  <1>3. Typed
    BY <1>1, <1>2, IdleTyped, EmptySeq DEF Init, Typed, ControlType, PostsOne, Bookers
  <1>4. RowsAtHome /\ RowsDistinct /\ RowsBooked /\ ReadApproved
    BY <1>1, IdleTyped DEF RowsAtHome, RowsDistinct, RowsBooked, ReadApproved, PastLedger
  <1>5. ReadUnfulfilled /\ FulfilledIsBooked
    BY <1>1, <1>2, FillConstants DEF ReadUnfulfilled, FulfilledIsBooked
  <1> QED
    BY <1>3, <1>4, <1>5 DEF FulfilInv

LEMMA FulfilStep == FulfilInv /\ [Next]_vars => FulfilInv'
  <1> SUFFICES ASSUME FulfilInv, [Next]_vars PROVE FulfilInv'
    OBVIOUS
  <1>1. ASSUME NEW b \in Posts, (\E o \in Orders : PostStart(b, o)) \/ PostStep(b)
        PROVE  FulfilInv'
    BY <1>1, PostQuiet, RecordAgainKeeps, RecordFillKeeps DEF PostStep
  <1>2. CASE SyncFetch \/ SyncStep
    BY <1>2, SyncQuiet, SyncPlanKeeps DEF SyncStep
  <1>3. ASSUME NEW b \in Bookers, WriteStep(b) \/ Crash(b)
        PROVE  FulfilInv'
    BY <1>3, WriteQuiet, AppendTradesKeeps, WriteFulfilledKeeps DEF WriteStep
  <1>4. ASSUME NEW c \in Clients,
               (\E p \in Proposals : ClientRead(c, p)) \/ ExpireStale(c) \/ ReportState(c)
        PROVE  FulfilInv'
    BY <1>4, ClientKeeps
  <1>5. CASE \/ LockExpires
             \/ \E p \in Proposals : Decide(p) \/ Ages(p)
             \/ \E o \in Orders : BrokerFills(o)
    BY <1>5, OutsideKeeps
  <1>6. CASE UNCHANGED vars
    BY <1>6, StutterKeeps
  <1> QED
    BY <1>1, <1>2, <1>3, <1>4, <1>5, <1>6 DEF Next

\* The proposals, the ledger and the control state keep their types, and a
\* fulfilled proposal has its order in the Trade Ledger under its name, for
\* any orders, any failures and crashes, whether or not the accounting lock
\* runs out: the ledger append comes before the proposal is marked, on both
\* paths and when a call is repeated (recordMcpTrade, syncFills).
THEOREM FulfilledIsBookedHolds == Spec => [](ControlType /\ FulfilledIsBooked)
  <1>1. FulfilInv => ControlType /\ FulfilledIsBooked
    BY DEF FulfilInv, Typed
  <1> QED
    BY <1>1, FulfilInit, FulfilStep, PTL DEF Spec

-----------------------------------------------------------------------------
(* Whose turn it is: what a booker's step does to the lock and the others  *)

Turn(b) ==
    /\ \A x \in Bookers : x # b => booker'[x] = booker[x]
    /\ booker'[b].step = "fulfil" => ReadToFulfil(b)
    /\ booker'[b].step = "trades" => RecordFill(b) \/ (b = Sync /\ SyncPlan)
    /\ booker'[b].step = "newLots" => AppendTrades(b)
    /\ booker'[b].step = "lots" => AppendLots(b)
    /\ lock' = lock \/ lock \in {b, NoOne}
    /\ InBooking(b)' => lock' = b \/ (InBooking(b) /\ lock' = lock)

LEMMA AdvanceTurn ==
  ASSUME Typed, NEW b \in Bookers, NEW s \in Steps \ {"fulfil", "trades"},
         Advance(b, s), InBooking(b) \/ s = "cursor",
         s = "newLots" => AppendTrades(b), s = "lots" => AppendLots(b)
  PROVE  Turn(b)
  <1>1. booker' = [booker EXCEPT ![b].step = s] /\ lock' = lock
    BY DEF Advance
  <1> QED
    BY <1>1, AdvanceBooker DEF Typed, ControlType, Turn, InBooking

LEMMA ExitTurn ==
  ASSUME Typed, NEW b \in Bookers, Exit(b)
  PROVE  Turn(b)
  BY IdleTyped, ExitBooker DEF Typed, ControlType, Exit, Turn, InBooking

LEMMA RowTurn ==
  ASSUME Typed, NEW b \in Bookers, InBooking(b), NextRow(b) \/ FailRow(b)
  PROVE  Turn(b)
  <1>1. CASE NextRow(b)
    <2>1. booker[b].next + 1 \in Nat \ {0}
      BY DEF Typed, ControlType, BookerState
    <2>2. /\ booker'[b].step = "rows" /\ lock' = lock
          /\ \A x \in Bookers : x # b => booker'[x] = booker[x]
      BY <1>1, <2>1 DEF NextRow, Typed, ControlType, BookerState
    <2> QED
      BY <2>2 DEF Turn, InBooking
  <1>2. CASE Exit(b)
    BY <1>2, ExitTurn
  <1> QED
    BY <1>1, <1>2 DEF FailRow

LEMMA PostTurn ==
  ASSUME Typed, NEW b \in Posts, (\E o \in Orders : PostStart(b, o)) \/ PostStep(b)
  PROVE  Turn(b)
  <1>0. b \in Bookers /\ booker \in [Bookers -> BookerState]
    BY DEF Bookers, Typed, ControlType
  <1>1. ASSUME NEW o \in Orders, PostStart(b, o) PROVE Turn(b)
    <2>1. /\ booker' = [booker EXCEPT ![b] = [Idle EXCEPT !.step = "locked", !.batch = {o}]]
          /\ lock = NoOne /\ lock' = b
      BY <1>1 DEF PostStart
    <2>2. "locked" \in Steps /\ {o} \in SUBSET Orders
      BY DEF Steps
    <2>3. booker'[b].step = "locked" /\ \A x \in Bookers : x # b => booker'[x] = booker[x]
      BY <1>0, <2>1, <2>2, StartBooker
    <2> QED
      BY <2>1, <2>3 DEF Turn
  <1>2. CASE ReadProposal(b)
    <2>1. /\ booker' = [booker EXCEPT ![b].step = "read", ![b].seen = proposals[Target(b)]]
          /\ lock' = lock /\ booker[b].step = "locked"
      BY <1>2 DEF ReadProposal
    <2>2. booker'[b].step = "read" /\ \A x \in Bookers : x # b => booker'[x] = booker[x]
      BY <1>0, <2>1 DEF BookerState
    <2> QED
      BY <2>1, <2>2 DEF Turn, InBooking
  <1>3. CASE RecordAgain(b)
    <2>1. \A r : booker' = [booker EXCEPT ![b].step = "rows", ![b].rows = r] =>
             booker'[b].step = "rows" /\ \A x \in Bookers : x # b => booker'[x] = booker[x]
      BY <1>0 DEF BookerState
    <2>2. /\ booker'[b].step = "rows" /\ \A x \in Bookers : x # b => booker'[x] = booker[x]
          /\ lock' = lock /\ booker[b].step = "read"
      BY <1>3, <2>1 DEF RecordAgain
    <2> QED
      BY <2>2 DEF Turn, InBooking
  <1>4. CASE RecordFill(b)
    <2>1. \A r : booker' = [booker EXCEPT ![b].step = "trades", ![b].rows = r] =>
             booker'[b].step = "trades" /\ \A x \in Bookers : x # b => booker'[x] = booker[x]
      BY <1>0 DEF BookerState
    <2>2. /\ booker'[b].step = "trades" /\ \A x \in Bookers : x # b => booker'[x] = booker[x]
          /\ lock' = lock /\ booker[b].step = "read"
      BY <1>4, <2>1 DEF RecordFill, PlanBatch
    <2> QED
      BY <1>4, <2>2 DEF Turn, InBooking
  <1>5. CASE RefuseFill(b)
    BY <1>0, <1>5, ExitTurn DEF RefuseFill
  <1> QED
    BY <1>1, <1>2, <1>3, <1>4, <1>5 DEF PostStep

LEMMA SyncTurn ==
  ASSUME Typed, SyncFetch \/ SyncStep
  PROVE  Turn(Sync)
  <1>0. Sync \in Bookers /\ booker \in [Bookers -> BookerState]
    BY DEF Bookers, Typed, ControlType
  <1>1. CASE SyncFetch
    <2>1. PICK got \in SUBSET (filled \ cursor) :
             booker' = [booker EXCEPT ![Sync] = [Idle EXCEPT !.step = "fetched", !.batch = got]]
      BY <1>1 DEF SyncFetch
    <2>2. "fetched" \in Steps /\ got \in SUBSET Orders /\ lock' = lock
      BY <1>1 DEF Steps, SyncFetch, Typed, ControlType
    <2>3. /\ booker'[Sync].step = "fetched"
          /\ \A x \in Bookers : x # Sync => booker'[x] = booker[x]
      BY <1>0, <2>1, <2>2, StartBooker
    <2> QED
      BY <2>2, <2>3 DEF Turn, InBooking
  <1>2. CASE SyncStamp
    <2>1. /\ booker'[Sync].step = "stamped" /\ lock' = lock
          /\ \A x \in Bookers : x # Sync => booker'[x] = booker[x]
      BY <1>0, <1>2 DEF SyncStamp, BookerState
    <2> QED
      BY <2>1 DEF Turn, InBooking
  <1>3. CASE SyncLock
    <2>1. CASE Advance(Sync, "cursor")
      BY <1>0, <2>1, AdvanceTurn DEF Steps
    <2>2. CASE lock = NoOne /\ lock' = Sync /\ booker' = [booker EXCEPT ![Sync].step = "locked"]
      BY <1>0, <2>2, AdvanceBooker DEF Turn, Steps
    <2>3. CASE Exit(Sync)
      BY <1>0, <2>3, ExitTurn
    <2> QED
      BY <1>3, <2>1, <2>2, <2>3 DEF SyncLock
  <1>4. CASE SyncPlan
    <2>1. CASE Advance(Sync, "release")
      BY <1>0, <1>4, <2>1, AdvanceTurn DEF SyncPlan, InBooking, Steps
    <2>2. CASE \E batch \in Orderings(Unbooked(booker[Sync].batch)) :
                  PlanBatch(Sync, batch, [i \in DOMAIN batch |-> Attributed(batch, i)])
      <3>1. \A r : booker' = [booker EXCEPT ![Sync].step = "trades", ![Sync].rows = r] =>
               /\ booker'[Sync].step = "trades"
               /\ \A x \in Bookers : x # Sync => booker'[x] = booker[x]
        BY <1>0 DEF BookerState
      <3>2. /\ booker'[Sync].step = "trades"
            /\ \A x \in Bookers : x # Sync => booker'[x] = booker[x]
            /\ lock' = lock /\ booker[Sync].step = "locked"
        BY <1>4, <2>2, <3>1 DEF PlanBatch, SyncPlan
      <3> QED
        BY <1>4, <3>2 DEF Turn, InBooking
    <2> QED
      BY <1>4, <2>1, <2>2 DEF SyncPlan
  <1>5. CASE SyncCursor
    BY <1>0, <1>5, IdleTyped, ExitBooker DEF SyncCursor, Turn, InBooking
  <1> QED
    BY <1>1, <1>2, <1>3, <1>4, <1>5 DEF SyncStep

LEMMA WriteTurn ==
  ASSUME Typed, NEW b \in Bookers, WriteStep(b) \/ Crash(b)
  PROVE  Turn(b)
  <1>1. CASE AppendTrades(b) \/ AppendLots(b) \/ UpdateLots(b)
    <2>1. \/ Exit(b)
          \/ Advance(b, "newLots") /\ AppendTrades(b)
          \/ Advance(b, "lots") /\ AppendLots(b)
          \/ Advance(b, "rows")
      BY <1>1 DEF AppendTrades, AppendLots, UpdateLots, Continue
    <2>2. InBooking(b)
      BY <1>1 DEF AppendTrades, AppendLots, UpdateLots, InBooking
    <2> QED
      BY <2>1, <2>2, ExitTurn, AdvanceTurn DEF Steps
  <1>2. CASE EndRows(b)
    BY <1>2, AdvanceTurn DEF EndRows, Steps, InBooking
  <1>3. CASE QueueRecon(b)
    BY <1>3, AdvanceTurn, RowTurn DEF QueueRecon, AtRow, Steps, InBooking
  <1>4. CASE OpenRecon(b) \/ SkipRow(b) \/ WriteFulfilled(b)
    BY <1>4, RowTurn DEF OpenRecon, SkipRow, WriteFulfilled, AtRow, InBooking
  <1>5. CASE ReadToFulfil(b)
    <2>1. CASE FailRow(b)
      BY <1>5, <2>1, RowTurn DEF ReadToFulfil, AtRow, InBooking
    <2>2. CASE ~FailRow(b)
      <3>1. /\ booker' = [booker EXCEPT ![b].step = "fulfil", ![b].seen = proposals[ThisRow(b).prop]]
            /\ lock' = lock /\ booker[b].step = "rows"
        BY <1>5, <2>2 DEF ReadToFulfil, AtRow
      <3>2. booker'[b].step = "fulfil" /\ \A x \in Bookers : x # b => booker'[x] = booker[x]
        BY <3>1 DEF Typed, ControlType, BookerState
      <3> QED
        BY <1>5, <3>1, <3>2 DEF Turn, InBooking
    <2> QED
      BY <2>1, <2>2
  <1>6. CASE Release(b)
    <2>1. CASE b = Sync
      <3>1. /\ booker' = [booker EXCEPT ![b].step = "cursor"]
            /\ lock' = lock \/ lock = b
        BY <1>6, <2>1 DEF Release
      <3>2. booker'[b].step = "cursor" /\ \A x \in Bookers : x # b => booker'[x] = booker[x]
        BY <3>1 DEF Typed, ControlType, BookerState
      <3> QED
        BY <3>1, <3>2 DEF Turn, InBooking
    <2> QED
      BY <1>6, <2>1, ExitTurn DEF Release
  <1>7. CASE Crash(b)
    BY <1>7, IdleTyped, ExitBooker DEF Crash, Turn, InBooking, Typed, ControlType
  <1> QED
    BY <1>1, <1>2, <1>3, <1>4, <1>5, <1>6, <1>7 DEF WriteStep

-----------------------------------------------------------------------------
(* A decided proposal never expires                                        *)

Undecided == {"Pending", "Expired"}
Executing == {"Approved", "ExecutionFailed"}

\* Who is to write a proposal back read it in a status it can no longer leave
\* except by that write: an aged proposal is never decided, and an approved
\* one can only fail.
ExpiresUndecided ==
    \A c \in Clients : client[c].step = "expire" =>
        /\ client[c].prop \in aged
        /\ proposals[client[c].prop].status \in Undecided

ReportsApproved ==
    \A c \in Clients : client[c].step = "report" =>
        /\ client[c].seen.status = "Approved"
        /\ proposals[client[c].prop].status \in Executing

FulfilsApproved ==
    \A b \in Bookers : booker[b].step = "fulfil" /\ ThisRow(b).prop \in Proposals =>
        proposals[ThisRow(b).prop].status \in Executing

RecordInv == FulfilInv /\ ExpiresUndecided /\ ReportsApproved /\ FulfilsApproved

\* What a step does to the records.
RecordsMove ==
    /\ aged \subseteq aged'
    /\ \A p \in Proposals :
        /\ proposals[p].status \in Executing => proposals'[p].status \in Executing
        /\ p \in aged /\ proposals[p].status \in Undecided =>
               proposals'[p].status \in Undecided
        /\ proposals[p].status \in {"Approved", "Rejected"} =>
               proposals'[p].status # "Expired"

LEMMA RecordsMoveStep == RecordInv /\ [Next]_vars => RecordsMove
  <1> SUFFICES ASSUME RecordInv, [Next]_vars PROVE RecordsMove
    OBVIOUS
  <1>0. /\ proposals \in [Proposals -> Proposal] /\ client \in [Clients -> ClientState]
        /\ FulfilInv /\ ExpiresUndecided /\ ReportsApproved /\ FulfilsApproved
    BY DEF RecordInv, FulfilInv, Typed, ControlType
  <1>1. CASE proposals' = proposals /\ (aged' = aged \/ \E p \in Proposals : Ages(p))
    BY <1>1 DEF RecordsMove, Ages, Undecided
  <1>2. ASSUME NEW b \in Bookers, WriteFulfilled(b) PROVE RecordsMove
    <2>1. /\ booker[b].step = "fulfil" /\ booker[b].seen \in Proposal
          /\ booker[b].seen.status = "Approved" /\ aged' = aged
      BY <1>0, <1>2
         DEF WriteFulfilled, AtRow, FulfilInv, Typed, ControlType, BookerState, ReadApproved, env
    <2> DEFINE row == ThisRow(b)
               closed == [booker[b].seen EXCEPT !.by = row.order, !.executing = FALSE]
    <2>2. closed.status = "Approved"
      BY <2>1 DEF Proposal
    <2>3. proposals' \in {proposals, [proposals EXCEPT ![row.prop] = closed]}
      BY <1>2 DEF WriteFulfilled
    <2>4. row.prop \in Proposals => proposals[row.prop].status \in Executing
      BY <1>0, <2>1 DEF FulfilsApproved
    <2> HIDE DEF closed, row
    <2>5. \A p \in Proposals : \/ proposals'[p] = proposals[p]
                               \/ p = row.prop /\ proposals'[p] = closed
      BY <1>0, <2>3
    <2> QED
      BY <2>1, <2>2, <2>4, <2>5 DEF RecordsMove, Executing, Undecided
  <1>3. ASSUME NEW c \in Clients, ExpireStale(c) PROVE RecordsMove
    <2> DEFINE q == client[c].prop
               gone == [client[c].seen EXCEPT !.status = "Expired"]
    <2>1. /\ client[c].step = "expire" /\ aged' = aged
          /\ proposals' \in {proposals, [proposals EXCEPT ![q] = gone]}
      BY <1>3 DEF ExpireStale, env
    <2>2. proposals[q].status \in Undecided /\ client[c].seen \in Proposal
      BY <1>0, <2>1 DEF ExpiresUndecided, ClientState
    <2>3. gone.status = "Expired"
      BY <2>2 DEF Proposal
    <2> HIDE DEF gone, q
    <2>4. \A p \in Proposals : \/ proposals'[p] = proposals[p]
                               \/ p = q /\ proposals'[p] = gone
      BY <1>0, <2>1
    <2> QED
      BY <2>1, <2>2, <2>3, <2>4 DEF RecordsMove, Executing, Undecided
  <1>4. ASSUME NEW c \in Clients, ReportState(c) PROVE RecordsMove
    <2> DEFINE q == client[c].prop
    <2>1. client[c].step = "report" /\ aged' = aged
      BY <1>4 DEF ReportState, env
    <2>2. /\ proposals[q].status \in Executing
          /\ client[c].seen \in Proposal /\ client[c].seen.status = "Approved"
      BY <1>0, <2>1 DEF ReportsApproved, ClientState
    <2>3. PICK patch \in {[client[c].seen EXCEPT !.executing = TRUE],
                          [client[c].seen EXCEPT !.status = "ExecutionFailed"]} :
             proposals' = [proposals EXCEPT ![q] = patch]
      BY <1>4 DEF ReportState
    <2>4. patch.status \in Executing
      BY <2>2, <2>3 DEF Proposal, Executing
    <2> HIDE DEF q
    <2>5. \A p \in Proposals : \/ proposals'[p] = proposals[p]
                               \/ p = q /\ proposals'[p] = patch
      BY <1>0, <2>3
    <2> QED
      BY <2>1, <2>2, <2>4, <2>5 DEF RecordsMove, Executing, Undecided
  <1>5. ASSUME NEW p \in Proposals, Decide(p) PROVE RecordsMove
    <2>1. PICK d \in {"Approved", "Rejected"} :
            /\ proposals[p].status = "Pending" /\ p \notin aged /\ aged' = aged
            /\ proposals' = [proposals EXCEPT ![p].status = d]
      BY <1>5 DEF Decide, env
    <2>2. \A q \in Proposals : q # p => proposals'[q] = proposals[q]
      BY <1>0, <2>1
    <2> QED
      BY <2>1, <2>2 DEF RecordsMove, Executing, Undecided
  <1>6. ASSUME NEW b \in Bookers,
               \/ b \in Posts /\ ((\E o \in Orders : PostStart(b, o)) \/ PostStep(b))
               \/ SyncFetch \/ SyncStep
               \/ (WriteStep(b) /\ ~WriteFulfilled(b)) \/ Crash(b)
        PROVE  UNCHANGED <<proposals, aged>>
    <2>1. CASE b \in Posts /\ ((\E o \in Orders : PostStart(b, o)) \/ PostStep(b))
      BY <2>1 DEF PostStep, PostStart, ReadProposal, RecordAgain, RecordFill, RefuseFill,
                  store, env
    <2>2. CASE SyncFetch \/ SyncStep
      BY <2>2 DEF SyncStep, SyncFetch, SyncStamp, SyncLock, SyncPlan, SyncCursor, store, env
    <2>3. CASE (WriteStep(b) /\ ~WriteFulfilled(b)) \/ Crash(b)
      BY <2>3 DEF WriteStep, AppendTrades, AppendLots, UpdateLots, EndRows, QueueRecon,
                  OpenRecon, SkipRow, ReadToFulfil, Release, Crash, store, env
    <2> QED
      BY <1>6, <2>1, <2>2, <2>3
  <1>7. \/ UNCHANGED <<proposals, aged>>
        \/ \E b \in Bookers : WriteFulfilled(b)
        \/ \E c \in Clients : ExpireStale(c) \/ ReportState(c)
        \/ \E p \in Proposals : Decide(p)
        \/ proposals' = proposals /\ \E p \in Proposals : Ages(p)
    <2>1. CASE \E b \in Posts : (\E o \in Orders : PostStart(b, o)) \/ PostStep(b)
      BY <1>6, <2>1 DEF Bookers
    <2>2. CASE SyncFetch \/ SyncStep
      BY <1>6, <2>2 DEF Bookers
    <2>3. CASE \E b \in Bookers : WriteStep(b) \/ Crash(b)
      BY <1>6, <2>3
    <2>4. CASE \/ LockExpires \/ UNCHANGED vars
               \/ \E c \in Clients : \E p \in Proposals : ClientRead(c, p)
               \/ \E o \in Orders : BrokerFills(o)
      BY <2>4 DEF LockExpires, ClientRead, BrokerFills, vars, store, env
    <2>5. CASE \E p \in Proposals : Ages(p)
      BY <2>5 DEF Ages, store
    <2> QED
      BY <2>1, <2>2, <2>3, <2>4, <2>5 DEF Next
  <1> QED
    BY <1>1, <1>2, <1>3, <1>4, <1>5, <1>7

\* Who reads a proposal to write it back, or does.
LEMMA ClientTurns ==
  ASSUME [Next]_vars
  PROVE  \/ client' = client
         \/ \E c \in Clients : \/ \E p \in Proposals : ClientRead(c, p)
                               \/ ExpireStale(c) \/ ReportState(c)
  <1>1. CASE \E b \in Posts : (\E o \in Orders : PostStart(b, o)) \/ PostStep(b)
    BY <1>1 DEF PostStep, PostStart, ReadProposal, RecordAgain, RecordFill, RefuseFill
  <1>2. CASE SyncFetch \/ SyncStep
    BY <1>2 DEF SyncStep, SyncFetch, SyncStamp, SyncLock, SyncPlan, SyncCursor
  <1>3. CASE \E b \in Bookers : WriteStep(b) \/ Crash(b)
    BY <1>3 DEF WriteStep, AppendTrades, AppendLots, UpdateLots, EndRows, QueueRecon,
                OpenRecon, SkipRow, ReadToFulfil, WriteFulfilled, Release, Crash
  <1>4. CASE \/ LockExpires \/ UNCHANGED vars
             \/ \E p \in Proposals : Decide(p) \/ Ages(p)
             \/ \E o \in Orders : BrokerFills(o)
    BY <1>4 DEF LockExpires, Decide, Ages, BrokerFills, vars
  <1> QED
    BY <1>1, <1>2, <1>3, <1>4 DEF Next

LEMMA ClientsMove ==
  ASSUME RecordInv, [Next]_vars, RecordsMove
  PROVE  ExpiresUndecided' /\ ReportsApproved'
  <1>0. /\ proposals \in [Proposals -> Proposal] /\ client \in [Clients -> ClientState]
        /\ ReadUnfulfilled /\ ExpiresUndecided /\ ReportsApproved
    BY DEF RecordInv, FulfilInv, Typed, ControlType
  <1>1. ASSUME NEW c \in Clients, client'[c] = client[c]
        PROVE  /\ client'[c].step = "expire" =>
                     /\ client'[c].prop \in aged'
                     /\ proposals'[client'[c].prop].status \in Undecided
               /\ client'[c].step = "report" =>
                     /\ client'[c].seen.status = "Approved"
                     /\ proposals'[client'[c].prop].status \in Executing
    BY <1>0, <1>1 DEF RecordsMove, ReadUnfulfilled, ExpiresUndecided, ReportsApproved
  <1>2. CASE client' = client
    BY <1>1, <1>2 DEF ExpiresUndecided, ReportsApproved
  <1>3. ASSUME NEW c \in Clients, NEW p \in Proposals, ClientRead(c, p)
        PROVE  ExpiresUndecided' /\ ReportsApproved'
    <2>1. UNCHANGED <<proposals, aged>>
      BY <1>3 DEF ClientRead, store, env
    <2> DEFINE new(k) == [step |-> k, prop |-> p, seen |-> proposals[p]]
    <2>2. PICK k \in {"expire", "report"} :
            /\ client' = [client EXCEPT ![c] = new(k)]
            /\ k = "expire" => p \in aged /\ proposals[p].status \in Undecided
            /\ k = "report" => proposals[p].status \in Executing /\ proposals[p].status = "Approved"
      <3>1. CASE /\ proposals[p].status = "Pending" /\ p \in aged
                 /\ client' = [client EXCEPT ![c] = new("expire")]
        BY <3>1 DEF Undecided
      <3>2. CASE /\ Open(p) /\ client' = [client EXCEPT ![c] = new("report")]
        BY <3>2 DEF Open, Executing
      <3> QED
        BY <1>3, <3>1, <3>2 DEF ClientRead
    <2>3. new(k).step = k /\ new(k).prop = p /\ new(k).seen = proposals[p]
      OBVIOUS
    <2> HIDE DEF new
    <2>4. client'[c] = new(k) /\ \A d \in Clients : d # c => client'[d] = client[d]
      BY <1>0, <2>2
    <2> QED
      BY <1>1, <2>1, <2>2, <2>3, <2>4 DEF ExpiresUndecided, ReportsApproved
  <1>4. ASSUME NEW c \in Clients, ExpireStale(c) \/ ReportState(c)
        PROVE  ExpiresUndecided' /\ ReportsApproved'
    <2>1. client' = [client EXCEPT ![c] = IdleClient]
      BY <1>4 DEF ExpireStale, ReportState
    <2>2. /\ client'[c].step = "idle"
          /\ \A d \in Clients : d # c => client'[d] = client[d]
      BY <1>0, <2>1 DEF IdleClient
    <2> QED
      BY <1>1, <2>2 DEF ExpiresUndecided, ReportsApproved
  <1> QED
    BY <1>2, <1>3, <1>4, ClientTurns

\* A step is a booker's turn, or moves no booker.
LEMMA SomeTurn ==
  ASSUME Typed, [Next]_vars
  PROVE  booker' = booker \/ \E b \in Bookers : Turn(b)
  <1>1. CASE \E b \in Posts : (\E o \in Orders : PostStart(b, o)) \/ PostStep(b)
    BY <1>1, PostTurn DEF Bookers
  <1>2. CASE SyncFetch \/ SyncStep
    BY <1>2, SyncTurn DEF Bookers
  <1>3. CASE \E b \in Bookers : WriteStep(b) \/ Crash(b)
    BY <1>3, WriteTurn
  <1>4. CASE \/ LockExpires \/ UNCHANGED vars
             \/ \E c \in Clients : (\E p \in Proposals : ClientRead(c, p))
                                   \/ ExpireStale(c) \/ ReportState(c)
             \/ \E p \in Proposals : Decide(p) \/ Ages(p)
             \/ \E o \in Orders : BrokerFills(o)
    BY <1>4 DEF LockExpires, ClientRead, ExpireStale, ReportState, Decide, Ages,
                BrokerFills, vars
  <1> QED
    BY <1>1, <1>2, <1>3, <1>4 DEF Next

\* A booker that has just read a proposal to fulfil it read an approved one,
\* open or closed by the same order, and still has its rows.
LEMMA JustRead ==
  ASSUME Typed, NEW b \in Bookers, ReadToFulfil(b), booker'[b].step = "fulfil"
  PROVE  /\ UNCHANGED <<proposals, trades>> /\ ThisRow(b)' = ThisRow(b)
         /\ booker[b].step = "rows"
         /\ CanFulfil(proposals[ThisRow(b).prop], ThisRow(b).order)
  <1> DEFINE p == proposals[ThisRow(b).prop]
  <1>0. booker \in [Bookers -> BookerState] /\ booker[b].step = "rows"
    BY DEF Typed, ControlType, ReadToFulfil, AtRow
  <1>1. ~FailRow(b)
    <2>1. booker[b].next + 1 \in Nat \ {0}
      BY DEF Typed, ControlType, BookerState
    <2>2. NextRow(b) => booker'[b].step = "rows"
      BY <1>0, <2>1 DEF NextRow, BookerState
    <2>3. Exit(b) => booker'[b].step = "idle"
      BY <1>0, IdleTyped, ExitBooker DEF Exit
    <2> QED
      BY <2>2, <2>3 DEF FailRow
  <1>2. /\ CanFulfil(p, ThisRow(b).order)
        /\ booker' = [booker EXCEPT ![b].step = "fulfil", ![b].seen = p]
    BY <1>1 DEF ReadToFulfil
  <1>3. booker'[b].rows = booker[b].rows /\ booker'[b].next = booker[b].next
    BY <1>0, <1>2 DEF BookerState
  <1> QED
    BY <1>0, <1>2, <1>3 DEF ReadToFulfil, ThisRow, store

LEMMA FulfilsMove ==
  ASSUME RecordInv, [Next]_vars, RecordsMove
  PROVE  FulfilsApproved'
  <1>0. Typed /\ FulfilsApproved
    BY DEF RecordInv, FulfilInv
  <1>1. ASSUME NEW x \in Bookers, booker'[x] = booker[x], booker'[x].step = "fulfil",
               ThisRow(x)'.prop \in Proposals
        PROVE  proposals'[ThisRow(x)'.prop].status \in Executing
    BY <1>0, <1>1 DEF FulfilsApproved, RecordsMove, ThisRow
  <1>2. CASE booker' = booker
    BY <1>1, <1>2 DEF FulfilsApproved
  <1>3. ASSUME NEW b \in Bookers, Turn(b) PROVE FulfilsApproved'
    <2>1. ASSUME booker'[b].step = "fulfil"
          PROVE  proposals'[ThisRow(b)'.prop].status \in Executing
      BY <1>0, <1>3, <2>1, JustRead DEF Turn, CanFulfil, Executing
    <2> QED
      BY <1>1, <1>3, <2>1 DEF Turn, FulfilsApproved
  <1> QED
    BY <1>0, <1>2, <1>3, SomeTurn

LEMMA RecordInit == Init => RecordInv
  <1> SUFFICES ASSUME Init PROVE RecordInv
    OBVIOUS
  <1>1. /\ \A b \in Bookers : booker[b] = Idle
        /\ \A c \in Clients : client[c] = IdleClient
    BY DEF Init
  <1> QED
    BY <1>1, FulfilInit, IdleTyped
       DEF RecordInv, ExpiresUndecided, ReportsApproved, FulfilsApproved, IdleClient

LEMMA RecordStep == RecordInv /\ [Next]_vars => RecordInv' /\ RecordsMove
  BY FulfilStep, RecordsMoveStep, ClientsMove, FulfilsMove DEF RecordInv

\* "Decided/fulfilled proposals never expire" (redis.js): a proposal once
\* approved or rejected is never expired, although expiry, the companion's
\* report and fulfilment each write back a whole record they read earlier and
\* take no lock.  It rests on the dashboard refusing proposals past 48 hours.
THEOREM DecidedNeverExpiresHolds == Spec => DecidedNeverExpires
  <1>1. RecordInv /\ [Next]_vars =>
          [\A p \in Proposals : proposals[p].status \in {"Approved", "Rejected"} =>
              proposals'[p].status # "Expired"]_vars
    BY RecordStep DEF RecordsMove
  <1> QED
    BY <1>1, RecordInit, RecordStep, PTL DEF Spec, DecidedNeverExpires

-----------------------------------------------------------------------------
(***************************************************************************)
(* What holds of the bookings while the accounting lock outlives its       *)
(* holder: no order is booked twice, and a proposal an order closed stays  *)
(* closed by it unless a report was under way.                             *)
(***************************************************************************)

\* Only the lock's holder is booking.
Mutex == \A b \in Bookers : InBooking(b) => lock = b

\* The orders a booker is about to append have no row.
FreshRows ==
    \A b \in Bookers : booker[b].step = "trades" =>
        \A i \in DOMAIN booker[b].rows : trades[booker[b].rows[i].order] = <<>>

\* The proposal a booker is about to close is open, or closed by its order.
FulfilsOpen ==
    \A b \in Bookers : booker[b].step = "fulfil" /\ ThisRow(b).prop \in Proposals =>
        proposals[ThisRow(b).prop].by \in {NoOrder, ThisRow(b).order}

LockInv == FulfilInv /\ Mutex /\ FreshRows /\ OrderBookedOnce /\ FulfilsOpen

-----------------------------------------------------------------------------
LEMMA TurnKeepsMutex ==
  ASSUME Mutex, NoOne \notin Bookers, NEW b \in Bookers, Turn(b),
         lock' = lock \/ lock \in {b, NoOne}
  PROVE  Mutex'
  <1> SUFFICES ASSUME NEW x \in Bookers, InBooking(x)' PROVE lock' = x
    BY DEF Mutex
  <1>1. CASE x = b
    BY <1>1 DEF Turn, Mutex
  <1>2. CASE x # b
    <2>1. InBooking(x)
      BY <1>2 DEF Turn, InBooking
    <2> QED
      BY <1>2, <2>1 DEF Mutex
  <1> QED
    BY <1>1, <1>2

\* Nobody else is between taking the lock and giving it back.
LEMMA Alone ==
  ASSUME Mutex, NEW b \in Bookers, InBooking(b), NEW x \in Bookers, InBooking(x)
  PROVE  x = b
  BY DEF Mutex

LEMMA MutexStep ==
  ASSUME ~LockMayExpire, Typed, Mutex, [Next]_vars
  PROVE  Mutex'
  <1>0. NoOne \notin Bookers
    BY FillConstants
  <1>1. CASE \E b \in Posts : (\E o \in Orders : PostStart(b, o)) \/ PostStep(b)
    <2>1. PICK b \in Bookers : Turn(b)
      BY <1>1, PostTurn DEF Bookers
    <2> QED
      BY <1>0, <2>1, TurnKeepsMutex DEF Turn
  <1>2. CASE SyncFetch \/ SyncStep
    <2>1. PICK b \in Bookers : Turn(b)
      BY <1>2, SyncTurn DEF Bookers
    <2> QED
      BY <1>0, <2>1, TurnKeepsMutex DEF Turn
  <1>3. CASE \E b \in Bookers : WriteStep(b) \/ Crash(b)
    <2>1. PICK b \in Bookers : Turn(b)
      BY <1>3, WriteTurn
    <2> QED
      BY <1>0, <2>1, TurnKeepsMutex DEF Turn
  <1>4. CASE LockExpires
    BY <1>4 DEF LockExpires, Mutex, InBooking
  <1>5. CASE \/ UNCHANGED vars
             \/ \E c \in Clients : (\E p \in Proposals : ClientRead(c, p))
                                   \/ ExpireStale(c) \/ ReportState(c)
             \/ \E p \in Proposals : Decide(p) \/ Ages(p)
             \/ \E o \in Orders : BrokerFills(o)
    <2>1. UNCHANGED <<lock, booker>>
      BY <1>5 DEF ClientRead, ExpireStale, ReportState, Decide, Ages, BrokerFills, vars
    <2> QED
      BY <2>1 DEF Mutex, InBooking
  <1> QED
    BY <1>1, <1>2, <1>3, <1>4, <1>5 DEF Next

-----------------------------------------------------------------------------
(* The Trade Ledger                                                        *)

\* Only the append changes the Trade Ledger.
LEMMA OnlyAppends ==
  ASSUME [Next]_vars
  PROVE  trades' = trades \/ \E b \in Bookers : AppendTrades(b)
  <1>1. CASE \E b \in Posts : (\E o \in Orders : PostStart(b, o)) \/ PostStep(b)
    BY <1>1 DEF PostStep, PostStart, ReadProposal, RecordAgain, RecordFill, RefuseFill, store
  <1>2. CASE SyncFetch \/ SyncStep
    BY <1>2 DEF SyncStep, SyncFetch, SyncStamp, SyncLock, SyncPlan, SyncCursor, store
  <1>3. CASE \E b \in Bookers : WriteStep(b) \/ Crash(b)
    BY <1>3 DEF WriteStep, AppendLots, UpdateLots, EndRows, QueueRecon,
                OpenRecon, SkipRow, ReadToFulfil, WriteFulfilled, Release, Crash, store
  <1>4. CASE \/ LockExpires \/ UNCHANGED vars
             \/ \E c \in Clients : (\E p \in Proposals : ClientRead(c, p))
                                   \/ ExpireStale(c) \/ ReportState(c)
             \/ \E p \in Proposals : Decide(p) \/ Ages(p)
             \/ \E o \in Orders : BrokerFills(o)
    BY <1>4 DEF LockExpires, ClientRead, ExpireStale, ReportState, Decide, Ages,
                BrokerFills, vars, store
  <1> QED
    BY <1>1, <1>2, <1>3, <1>4 DEF Next

\* What is planned to be appended was looked up in the ledger under the lock.
LEMMA FreshPlanned ==
  ASSUME FulfilInv, NEW b \in Bookers, RecordFill(b) \/ (b = Sync /\ SyncPlan),
         booker'[b].step = "trades"
  PROVE  /\ UNCHANGED trades
         /\ \A i \in DOMAIN booker'[b].rows : trades[booker'[b].rows[i].order] = <<>>
  <1>0. Typed /\ booker \in [Bookers -> BookerState]
    BY DEF FulfilInv, Typed, ControlType
  <1>1. CASE RecordFill(b)
    <2>1. /\ b \in Posts /\ booker[b].step = "read" /\ trades[Posted(b)] = <<>>
          /\ PlanBatch(b, <<Posted(b)>>, <<Target(b)>>) /\ trades' = trades
      BY <1>1 DEF RecordFill, FillAccepted, store
    <2>2. Posted(b) \in Orders /\ Target(b) \in Proposals
      BY <1>0, <2>1, PostedTyped
    <2> DEFINE batch == <<Posted(b)>>
               props == <<Target(b)>>
    <2>3. PICK n \in Nat : n = 1
      OBVIOUS
    <2>4. /\ batch \in [1 .. n -> Orders]
          /\ props \in [1 .. n -> Proposals \cup {NoProposal}]
          /\ batch[1] = Posted(b) /\ PlanBatch(b, batch, props)
      BY <2>1, <2>2, <2>3
    <2> HIDE DEF batch, props
    <2>5. /\ DOMAIN booker'[b].rows = 1 .. n
          /\ \A i \in 1 .. n : booker'[b].rows[i].order = batch[i]
      BY <1>0, <2>4, PlannedRows
    <2> QED
      BY <2>1, <2>3, <2>4, <2>5
  <1>2. CASE b = Sync /\ SyncPlan
    <2>1. trades' = trades
      BY <1>2 DEF SyncPlan, store
    <2>2. ~Advance(Sync, "release")
      <3>1. "release" \in Steps
        BY DEF Steps
      <3> QED
        BY <1>0, <1>2, <3>1, AdvanceBooker DEF Advance
    <2>3. PICK batch \in Orderings(Unbooked(booker[Sync].batch)) :
             PlanBatch(Sync, batch, [i \in DOMAIN batch |-> Attributed(batch, i)])
      BY <1>2, <2>2 DEF SyncPlan
    <2> DEFINE n == Cardinality(Unbooked(booker[Sync].batch))
               props == [i \in DOMAIN batch |-> Attributed(batch, i)]
    <2>4. /\ n \in Nat /\ batch \in [1 .. n -> Orders]
          /\ \A i \in 1 .. n : trades[batch[i]] = <<>>
      BY <1>0, FreshBatch
    <2>5. props \in [1 .. n -> Proposals \cup {NoProposal}]
      BY <2>4, AttributedTyped
    <2>6. PlanBatch(Sync, batch, props)
      BY <2>3
    <2> HIDE DEF n, props
    <2>7. /\ DOMAIN booker'[b].rows = 1 .. n
          /\ \A i \in 1 .. n : booker'[b].rows[i].order = batch[i]
      BY <1>0, <1>2, <2>4, <2>5, <2>6, PlannedRows
    <2> QED
      BY <2>1, <2>4, <2>7
  <1> QED
    BY <1>1, <1>2

LEMMA FreshStep ==
  ASSUME ~LockMayExpire, LockInv, [Next]_vars
  PROVE  FreshRows'
  <1>0. Typed /\ FulfilInv /\ Mutex /\ FreshRows
    BY DEF LockInv, FulfilInv
  \* A booker that stays keeps its rows fresh: only the lock's holder appends.
  <1>1. ASSUME NEW x \in Bookers, booker'[x] = booker[x], booker[x].step = "trades"
        PROVE  trades' = trades
    <2>1. ASSUME NEW b \in Bookers, AppendTrades(b) PROVE trades' = trades
      <3>1. x = b
        BY <1>0, <1>1, <2>1, Alone DEF AppendTrades, InBooking
      <3>2. Exit(b) \/ Advance(b, "newLots")
        BY <2>1 DEF AppendTrades, Continue
      <3>3. booker'[b].step \in {"idle", "newLots"}
        BY <1>0, <3>2, IdleTyped, ExitBooker, AdvanceBooker
           DEF Exit, Advance, Typed, ControlType, Steps
      <3> QED
        BY <1>1, <3>1, <3>3
    <2> QED
      BY <2>1, OnlyAppends
  <1>2. CASE booker' = booker
    BY <1>0, <1>1, <1>2 DEF FreshRows
  <1>3. ASSUME NEW b \in Bookers, Turn(b) PROVE FreshRows'
    <2>1. ASSUME booker'[b].step = "trades"
          PROVE  \A i \in DOMAIN booker'[b].rows : trades'[booker'[b].rows[i].order] = <<>>
      BY <1>0, <1>3, <2>1, FreshPlanned DEF Turn
    <2>2. ASSUME NEW x \in Bookers, x # b, booker'[x].step = "trades"
          PROVE  \A i \in DOMAIN booker'[x].rows : trades'[booker'[x].rows[i].order] = <<>>
      <3>1. booker'[x] = booker[x]
        BY <1>3, <2>2 DEF Turn
      <3>2. trades' = trades
        BY <1>1, <2>2, <3>1
      <3> QED
        BY <1>0, <2>2, <3>1, <3>2 DEF FreshRows
    <2> QED
      BY <2>1, <2>2 DEF FreshRows
  <1> QED
    BY <1>0, <1>2, <1>3, SomeTurn

LEMMA OnceStep ==
  ASSUME LockInv, [Next]_vars
  PROVE  OrderBookedOnce'
  <1>0. Typed /\ FulfilInv /\ FreshRows /\ OrderBookedOnce /\ trades \in [Orders -> Seq(Row)]
    BY DEF LockInv, FulfilInv, Typed, ControlType
  <1>1. ASSUME NEW b \in Bookers, AppendTrades(b)
        PROVE  OrderBookedOnce'
    <2>1. booker[b].step = "trades" /\ booker[b].rows \in Seq(Row)
      BY <1>0, <1>1 DEF AppendTrades, Typed, ControlType, BookerState
    <2>2. ASSUME NEW x \in Orders PROVE Len(trades[x] \o RowsOf(b, x)) <= 1
      <3>1. CASE \E i \in DOMAIN booker[b].rows : booker[b].rows[i].order = x
        <4>1. trades[x] = <<>>
          BY <1>0, <2>1, <3>1 DEF FreshRows
        <4>2. \E r : RowsOf(b, x) = <<r>>
          BY <3>1 DEF RowsOf
        <4>3. RowsOf(b, x) \in Seq(Row) /\ Len(RowsOf(b, x)) = 1
          BY <1>0, <4>2, AppendedRow
        <4>4. trades[x] \o RowsOf(b, x) = RowsOf(b, x)
          BY <4>1, <4>3, ConcatEmptySeq
        <4> QED
          BY <4>3, <4>4
      <3>2. CASE ~ \E i \in DOMAIN booker[b].rows : booker[b].rows[i].order = x
        <4>1. RowsOf(b, x) = <<>> /\ trades[x] \in Seq(Row)
          BY <1>0, <3>2 DEF RowsOf
        <4>2. trades[x] \o RowsOf(b, x) = trades[x]
          BY <4>1, ConcatEmptySeq
        <4> QED
          BY <1>0, <4>2 DEF OrderBookedOnce
      <3> QED
        BY <3>1, <3>2
    <2>3. \/ trades' = trades
          \/ trades' = [x \in Orders |-> trades[x] \o RowsOf(b, x)]
      BY <1>1 DEF AppendTrades
    <2> QED
      BY <1>0, <2>2, <2>3 DEF OrderBookedOnce
  <1>2. CASE trades' = trades
    BY <1>0, <1>2 DEF OrderBookedOnce
  <1> QED
    BY <1>1, <1>2, OnlyAppends

-----------------------------------------------------------------------------
(* Which order closed a proposal                                           *)

\* Who writes a proposal's record.
LEMMA Writers ==
  ASSUME [Next]_vars
  PROVE  \/ proposals' = proposals
         \/ \E b \in Bookers : WriteFulfilled(b)
         \/ \E c \in Clients : ExpireStale(c) \/ ReportState(c)
         \/ \E p \in Proposals : Decide(p)
  <1>1. CASE \E b \in Posts : (\E o \in Orders : PostStart(b, o)) \/ PostStep(b)
    BY <1>1 DEF PostStep, PostStart, ReadProposal, RecordAgain, RecordFill, RefuseFill, store
  <1>2. CASE SyncFetch \/ SyncStep
    BY <1>2 DEF SyncStep, SyncFetch, SyncStamp, SyncLock, SyncPlan, SyncCursor, store
  <1>3. CASE \E b \in Bookers : WriteStep(b) \/ Crash(b)
    BY <1>3 DEF WriteStep, AppendTrades, AppendLots, UpdateLots, EndRows, QueueRecon,
                OpenRecon, SkipRow, ReadToFulfil, Release, Crash, store
  <1>4. CASE \/ LockExpires \/ UNCHANGED vars
             \/ \E c \in Clients : \E p \in Proposals : ClientRead(c, p)
             \/ \E p \in Proposals : Ages(p)
             \/ \E o \in Orders : BrokerFills(o)
    BY <1>4 DEF LockExpires, ClientRead, Ages, BrokerFills, vars, store
  <1> QED
    BY <1>1, <1>2, <1>3, <1>4 DEF Next

\* Marking a proposal fulfilled closes it by the row's order, or fails.
LEMMA FulfilWrites ==
  ASSUME FulfilInv, NEW b \in Bookers, WriteFulfilled(b)
  PROVE  /\ booker[b].step = "fulfil" /\ booker'[b].step # "fulfil"
         /\ \A p \in Proposals :
               \/ proposals'[p] = proposals[p]
               \/ p = ThisRow(b).prop /\ proposals'[p].by = ThisRow(b).order
  <1>0. /\ proposals \in [Proposals -> Proposal] /\ Typed
    BY DEF FulfilInv, Typed, ControlType
  <1>1. booker[b].step = "fulfil" /\ booker[b].seen \in Proposal
    BY <1>0 DEF WriteFulfilled, AtRow, Typed, ControlType, BookerState
  <1> DEFINE row == ThisRow(b)
             closed == [booker[b].seen EXCEPT !.by = row.order, !.executing = FALSE]
  <1>2. closed.by = row.order
    BY <1>1 DEF Proposal
  <1>3. proposals' \in {proposals, [proposals EXCEPT ![row.prop] = closed]}
    BY DEF WriteFulfilled
  <1>4. booker'[b].step # "fulfil"
    <2>1. ~ReadToFulfil(b)
      BY <1>1 DEF ReadToFulfil, AtRow
    <2>2. Turn(b)
      BY <1>0, WriteTurn DEF WriteStep
    <2> QED
      BY <2>1, <2>2 DEF Turn
  <1> HIDE DEF closed, row
  <1>5. \A p \in Proposals : \/ proposals'[p] = proposals[p]
                             \/ p = row.prop /\ proposals'[p] = closed
    BY <1>0, <1>3
  <1> QED
    BY <1>1, <1>2, <1>4, <1>5 DEF row

\* Expiry and the companion's report write an open record.
LEMMA StaleWrites ==
  ASSUME proposals \in [Proposals -> Proposal], client \in [Clients -> ClientState],
         ReadUnfulfilled, NEW c \in Clients, ExpireStale(c) \/ ReportState(c),
         NEW p \in Proposals
  PROVE  proposals'[p] = proposals[p] \/ proposals'[p].by = NoOrder
  <1> DEFINE q == client[c].prop
  <1>1. client[c].seen \in Proposal /\ client[c].seen.by = NoOrder
    BY DEF ExpireStale, ReportState, ReadUnfulfilled, ClientState
  <1>2. PICK patch \in {[client[c].seen EXCEPT !.status = "Expired"],
                        [client[c].seen EXCEPT !.executing = TRUE],
                        [client[c].seen EXCEPT !.status = "ExecutionFailed"]} :
           proposals' \in {proposals, [proposals EXCEPT ![q] = patch]}
    BY DEF ExpireStale, ReportState
  <1>3. patch.by = NoOrder
    BY <1>1, <1>2 DEF Proposal
  <1> HIDE DEF q
  <1> QED
    BY <1>2, <1>3

\* A step leaves the orders that closed the proposals or forgets one, unless
\* it is a booker marking a proposal fulfilled.
LEMMA ByMoves ==
  ASSUME FulfilInv, [Next]_vars
  PROVE  \/ \A p \in Proposals : proposals'[p].by \in {proposals[p].by, NoOrder}
         \/ \E b \in Bookers :
               /\ booker[b].step = "fulfil" /\ booker'[b].step # "fulfil"
               /\ \A p \in Proposals :
                     \/ proposals'[p] = proposals[p]
                     \/ p = ThisRow(b).prop /\ proposals'[p].by = ThisRow(b).order
  <1>0. /\ proposals \in [Proposals -> Proposal] /\ client \in [Clients -> ClientState]
        /\ ReadUnfulfilled
    BY DEF FulfilInv, Typed, ControlType
  <1>1. ASSUME NEW c \in Clients, ExpireStale(c) \/ ReportState(c)
        PROVE  \A p \in Proposals : proposals'[p].by \in {proposals[p].by, NoOrder}
    BY <1>0, <1>1, StaleWrites
  <1>2. ASSUME NEW p \in Proposals, Decide(p)
        PROVE  \A q \in Proposals : proposals'[q].by = proposals[q].by
    BY <1>0, <1>2 DEF Decide, Proposal
  <1> QED
    BY <1>1, <1>2, FulfilWrites, Writers

LEMMA OpenStep ==
  ASSUME LockInv, [Next]_vars
  PROVE  FulfilsOpen'
  <1>0. Typed /\ FulfilInv /\ Mutex /\ FulfilsOpen
    BY DEF LockInv, FulfilInv
  <1>1. ASSUME NEW x \in Bookers, booker'[x] = booker[x], booker'[x].step = "fulfil",
               ThisRow(x)'.prop \in Proposals
        PROVE  proposals'[ThisRow(x)'.prop].by \in {NoOrder, ThisRow(x)'.order}
    <2>1. ThisRow(x)' = ThisRow(x) /\ booker[x].step = "fulfil"
      BY <1>1 DEF ThisRow
    <2>2. \A b \in Bookers : booker[b].step = "fulfil" => b = x
      BY <1>0, <2>1, Alone DEF InBooking
    <2>3. \A p \in Proposals : proposals'[p].by \in {proposals[p].by, NoOrder}
      BY <1>0, <1>1, <2>2, ByMoves
    <2> QED
      BY <1>0, <1>1, <2>1, <2>3 DEF FulfilsOpen
  <1>2. CASE booker' = booker
    BY <1>1, <1>2 DEF FulfilsOpen
  <1>3. ASSUME NEW b \in Bookers, Turn(b) PROVE FulfilsOpen'
    <2>1. ASSUME booker'[b].step = "fulfil"
          PROVE  proposals'[ThisRow(b)'.prop].by \in {NoOrder, ThisRow(b)'.order}
      BY <1>0, <1>3, <2>1, JustRead DEF Turn, CanFulfil
    <2> QED
      BY <1>1, <1>3, <2>1 DEF Turn, FulfilsOpen
  <1> QED
    BY <1>0, <1>2, <1>3, SomeTurn

-----------------------------------------------------------------------------
LEMMA LockInit == Init => LockInv
  <1> SUFFICES ASSUME Init PROVE LockInv
    OBVIOUS
  <1>1. \A b \in Bookers : booker[b] = Idle
    BY DEF Init
  <1>2. \A o \in Orders : Len(trades[o]) = 0
    BY DEF Init
  <1> QED
    BY <1>1, <1>2, FulfilInit, IdleTyped
       DEF LockInv, Mutex, InBooking, FreshRows, OrderBookedOnce, FulfilsOpen

LEMMA LockStep == ~LockMayExpire /\ LockInv /\ [Next]_vars => LockInv'
  BY FulfilStep, MutexStep, FreshStep, OnceStep, OpenStep DEF LockInv, FulfilInv

\* No broker order has two Trade Ledger rows, whichever of /record-trade and
\* the holdings sync sees it first, however often it is posted and whatever
\* write fails or is lost, as long as the accounting lock outlives its holder:
\* both paths look an order up in the ledger under the lock before they append.
THEOREM OrderBookedOnceHolds ==
  ASSUME ~LockMayExpire
  PROVE  Spec => []OrderBookedOnce
  <1>1. LockInv /\ [Next]_vars => LockInv'
    BY LockStep
  <1>2. LockInv => OrderBookedOnce
    BY DEF LockInv
  <1> QED
    BY <1>1, <1>2, LockInit, PTL DEF Spec

\* Only a decided proposal has been closed by an order.
ClosedDecided == \A p \in Proposals : proposals[p].status \in Undecided => proposals[p].by = NoOrder

\* A step rewrites a record open or decided.
LEMMA ClosedStep ==
  ASSUME RecordInv, ClosedDecided, [Next]_vars
  PROVE  ClosedDecided'
  <1>0. /\ proposals \in [Proposals -> Proposal] /\ client \in [Clients -> ClientState]
        /\ booker \in [Bookers -> BookerState] /\ ReadUnfulfilled /\ ReadApproved
    BY DEF RecordInv, FulfilInv, Typed, ControlType
  <1> SUFFICES ASSUME NEW p \in Proposals
               PROVE  \/ proposals'[p] = proposals[p] \/ proposals'[p].by = NoOrder
                      \/ proposals'[p].status \notin Undecided
    BY DEF ClosedDecided
  <1>1. ASSUME NEW b \in Bookers, WriteFulfilled(b)
        PROVE  proposals'[p] = proposals[p] \/ proposals'[p].status = "Approved"
    <2> DEFINE closed == [booker[b].seen EXCEPT !.by = ThisRow(b).order, !.executing = FALSE]
    <2>1. /\ booker[b].seen \in Proposal /\ booker[b].seen.status = "Approved"
          /\ proposals' \in {proposals, [proposals EXCEPT ![ThisRow(b).prop] = closed]}
      BY <1>0, <1>1 DEF WriteFulfilled, AtRow, BookerState, ReadApproved
    <2>2. closed.status = "Approved"
      BY <2>1 DEF Proposal
    <2> HIDE DEF closed
    <2> QED
      BY <1>0, <2>1, <2>2
  <1>2. ASSUME NEW c \in Clients, ExpireStale(c) \/ ReportState(c)
        PROVE  proposals'[p] = proposals[p] \/ proposals'[p].by = NoOrder
    BY <1>0, <1>2, StaleWrites
  <1>3. ASSUME NEW q \in Proposals, Decide(q)
        PROVE  proposals'[p] = proposals[p] \/ proposals'[p].status \in {"Approved", "Rejected"}
    BY <1>0, <1>3 DEF Decide, Proposal
  <1> QED
    BY <1>1, <1>2, <1>3, Writers DEF Undecided

\* Only a report can reopen a proposal, and only one that has read it.
LEMMA StaysClosed ==
  ASSUME RecordInv, ClosedDecided, [Next]_vars,
         NEW p \in Proposals, NEW o \in Orders, Settled(p, o)
  PROVE  \/ proposals'[p].by = o
         \/ \E b \in Bookers : /\ booker[b].step = "fulfil" /\ p = ThisRow(b).prop
                               /\ proposals'[p].by = ThisRow(b).order
  <1>0. /\ proposals \in [Proposals -> Proposal] /\ FulfilInv /\ ExpiresUndecided
        /\ proposals[p].by = o /\ o # NoOrder
    BY FillConstants DEF RecordInv, FulfilInv, Typed, ControlType, Settled
  <1>1. ASSUME NEW c \in Clients, ExpireStale(c) \/ ReportState(c)
        PROVE  proposals'[p] = proposals[p]
    <2>1. client[c].prop # p
      BY <1>0, <1>1 DEF ExpireStale, ReportState, ExpiresUndecided, ClosedDecided, Settled
    <2> DEFINE q == client[c].prop
    <2>2. PICK patch : proposals' \in {proposals, [proposals EXCEPT ![q] = patch]}
      BY <1>1 DEF ExpireStale, ReportState
    <2> QED
      BY <1>0, <2>1, <2>2
  <1>2. ASSUME NEW q \in Proposals, Decide(q)
        PROVE  proposals'[p].by = proposals[p].by
    BY <1>0, <1>2 DEF Decide, Proposal
  <1>3. ASSUME NEW b \in Bookers, WriteFulfilled(b)
        PROVE  \/ proposals'[p] = proposals[p]
               \/ /\ booker[b].step = "fulfil" /\ p = ThisRow(b).prop
                  /\ proposals'[p].by = ThisRow(b).order
    BY <1>0, <1>3, FulfilWrites
  <1> QED
    BY <1>0, <1>1, <1>2, <1>3, Writers

\* Nobody reports a closed proposal who had not read it open.
LEMMA StaysUnread ==
  ASSUME Typed, [Next]_vars, NEW p \in Proposals, NEW o \in Orders, Settled(p, o),
         NEW d \in Clients, client'[d].step = "report"
  PROVE  client'[d].prop # p
  <1>0. /\ client \in [Clients -> ClientState] /\ proposals[p].by = o /\ o # NoOrder
    BY FillConstants DEF Typed, ControlType, Settled
  <1>1. CASE client' = client
    BY <1>1 DEF Settled
  <1>2. ASSUME NEW c \in Clients, NEW q \in Proposals, ClientRead(c, q)
        PROVE  client'[d].prop # p
    <2>1. PICK k \in {"expire", "report"} :
            /\ client' = [client EXCEPT ![c] = [step |-> k, prop |-> q, seen |-> proposals[q]]]
            /\ k = "report" => Open(q)
      BY <1>2 DEF ClientRead
    <2>2. d # c => client'[d] = client[d]
      BY <1>0, <2>1
    <2>3. d = c => client'[d].step = k /\ client'[d].prop = q
      BY <1>0, <2>1
    <2> QED
      BY <1>0, <2>1, <2>2, <2>3 DEF Open, Settled
  <1>3. ASSUME NEW c \in Clients, ExpireStale(c) \/ ReportState(c)
        PROVE  client'[d].prop # p
    <2>1. client' = [client EXCEPT ![c] = IdleClient]
      BY <1>3 DEF ExpireStale, ReportState
    <2>2. d # c
      BY <1>0, <2>1 DEF IdleClient
    <2> QED
      BY <1>0, <2>1, <2>2 DEF Settled
  <1> QED
    BY <1>1, <1>2, <1>3, ClientTurns

\* What an order closed stays closed by it, although fulfilment, expiry and the
\* companion's reports each write back a record they read earlier, as long as
\* the accounting lock outlives its holder and no report is under way that read
\* the proposal open: such a report writes the open proposal back
\* (/companion/proposal-state, server.js), and any order of it may then close it.
THEOREM ClosedStaysClosedHolds ==
  ASSUME ~LockMayExpire
  PROVE  Spec => ClosedStaysClosed
  <1> DEFINE IInv == LockInv /\ RecordInv /\ ClosedDecided
  <1>1. Init => IInv
    BY LockInit, RecordInit DEF Init, ClosedDecided, NoProposalRead
  <1>2. IInv /\ [Next]_vars => IInv'
    BY LockStep, RecordStep, ClosedStep
  <1>3. IInv /\ [Next]_vars =>
          [\A p \in Proposals : \A o \in Orders : Settled(p, o) => Settled(p, o)']_vars
    <2> SUFFICES ASSUME IInv, [Next]_vars, NEW p \in Proposals, NEW o \in Orders, Settled(p, o)
                 PROVE  Settled(p, o)'
      OBVIOUS
    <2>1. /\ FulfilsOpen /\ Typed /\ proposals[p].by = o /\ o # NoOrder
      BY FillConstants DEF LockInv, FulfilInv, Settled
    <2>2. proposals'[p].by = o
      BY <2>1, StaysClosed DEF FulfilsOpen
    <2>3. \A d \in Clients : client'[d].step = "report" => client'[d].prop # p
      BY <2>1, StaysUnread
    <2> QED
      BY <2>2, <2>3 DEF Settled
  <1> QED
    BY <1>1, <1>2, <1>3, PTL DEF Spec, ClosedStaysClosed

-----------------------------------------------------------------------------
(***************************************************************************)
(* What a booking does to the lots.                                        *)
(***************************************************************************)

LEMMA LotsAre ==
  ASSUME NEW ls \in Seq(Lot)
  PROVE  /\ DOMAIN ls = 1 .. Len(ls) /\ Len(ls) \in Nat
         /\ \A j \in DOMAIN ls : ls[j] \in Lot /\ ls[j].owner \in Owners /\ ls[j].open \in Nat
  <1>1. DOMAIN ls = 1 .. Len(ls) /\ Len(ls) \in Nat
    BY LenProperties
  <1>2. \A j \in DOMAIN ls : ls[j] \in Lot
    BY <1>1, ElementOfSeq
  <1> QED
    BY <1>1, <1>2 DEF Lot

LEMMA OpenInType ==
  ASSUME NEW ls \in Seq(Lot), NEW S \in SUBSET DOMAIN ls
  PROVE  IsFiniteSet(S) /\ OpenIn(ls, S) \in Nat
  <1>1. IsFiniteSet(S)
    BY LotsAre, FS_Interval, FS_Subset
  <1> DEFINE open == [j \in S |-> ls[j].open]
  <1>2. \A j \in S : open[j] \in Nat
    BY LotsAre
  <1> HIDE DEF open
  <1>3. Total(open, S) \in Nat
    BY <1>1, <1>2, TotalType
  <1> QED
    BY <1>1, <1>3 DEF OpenIn, open

LEMMA TakenIs ==
  ASSUME NEW ls \in Seq(Lot), NEW owner, NEW n \in Nat, NEW j \in DOMAIN ls
  PROVE  /\ Taken(ls, owner, n, j) \in Nat /\ Taken(ls, owner, n, j) <= ls[j].open
         /\ j \notin Eligible(ls, owner) => Taken(ls, owner, n, j) = 0
  <1> DEFINE S == {i \in Eligible(ls, owner) : i < j}
             before == OpenIn(ls, S)
             left == IF n > before THEN n - before ELSE 0
  <1>1. S \in SUBSET DOMAIN ls
    BY DEF Eligible
  <1>2. before \in Nat
    BY <1>1, OpenInType
  <1>3. left \in Nat /\ ls[j].open \in Nat
    <2> HIDE DEF before
    <2> QED
      BY <1>2, LotsAre
  <1>4. Taken(ls, owner, n, j) = IF j \notin Eligible(ls, owner) THEN 0
                                 ELSE IF left < ls[j].open THEN left ELSE ls[j].open
    BY DEF Taken
  <1> HIDE DEF left
  <1> QED
    BY <1>3, <1>4

\* The lots after a sale that is covered, and after a purchase.
Sold(ls, owner, n) ==
    [j \in DOMAIN ls |-> [ls[j] EXCEPT !.open = @ - Taken(ls, owner, n, j)]]

LEMMA SoldIs ==
  ASSUME NEW ls \in Seq(Lot), NEW owner, NEW n \in Nat, NEW new, new = Sold(ls, owner, n)
  PROVE  /\ new \in Seq(Lot) /\ DOMAIN new = DOMAIN ls
         /\ \A j \in DOMAIN ls : /\ new[j].owner = ls[j].owner
                                 /\ new[j].open = ls[j].open - Taken(ls, owner, n, j)
  <1> DEFINE R(j) == [ls[j] EXCEPT !.open = @ - Taken(ls, owner, n, j)]
  <1>0. new = [j \in DOMAIN ls |-> R(j)]
    BY DEF Sold
  <1>1. ASSUME NEW j \in DOMAIN ls
        PROVE  /\ R(j) \in Lot /\ R(j).owner = ls[j].owner
               /\ R(j).open = ls[j].open - Taken(ls, owner, n, j)
    <2>1. ls[j] \in Lot /\ ls[j].open \in Nat
      BY LotsAre
    <2>2. Taken(ls, owner, n, j) \in Nat /\ Taken(ls, owner, n, j) <= ls[j].open
      BY TakenIs
    <2>3. ls[j].open - Taken(ls, owner, n, j) \in Nat
      BY <2>1, <2>2
    <2> QED
      BY <2>1, <2>3 DEF Lot
  <1> HIDE DEF R
  <1>2. new \in [1 .. Len(ls) -> Lot] /\ Len(ls) \in Nat
    BY <1>0, <1>1, LotsAre
  <1>3. new \in Seq(Lot)
    BY <1>2, SeqDef
  <1> QED
    BY <1>0, <1>1, <1>3

LEMMA BoughtIs ==
  ASSUME NEW ls \in Seq(Lot), NEW owner \in Owners, NEW n \in Nat
  PROVE  LET new == Append(ls, [owner |-> owner, open |-> n])
         IN  /\ new \in Seq(Lot) /\ Len(new) = Len(ls) + 1
             /\ new[Len(ls) + 1] = [owner |-> owner, open |-> n]
             /\ \A j \in DOMAIN ls : new[j] = ls[j]
  <1>1. [owner |-> owner, open |-> n] \in Lot
    BY DEF Lot
  <1> QED
    BY <1>1, AppendProperties

LEMMA BookedTyped ==
  ASSUME NEW ls \in Seq(Lot), NEW o \in Orders, NEW owner \in Owners
  PROVE  /\ Booked(ls, o, owner) \in Seq(Lot) /\ Len(ls) <= Len(Booked(ls, o, owner))
  <1>0. OrderOf[o].shares \in Nat /\ Len(ls) \in Nat
    BY FillConstants DEF OrderType
  <1>1. CASE OrderOf[o].side = "BUY"
    BY <1>0, <1>1, BoughtIs DEF Booked
  <1>2. CASE OrderOf[o].side # "BUY" /\ Short(ls, o, owner)
    BY <1>0, <1>2 DEF Booked
  <1>3. CASE OrderOf[o].side # "BUY" /\ ~Short(ls, o, owner)
    <2> DEFINE new == Sold(ls, owner, OrderOf[o].shares)
    <2>1. Booked(ls, o, owner) = new
      BY <1>3 DEF Booked, Sold
    <2>2. new \in Seq(Lot) /\ DOMAIN new = DOMAIN ls
      BY <1>0, SoldIs
    <2> HIDE DEF new
    <2>3. Len(new) = Len(ls)
      BY <2>2, <1>0, LenProperties
    <2> QED
      BY <2>1, <2>2, <2>3, <1>0
  <1> QED
    BY <1>1, <1>2, <1>3

\* A step of each number in turn, from a base.
Iterates(n, S, base, step) ==
    \E f \in [0 .. n -> S] : f[0] = base /\ \A i \in 1 .. n : f[i] = step[i][f[i - 1]]

LEMMA Iterated ==
  ASSUME NEW n \in Nat, NEW S, NEW base \in S, NEW step \in [1 .. n -> [S -> S]]
  PROVE  Iterates(n, S, base, step)
  <1> DEFINE Good(m) == \E f \in [0 .. m -> S] :
                           f[0] = base /\ \A i \in 1 .. m : f[i] = step[i][f[i - 1]]
             T == {m \in 0 .. n : ~Good(m)}
  <1>1. ASSUME T # {} PROVE FALSE
    <2>1. T \in SUBSET Nat
      OBVIOUS
    <2>2. PICK m \in T : \A y \in T : m <= y
      BY <1>1, <2>1, LeastNatural
    <2>3. m \in 0 .. n /\ ~Good(m)
      OBVIOUS
    <2>4. CASE m = 0
      <3> DEFINE f == [i \in 0 .. 0 |-> base]
      <3>1. f \in [0 .. 0 -> S] /\ f[0] = base /\ \A i \in 1 .. 0 : f[i] = step[i][f[i - 1]]
        OBVIOUS
      <3> QED
        BY <2>3, <2>4, <3>1
    <2>5. CASE m # 0
      <3>1. m - 1 \in 0 .. n /\ m \in 1 .. n
        BY <2>3, <2>5
      <3>1a. m - 1 \notin T
        <4> HIDE DEF T
        <4> QED
          BY <2>2, <3>1
      <3>2. Good(m - 1)
        <4> HIDE DEF Good
        <4> QED
          BY <3>1, <3>1a
      <3>3. PICK f \in [0 .. m - 1 -> S] :
               f[0] = base /\ \A i \in 1 .. m - 1 : f[i] = step[i][f[i - 1]]
        BY <3>2
      <3> DEFINE last == step[m][f[m - 1]]
                 g == [i \in 0 .. m |-> IF i < m THEN f[i] ELSE last]
      <3>4. last \in S
        BY <3>1, <3>3
      <3>5. g \in [0 .. m -> S] /\ g[0] = base
        <4> HIDE DEF last
        <4> QED
          BY <3>1, <3>3, <3>4
      <3>6. \A i \in 1 .. m : g[i] = step[i][g[i - 1]]
        <4> SUFFICES ASSUME NEW i \in 1 .. m PROVE g[i] = step[i][g[i - 1]]
          OBVIOUS
        <4>1. i - 1 \in 0 .. m - 1 /\ g[i - 1] = f[i - 1]
          BY <3>1
        <4>2. CASE i = m
          BY <3>1, <4>1, <4>2
        <4>3. CASE i # m
          BY <3>1, <3>3, <4>1, <4>3
        <4> QED
          BY <4>2, <4>3
      <3>7. Good(m)
        BY <3>5, <3>6
      <3> QED
        BY <2>3, <3>7
    <2> QED
      BY <2>4, <2>5
  <1>2. Good(n)
    <2> HIDE DEF Good
    <2> QED
      BY <1>1
  <1> QED
    BY <1>2 DEF Iterates

\* The lots as a batch works through them.
LEMMA WorkingIs ==
  ASSUME lots \in Seq(Lot), NEW n \in Nat, NEW batch \in [1 .. n -> Orders],
         NEW props \in [1 .. n -> Proposals \cup {NoProposal}]
  PROVE  /\ Working(batch, props) \in [0 .. n -> Seq(Lot)]
         /\ Working(batch, props)[0] = lots
         /\ \A i \in 1 .. n : Working(batch, props)[i] =
               Booked(Working(batch, props)[i - 1], batch[i], OwnerFor(props[i]))
         /\ \A i \in 1 .. n : OwnerFor(props[i]) \in Owners
         /\ Len(batch) = n
  <1>0. Len(batch) = n
    BY SeqDef
  <1>1. \A i \in 1 .. n : OwnerFor(props[i]) \in Owners
    BY FillConstants DEF OwnerFor, Owners
  <1> DEFINE step == [i \in 1 .. n |-> [x \in Seq(Lot) |-> Booked(x, batch[i], OwnerFor(props[i]))]]
             Is(f) == f = [i \in 0 .. n |-> IF i = 0 THEN lots
                             ELSE Booked(f[i - 1], batch[i], OwnerFor(props[i]))]
  <1>2. step \in [1 .. n -> [Seq(Lot) -> Seq(Lot)]]
    BY <1>1, BookedTyped
  <1>2a. \A i \in 1 .. n : \A x \in Seq(Lot) : step[i][x] = Booked(x, batch[i], OwnerFor(props[i]))
    OBVIOUS
  <1> HIDE DEF step, Is
  <1>3. PICK f \in [0 .. n -> Seq(Lot)] : f[0] = lots /\ \A i \in 1 .. n : f[i] = step[i][f[i - 1]]
    <2>1. Iterates(n, Seq(Lot), lots, step)
      BY <1>2, Iterated
    <2> QED
      BY <2>1 DEF Iterates
  <1>3a. \A i \in 1 .. n : i - 1 \in 0 .. n /\ f[i - 1] \in Seq(Lot)
    BY <1>3
  <1>4. \A i \in 1 .. n : f[i] = Booked(f[i - 1], batch[i], OwnerFor(props[i]))
    BY <1>2a, <1>3, <1>3a
  <1>5. Is(f)
    BY <1>3, <1>4 DEF Is
  <1>6. Working(batch, props) = CHOOSE g : Is(g)
    BY <1>0 DEF Working, Is
  <1>7. Is(Working(batch, props))
    BY <1>5, <1>6
  <1> DEFINE w == Working(batch, props)
  <1> HIDE DEF w
  <1>8. w = [i \in 0 .. n |-> IF i = 0 THEN lots ELSE Booked(w[i - 1], batch[i], OwnerFor(props[i]))]
    BY <1>7 DEF w, Is
  <1>9. w[0] = lots /\ \A i \in 1 .. n : w[i] = Booked(w[i - 1], batch[i], OwnerFor(props[i]))
    BY <1>8
  <1>10. \A i \in 0 .. n : w[i] \in Seq(Lot)
    <2> DEFINE T == {i \in 0 .. n : w[i] \notin Seq(Lot)}
    <2>1. ASSUME T # {} PROVE FALSE
      <3>1. T \in SUBSET Nat
        OBVIOUS
      <3>2. PICK m \in T : \A y \in T : m <= y
        BY <2>1, <3>1, LeastNatural
      <3>3. m \in 1 .. n
        BY <1>9
      <3>4. m - 1 \in 0 .. n /\ m - 1 \notin T
        BY <3>2, <3>3
      <3>5. w[m - 1] \in Seq(Lot)
        BY <3>4
      <3>6. OwnerFor(props[m]) \in Owners /\ w[m] = Booked(w[m - 1], batch[m], OwnerFor(props[m]))
        BY <1>1, <1>9, <3>3
      <3>7. batch[m] \in Orders
        BY <3>3
      <3>8. Booked(w[m - 1], batch[m], OwnerFor(props[m])) \in Seq(Lot)
        BY <3>5, <3>6, <3>7, BookedTyped
      <3>9. w[m] \notin Seq(Lot)
        BY <3>2
      <3> QED
        BY <3>6, <3>8, <3>9
    <2> QED
      BY <2>1
  <1>11. w \in [0 .. n -> Seq(Lot)]
    BY <1>8, <1>10
  <1> QED
    BY <1>0, <1>1, <1>9, <1>11 DEF w

LEMMA SharesType ==
  ASSUME NEW ls \in Seq(Lot), NEW a
  PROVE  SharesOf(ls, a) \in Nat
  <1>1. {j \in DOMAIN ls : ls[j].owner = a} \in SUBSET DOMAIN ls
    OBVIOUS
  <1> QED
    BY <1>1, OpenInType DEF SharesOf

\* A purchase gives its owner its shares, and nobody else any.
LEMMA BoughtShares ==
  ASSUME NEW ls \in Seq(Lot), NEW o \in Orders, NEW owner \in Owners, NEW a \in Owners,
         OrderOf[o].side = "BUY"
  PROVE  SharesOf(Booked(ls, o, owner), a)
           = SharesOf(ls, a) + IF a = owner THEN OrderOf[o].shares ELSE 0
  <1> DEFINE n == OrderOf[o].shares
             k == Len(ls) + 1
             new == Append(ls, [owner |-> owner, open |-> n])
             S == {j \in DOMAIN ls : ls[j].owner = a}
             R == {j \in DOMAIN new : new[j].owner = a}
             f == [j \in S |-> ls[j].open]
             g == [j \in R |-> new[j].open]
  <1>1. n \in Nat /\ Len(ls) \in Nat /\ DOMAIN ls = 1 .. Len(ls)
    BY FillConstants DEF OrderType
  <1>2. /\ new \in Seq(Lot) /\ Len(new) = Len(ls) + 1
        /\ new[k] = [owner |-> owner, open |-> n]
        /\ \A j \in DOMAIN ls : new[j] = ls[j]
    BY <1>1, BoughtIs
  <1>3. Booked(ls, o, owner) = new
    BY DEF Booked
  <1> HIDE DEF n, new
  <1>4. DOMAIN new = 1 .. k /\ k \in Nat
    BY <1>1, <1>2
  <1>5. R = IF a = owner THEN S \cup {k} ELSE S
    BY <1>1, <1>2, <1>4
  <1>6. /\ IsFiniteSet(S) /\ Total(f, S) \in Nat /\ Total(f, S) = SharesOf(ls, a)
        /\ IsFiniteSet(R) /\ Total(g, R) = SharesOf(new, a)
    BY <1>2, OpenInType DEF OpenIn, SharesOf
  <1>7. \A j \in S : j \in R /\ g[j] = f[j] /\ f[j] \in Nat
    BY <1>1, <1>2, <1>4, LotsAre
  <1>7a. Total(g, S) = Total(f, S)
    <2> HIDE DEF f, g, R, S
    <2> QED
      BY <1>7, TotalSame
  <1>8. CASE a # owner
    <2>1. R = S
      BY <1>5, <1>8
    <2> HIDE DEF f, g, R, S
    <2> QED
      BY <1>3, <1>6, <1>7a, <1>8, <2>1
  <1>9. CASE a = owner
    <2>1. k \in R /\ g[k] = n /\ k \notin S
      BY <1>1, <1>2, <1>4, <1>5, <1>9
    <2> HIDE DEF f, g, R, S, k
    <2>2. Total(g, {k}) = n
      BY <1>1, <2>1, TotalOfOne
    <2>3. IsFiniteSet({k}) /\ S \cap {k} = {} /\ \A j \in S \cup {k} : g[j] \in Nat
      BY <1>1, <1>7, <2>1, FS_Singleton
    <2>4. Total(g, S \cup {k}) = Total(g, S) + Total(g, {k})
      BY <1>6, <2>3, TotalSplits
    <2> QED
      BY <1>3, <1>5, <1>6, <1>7a, <1>9, <2>2, <2>4 DEF n
  <1> QED
    BY <1>8, <1>9

\* Amounts of which one is less and none is more add up to less.
LEMMA TotalLess ==
  ASSUME NEW S, IsFiniteSet(S), NEW f, NEW g, NEW d \in S,
         \A c \in S : f[c] \in Nat /\ g[c] \in Nat /\ g[c] <= f[c], g[d] < f[d]
  PROVE  Total(g, S) < Total(f, S)
  <1>1. {d} \in SUBSET S /\ S \ {d} \in SUBSET S /\ IsFiniteSet(S \ {d})
    BY FS_Subset
  <1>2. Total(g, S) = Total(g, S \ {d}) + Total(g, {d})
        /\ Total(f, S) = Total(f, S \ {d}) + Total(f, {d})
    BY <1>1, TotalWithout
  <1>3. Total(g, {d}) = g[d] /\ Total(f, {d}) = f[d]
    BY TotalOfOne
  <1>4. Total(g, S \ {d}) <= Total(f, S \ {d})
    BY <1>1, TotalGrows
  <1>5. Total(g, S \ {d}) \in Nat /\ Total(f, S \ {d}) \in Nat
    BY <1>1, TotalType
  <1> QED
    BY <1>2, <1>3, <1>4, <1>5

\* A sale an agent's lots cover takes some of its shares, and nobody else's.
LEMMA SoldShares ==
  ASSUME EnforceOwnership, NEW ls \in Seq(Lot), NEW o \in Orders,
         NEW owner \in Agents, NEW a \in Owners,
         OrderOf[o].side = "SELL", ~Short(ls, o, owner)
  PROVE  /\ a # owner => SharesOf(Booked(ls, o, owner), a) = SharesOf(ls, a)
         /\ a = owner => SharesOf(Booked(ls, o, owner), a) < SharesOf(ls, a)
  <1> DEFINE n == OrderOf[o].shares
             new == Sold(ls, owner, n)
             S == {j \in DOMAIN ls : ls[j].owner = a}
             R == {j \in DOMAIN new : new[j].owner = a}
             f == [j \in S |-> ls[j].open]
             g == [j \in R |-> new[j].open]
  <1>1. n \in Nat /\ n > 0
    BY FillConstants DEF OrderType
  <1>3. Booked(ls, o, owner) = new
    BY DEF Booked, Sold
  <1>2. /\ new \in Seq(Lot) /\ DOMAIN new = DOMAIN ls
        /\ \A j \in DOMAIN ls : /\ new[j].owner = ls[j].owner
                                /\ new[j].open = ls[j].open - Taken(ls, owner, n, j)
    BY <1>1, SoldIs
  <1> HIDE DEF new
  <1>4. Eligible(ls, owner) = {j \in DOMAIN ls : ls[j].owner = owner}
    BY FillConstants DEF Eligible
  <1>5. OpenIn(ls, Eligible(ls, owner)) >= n
    <2>1. OpenIn(ls, Eligible(ls, owner)) \in Nat
      BY <1>4, OpenInType
    <2> QED
      BY <1>1, <2>1 DEF Short
  <1>6. R = S
    BY <1>2
  <1>7. /\ IsFiniteSet(S) /\ Total(f, S) \in Nat /\ Total(f, S) = SharesOf(ls, a)
        /\ Total(g, S) = SharesOf(new, a)
    BY <1>2, <1>6, OpenInType DEF OpenIn, SharesOf
  <1>8. \A j \in S : /\ f[j] \in Nat /\ f[j] = ls[j].open
                     /\ g[j] = f[j] - Taken(ls, owner, n, j)
    BY <1>2, <1>6, LotsAre
  <1>8a. \A j \in S : /\ Taken(ls, owner, n, j) \in Nat /\ Taken(ls, owner, n, j) <= f[j]
                      /\ a # owner => Taken(ls, owner, n, j) = 0
    <2>1. \A j \in S : a # owner => j \notin Eligible(ls, owner)
      BY <1>4
    <2> QED
      BY <1>1, <1>8, <2>1, TakenIs
  <1>9. CASE a # owner
    <2> HIDE DEF f, g, S, R
    <2>1. \A j \in S : g[j] = f[j]
      BY <1>8, <1>8a, <1>9
    <2>2. Total(g, S) = Total(f, S)
      BY <2>1, TotalSame
    <2> QED
      BY <1>3, <1>7, <1>9, <2>2
  <1>10. CASE a = owner
    <2>1. S = Eligible(ls, owner) /\ Total(f, S) >= n
      BY <1>4, <1>5, <1>10 DEF OpenIn
    <2> DEFINE P == {j \in S : f[j] # 0}
    <2>2. P # {}
      <3>1. ASSUME \A j \in S : f[j] = 0 PROVE FALSE
        <4> DEFINE z == [j \in S |-> 0]
        <4>1. \A u : u \notin Units(z, S)
          BY UnitIs
        <4>2. Units(z, S) = {}
          BY <4>1
        <4>3. Total(z, S) = 0
          BY <4>2, FS_EmptySet DEF Total
        <4>4. Total(f, S) = Total(z, S)
          <5>1. \A j \in S : f[j] = z[j]
            BY <3>1
          <5> HIDE DEF f, z, S
          <5> QED
            BY <5>1, TotalSame
        <4> QED
          BY <1>1, <2>1, <4>3, <4>4
      <3> QED
        BY <3>1
    <2>3. P \in SUBSET Nat
      BY LotsAre
    <2>4. PICK d \in P : \A j \in P : d <= j
      BY <2>2, <2>3, LeastNatural
    <2> DEFINE E == {i \in Eligible(ls, owner) : i < d}
    <2>5. OpenIn(ls, E) = 0
      <3>1. E \subseteq S /\ \A j \in E : f[j] = 0
        <4>1. \A j \in E : j \in S /\ j \in Nat /\ d \in Nat /\ j < d
          BY <2>1, <2>3, LotsAre
        <4> QED
          BY <2>4, <4>1
      <3>2. \A j \in E : [i \in E |-> ls[i].open][j] = 0
        BY <1>8, <3>1
      <3> DEFINE h == [i \in E |-> ls[i].open]
      <3>3. \A u : u \notin Units(h, E)
        <4>1. \A j \in E : h[j] = 0
          BY <3>2
        <4> HIDE DEF h, E
        <4> QED
          BY <4>1, UnitIs
      <3>4. Units(h, E) = {}
        BY <3>3
      <3> QED
        BY <3>4, FS_EmptySet DEF OpenIn, Total
    <2>6. d \in S /\ d \in Eligible(ls, owner) /\ f[d] = ls[d].open /\ f[d] > 0 /\ f[d] \in Nat
      <3>1. d \in S /\ f[d] # 0 /\ f[d] \in Nat
        BY <1>8
      <3> QED
        BY <1>8, <2>1, <3>1
    <2>7. Taken(ls, owner, n, d) > 0
      <3>1. Taken(ls, owner, n, d) = IF n < ls[d].open THEN n ELSE ls[d].open
        BY <1>1, <2>5, <2>6 DEF Taken
      <3> QED
        BY <1>1, <2>6, <3>1
    <2>8. \A j \in S : g[j] \in Nat /\ g[j] <= f[j]
      <3> HIDE DEF f, g, S
      <3> QED
        BY <1>8, <1>8a
    <2>9. g[d] < f[d]
      <3> HIDE DEF f, g, S, P
      <3> QED
        BY <1>8, <1>8a, <2>6, <2>7
    <2> HIDE DEF f, g, S, P
    <2>10. Total(g, S) < Total(f, S)
      BY <1>7, <1>8, <2>6, <2>8, <2>9, TotalLess
    <2> QED
      BY <1>3, <1>7, <1>10, <2>10
  <1> QED
    BY <1>9, <1>10

-----------------------------------------------------------------------------
(***************************************************************************)
(* The lots each booker planned, and the types of the lots: what a booking *)
(* means to move is fixed before its first write, and an agent's row that  *)
(* needs no reconciliation means to move somebody's shares.                *)
(***************************************************************************)

Planned == {"trades", "newLots", "lots"}
Opening == {"fetched", "stamped", "locked", "read"} \cup Planned

MovesMeant(b) ==
    \A i \in DOMAIN booker[b].rows :
        booker[b].rows[i].prop # NoProposal /\ ~booker[b].rows[i].recon =>
            \E a \in Owners : plan[b].moves[i][a] # 0

\* The plan of a booker is typed, keeps every lot it read, and says of each
\* of its rows what the lot writes are meant to move.
PlanFits(b) ==
    /\ plan[b] \in PlanState
    /\ Len(plan[b].sheet) <= Len(plan[b].after)
    /\ booker[b].step \in Opening => booker[b].next = 1
    /\ b \in Posts => Len(booker[b].rows) <= 1
    /\ booker[b].step \in Planned =>
          /\ DOMAIN plan[b].moves = DOMAIN booker[b].rows
          /\ EnforceOwnership => MovesMeant(b)

DataTyped ==
    /\ lots \in Seq(Lot) /\ effect \in [Orders -> [Owners -> Int]]
    /\ recon \subseteq Orders /\ reconOpen \subseteq Orders
    /\ faults \in 0 .. MaxFaults /\ reports \in Nat
    /\ plan \in [Bookers -> PlanState]

LotsInv == FulfilInv /\ DataTyped /\ \A b \in Bookers : PlanFits(b)

\* A batch never drops a lot.
LEMMA WorkingGrows ==
  ASSUME lots \in Seq(Lot), NEW n \in Nat, NEW batch \in [1 .. n -> Orders],
         NEW props \in [1 .. n -> Proposals \cup {NoProposal}]
  PROVE  \A i \in 0 .. n : Len(lots) <= Len(Working(batch, props)[i])
  <1> DEFINE w == Working(batch, props)
             T == {i \in 0 .. n : ~(Len(lots) <= Len(w[i]))}
  <1>a. /\ w \in [0 .. n -> Seq(Lot)] /\ w[0] = lots
        /\ \A i \in 1 .. n : w[i] = Booked(w[i - 1], batch[i], OwnerFor(props[i]))
        /\ \A i \in 1 .. n : OwnerFor(props[i]) \in Owners
    BY WorkingIs
  <1> HIDE DEF w
  <1>0. \A i \in 0 .. n : Len(w[i]) \in Nat
    BY <1>a, LenProperties
  <1>1. ASSUME T # {} PROVE FALSE
    <2>1. T \in SUBSET Nat
      OBVIOUS
    <2>2. PICK m \in T : \A y \in T : m <= y
      BY <1>1, <2>1, LeastNatural
    <2>3. m \in 0 .. n /\ ~(Len(lots) <= Len(w[m]))
      OBVIOUS
    <2>4. m # 0
      BY <1>0, <1>a, <2>3
    <2>5. m \in 1 .. n /\ m - 1 \in 0 .. n /\ m - 1 \notin T
      BY <2>2, <2>3, <2>4
    <2>6. Len(lots) <= Len(w[m - 1])
      BY <2>5
    <2>7. Len(w[m - 1]) <= Len(w[m])
      BY <1>a, <2>5, BookedTyped
    <2>8. Len(lots) \in Nat
      BY LenProperties
    <2> QED
      BY <1>0, <2>3, <2>5, <2>6, <2>7, <2>8
  <1> QED
    BY <1>1 DEF w

\* What the rows of a batch are meant to move.
LEMMA MovesAre ==
  ASSUME lots \in Seq(Lot), NEW n \in Nat, NEW batch \in [1 .. n -> Orders],
         NEW props \in [1 .. n -> Proposals \cup {NoProposal}], NEW i \in 1 .. n
  PROVE  /\ Moves(Working(batch, props), i) \in [Owners -> Int]
         /\ EnforceOwnership /\ props[i] # NoProposal
            /\ ~Short(Working(batch, props)[i - 1], batch[i], OwnerFor(props[i])) =>
               \E a \in Owners : Moves(Working(batch, props), i)[a] # 0
  <1> DEFINE w == Working(batch, props)
             owner == OwnerFor(props[i])
  <1>1. /\ w[i] \in Seq(Lot) /\ w[i - 1] \in Seq(Lot) /\ owner \in Owners
        /\ w[i] = Booked(w[i - 1], batch[i], owner)
    <2>1. /\ w \in [0 .. n -> Seq(Lot)]
          /\ \A k \in 1 .. n : w[k] = Booked(w[k - 1], batch[k], OwnerFor(props[k]))
          /\ \A k \in 1 .. n : OwnerFor(props[k]) \in Owners
      BY WorkingIs
    <2>2. i \in 0 .. n /\ i - 1 \in 0 .. n
      OBVIOUS
    <2> HIDE DEF w
    <2> QED
      BY <2>1, <2>2
  <1> HIDE DEF w
  <1>2. Moves(w, i) = [a \in Owners |-> SharesOf(w[i], a) - SharesOf(w[i - 1], a)]
    BY DEF Moves, SharesOf
  <1>3. \A a \in Owners : SharesOf(w[i], a) \in Nat /\ SharesOf(w[i - 1], a) \in Nat
    BY <1>1, SharesType
  <1>4. Moves(w, i) \in [Owners -> Int]
    BY <1>2, <1>3
  <1>5. ASSUME EnforceOwnership, props[i] # NoProposal, ~Short(w[i - 1], batch[i], owner)
        PROVE  \E a \in Owners : Moves(w, i)[a] # 0
    <2>1. owner \in Agents /\ batch[i] \in Orders
      BY <1>5, FillConstants DEF OwnerFor
    <2>2. Moves(w, i)[owner] = SharesOf(w[i], owner) - SharesOf(w[i - 1], owner)
      BY <1>1, <1>2
    <2>3. OrderOf[batch[i]].side \in {"BUY", "SELL"} /\ OrderOf[batch[i]].shares \in Nat \ {0}
      BY <2>1, FillConstants DEF OrderType
    <2> HIDE DEF owner
    <2>4. CASE OrderOf[batch[i]].side = "BUY"
      <3>1. SharesOf(w[i], owner) = SharesOf(w[i - 1], owner) + OrderOf[batch[i]].shares
        BY <1>1, <2>1, <2>4, BoughtShares
      <3> QED
        BY <1>1, <1>3, <2>2, <2>3, <3>1
    <2>5. CASE OrderOf[batch[i]].side = "SELL"
      <3>1. SharesOf(w[i], owner) < SharesOf(w[i - 1], owner)
        BY <1>1, <1>5, <2>1, <2>5, SoldShares
      <3> QED
        BY <1>1, <1>3, <2>2, <3>1
    <2> QED
      BY <2>3, <2>4, <2>5
  <1> QED
    BY <1>4, <1>5 DEF w

-----------------------------------------------------------------------------
(* The plan, step by step                                                  *)

OthersStay(b) ==
    \A x \in Bookers : x # b => booker'[x] = booker[x] /\ plan'[x] = plan[x]

\* Booker b moves, its plan fits, and nobody else does anything.  Once made, the
\* plan and its rows stay until they are written.
Plans(b) ==
    /\ OthersStay(b) /\ PlanFits(b)' /\ plan' \in [Bookers -> PlanState]
    /\ booker[b].step \in Planned /\ booker'[b].step \in Planned =>
          plan'[b] = plan[b] /\ booker'[b].rows = booker[b].rows

LEMMA NoPlanTyped == NoPlan \in PlanState /\ Len(NoPlan.sheet) = 0 /\ Len(NoPlan.after) = 0
  BY EmptySeq DEF NoPlan, PlanState

LEMMA ExitPlans ==
  ASSUME LotsInv, NEW b \in Bookers,
         booker' = [booker EXCEPT ![b] = Idle], plan' = [plan EXCEPT ![b] = NoPlan]
  PROVE  Plans(b)
  <1>1. /\ booker'[b] = Idle /\ plan'[b] = NoPlan
        /\ plan' \in [Bookers -> PlanState]
        /\ OthersStay(b)
    BY NoPlanTyped DEF LotsInv, FulfilInv, Typed, ControlType, DataTyped, OthersStay
  <1>2. Idle.step = "idle" /\ Len(Idle.rows) = 0
    BY DEF Idle
  <1> QED
    BY <1>1, <1>2, NoPlanTyped DEF Plans, PlanFits, Opening, Planned

\* A booker that keeps its plan and rows, and comes no closer to the plan.
LEMMA SamePlan ==
  ASSUME LotsInv, NEW b \in Bookers, plan' = plan,
         \A x \in Bookers : x # b => booker'[x] = booker[x],
         b \in Posts => Len(booker'[b].rows) <= 1,
         booker'[b].step \in Opening => booker'[b].next = 1,
         booker'[b].step \in Planned =>
            booker[b].step \in Planned /\ booker'[b].rows = booker[b].rows
  PROVE  Plans(b)
  <1>1. OthersStay(b) /\ plan' \in [Bookers -> PlanState]
    BY DEF OthersStay, LotsInv, DataTyped
  <1>2. PlanFits(b)'
    BY DEF LotsInv, PlanFits, MovesMeant
  <1> QED
    BY <1>1, <1>2 DEF Plans

LEMMA AdvancePlans ==
  ASSUME LotsInv, NEW b \in Bookers, NEW s \in Steps, Advance(b, s),
         s \in Opening => booker[b].step \in Opening,
         s \in Planned => booker[b].step \in Planned
  PROVE  Plans(b)
  <1>1. plan' = plan /\ booker' = [booker EXCEPT ![b].step = s]
    BY DEF Advance
  <1>2. /\ booker'[b].step = s /\ booker'[b].rows = booker[b].rows
        /\ booker'[b].next = booker[b].next
        /\ \A x \in Bookers : x # b => booker'[x] = booker[x]
    BY <1>1, AdvanceBooker DEF LotsInv, FulfilInv, Typed, ControlType
  <1>3. PlanFits(b)
    BY DEF LotsInv
  <1> QED
    BY <1>1, <1>2, <1>3, SamePlan DEF PlanFits

LEMMA RowPlans ==
  ASSUME LotsInv, NEW b \in Bookers, NextRow(b) \/ FailRow(b)
  PROVE  Plans(b)
  <1>1. CASE NextRow(b)
    <2>1. plan' = plan /\ booker' = [booker EXCEPT ![b].step = "rows", ![b].next = @ + 1]
      BY <1>1 DEF NextRow
    <2>2. /\ booker'[b].step = "rows" /\ booker'[b].rows = booker[b].rows
          /\ \A x \in Bookers : x # b => booker'[x] = booker[x]
      BY <2>1, NextBooker DEF LotsInv, FulfilInv, Typed, ControlType, Steps
    <2>3. PlanFits(b)
      BY DEF LotsInv
    <2> QED
      BY <2>1, <2>2, <2>3, SamePlan DEF PlanFits, Opening, Planned
  <1>2. CASE Exit(b)
    BY <1>2, ExitPlans DEF Exit
  <1> QED
    BY <1>1, <1>2 DEF FailRow

LEMMA BatchPlans ==
  ASSUME LotsInv, NEW b \in Bookers, NEW n \in Nat, NEW batch \in [1 .. n -> Orders],
         NEW props \in [1 .. n -> Proposals \cup {NoProposal}],
         PlanBatch(b, batch, props), booker[b].step \in Opening \ Planned, b \in Posts => n <= 1
  PROVE  Plans(b)
  <1> DEFINE R == PlanRows(batch, props)
             w == Working(batch, props)
             M == [i \in DOMAIN batch |-> Moves(w, i)]
             Q == [sheet |-> lots, after |-> w[Len(batch)], moves |-> M]
  <1>0. /\ booker \in [Bookers -> BookerState] /\ lots \in Seq(Lot)
        /\ plan \in [Bookers -> PlanState] /\ booker[b].next = 1
    BY DEF LotsInv, FulfilInv, Typed, ControlType, DataTyped, PlanFits
  <1>1. /\ R \in Seq(Row) /\ DOMAIN R = 1 .. n
        /\ \A i \in 1 .. n : R[i].order = batch[i] /\ R[i].prop = props[i]
    BY RowsTyped
  <1>1a. \A i \in 1 .. n : R[i].recon =
            (/\ EnforceOwnership /\ props[i] # NoProposal
             /\ Short(w[i - 1], batch[i], OwnerFor(props[i])))
    BY DEF PlanRows
  <1>2. /\ w \in [0 .. n -> Seq(Lot)] /\ w[0] = lots /\ Len(batch) = n
        /\ \A i \in 1 .. n : w[i] = Booked(w[i - 1], batch[i], OwnerFor(props[i]))
        /\ \A i \in 1 .. n : OwnerFor(props[i]) \in Owners
    BY <1>0, WorkingIs
  <1>3. \A i \in 1 .. n :
           /\ Moves(w, i) \in [Owners -> Int]
           /\ EnforceOwnership /\ props[i] # NoProposal
              /\ ~Short(w[i - 1], batch[i], OwnerFor(props[i])) =>
                 \E a \in Owners : Moves(w, i)[a] # 0
    BY <1>0, MovesAre
  <1>6. Len(lots) <= Len(w[n])
    <2>1. \A i \in 0 .. n : Len(lots) <= Len(w[i])
      BY <1>0, WorkingGrows
    <2> HIDE DEF w
    <2> QED
      BY <2>1
  <1>4. /\ booker' = [booker EXCEPT ![b].step = "trades", ![b].rows = R]
        /\ plan' = [plan EXCEPT ![b] = Q]
    BY DEF PlanBatch
  <1> HIDE DEF R, w
  <1>5. M \in Seq([Owners -> Int]) /\ DOMAIN M = 1 .. n
        /\ \A i \in 1 .. n : M[i] = Moves(w, i)
    <2>1. M \in [1 .. n -> [Owners -> Int]]
      BY <1>3
    <2> QED
      BY <2>1, SeqDef
  <1>7. w[n] \in Seq(Lot)
    BY <1>2
  <1> HIDE DEF M
  <1>8. Q \in PlanState /\ Q.sheet = lots /\ Q.after = w[n] /\ Q.moves = M
    BY <1>0, <1>2, <1>5, <1>7 DEF PlanState
  <1> HIDE DEF Q
  <1>9. /\ booker'[b].step = "trades" /\ booker'[b].rows = R /\ booker'[b].next = 1
        /\ \A x \in Bookers : x # b => booker'[x] = booker[x]
    BY <1>0, <1>4 DEF BookerState
  <1>10. plan' \in [Bookers -> PlanState] /\ plan'[b] = Q /\ OthersStay(b)
    BY <1>0, <1>4, <1>8, <1>9 DEF OthersStay
  <1>11. Len(R) = n
    BY <1>1, LenProperties
  <1>12. ASSUME EnforceOwnership PROVE MovesMeant(b)'
    <2> SUFFICES ASSUME NEW i \in 1 .. n, R[i].prop # NoProposal, ~R[i].recon
                 PROVE  \E a \in Owners : M[i][a] # 0
      BY <1>1, <1>8, <1>9, <1>10 DEF MovesMeant
    <2>1. ~Short(w[i - 1], batch[i], OwnerFor(props[i])) /\ props[i] # NoProposal
      BY <1>1, <1>1a, <1>12
    <2> QED
      BY <1>3, <1>5, <1>12, <2>1
  <1>13. PlanFits(b)'
    BY <1>1, <1>5, <1>6, <1>8, <1>9, <1>10, <1>11, <1>12 DEF PlanFits
  <1> QED
    BY <1>10, <1>13 DEF Plans

LEMMA StartPlans ==
  ASSUME LotsInv, NEW b \in Bookers, NEW s \in Steps \ Planned, NEW B \in SUBSET Orders,
         booker' = [booker EXCEPT ![b] = [Idle EXCEPT !.step = s, !.batch = B]],
         plan' = plan
  PROVE  Plans(b)
  <1> DEFINE r == [Idle EXCEPT !.step = s, !.batch = B]
  <1>1. r.step = s /\ Len(r.rows) <= 1 /\ r.next = 1
    BY DEF Idle
  <1>2. booker' = [booker EXCEPT ![b] = r]
    OBVIOUS
  <1> HIDE DEF r
  <1>3. booker'[b] = r /\ \A x \in Bookers : x # b => booker'[x] = booker[x]
    BY <1>2 DEF LotsInv, FulfilInv, Typed, ControlType
  <1>4. Len(booker'[b].rows) <= 1
    BY <1>1, <1>3, Zenon
  <1>5. s \notin Planned
    OBVIOUS
  <1> QED
    BY <1>1, <1>3, <1>4, <1>5, SamePlan

LEMMA PostPlans ==
  ASSUME LotsInv, NEW b \in Posts, (\E o \in Orders : PostStart(b, o)) \/ PostStep(b)
  PROVE  Plans(b)
  <1>0. b \in Bookers /\ booker \in [Bookers -> BookerState] /\ Typed
    BY DEF Bookers, LotsInv, FulfilInv, Typed, ControlType
  <1>0a. PlanFits(b)
    BY <1>0 DEF LotsInv
  <1>1. ASSUME NEW o \in Orders, PostStart(b, o) PROVE Plans(b)
    <2>1. /\ booker' = [booker EXCEPT ![b] = [Idle EXCEPT !.step = "locked", !.batch = {o}]]
          /\ plan' = plan
      BY <1>1 DEF PostStart
    <2>2. "locked" \in Steps \ Planned /\ {o} \in SUBSET Orders
      BY DEF Steps, Planned
    <2> QED
      BY <1>0, <2>1, <2>2, StartPlans
  <1>2. CASE ReadProposal(b)
    <2>1. /\ booker' = [booker EXCEPT ![b].step = "read", ![b].seen = proposals[Target(b)]]
          /\ plan' = plan /\ booker[b].step = "locked"
      BY <1>2 DEF ReadProposal
    <2>2. /\ booker'[b].step = "read" /\ booker'[b].rows = booker[b].rows
          /\ booker'[b].next = booker[b].next
          /\ \A x \in Bookers : x # b => booker'[x] = booker[x]
      BY <1>0, <2>1 DEF BookerState
    <2> QED
      BY <1>0, <1>0a, <2>1, <2>2, SamePlan DEF PlanFits, Opening, Planned
  <1>3. CASE RecordAgain(b)
    <2>1. \A r : booker' = [booker EXCEPT ![b].step = "rows", ![b].rows = <<r>>] =>
             /\ booker'[b].step = "rows" /\ Len(booker'[b].rows) <= 1
             /\ \A x \in Bookers : x # b => booker'[x] = booker[x]
      BY <1>0 DEF BookerState
    <2>2. /\ booker'[b].step = "rows" /\ Len(booker'[b].rows) <= 1
          /\ \A x \in Bookers : x # b => booker'[x] = booker[x]
      BY <1>3, <2>1 DEF RecordAgain
    <2>3. plan' = plan
      BY <1>3 DEF RecordAgain
    <2>4. booker'[b].step \notin Opening /\ booker'[b].step \notin Planned
      BY <2>2 DEF Opening, Planned
    <2> QED
      BY <1>0, <2>2, <2>3, <2>4, SamePlan
  <1>4. CASE RecordFill(b)
    <2>1. /\ booker[b].step = "read" /\ PlanBatch(b, <<Posted(b)>>, <<Target(b)>>)
      BY <1>4 DEF RecordFill
    <2>2. Posted(b) \in Orders /\ Target(b) \in Proposals
      BY <1>0, <2>1, PostedTyped
    <2> DEFINE batch == <<Posted(b)>>
               props == <<Target(b)>>
    <2>3. PICK n \in Nat : n = 1
      OBVIOUS
    <2>4. /\ batch \in [1 .. n -> Orders]
          /\ props \in [1 .. n -> Proposals \cup {NoProposal}]
          /\ PlanBatch(b, batch, props)
      BY <2>1, <2>2, <2>3
    <2> HIDE DEF batch, props
    <2>5. booker[b].step \in Opening \ Planned /\ n <= 1
      BY <2>1, <2>3 DEF Opening, Planned
    <2> QED
      BY <1>0, <2>4, <2>5, BatchPlans
  <1>5. CASE RefuseFill(b)
    BY <1>0, <1>5, ExitPlans DEF RefuseFill, Exit
  <1> QED
    BY <1>1, <1>2, <1>3, <1>4, <1>5 DEF PostStep

LEMMA SyncPlans ==
  ASSUME LotsInv, SyncFetch \/ SyncStep
  PROVE  Plans(Sync)
  <1>0. /\ Sync \in Bookers /\ booker \in [Bookers -> BookerState] /\ Typed
        /\ Sync \notin Posts
    BY FillConstants DEF Bookers, LotsInv, FulfilInv, Typed, ControlType
  <1>0a. PlanFits(Sync)
    BY <1>0 DEF LotsInv
  <1>1. CASE SyncFetch
    <2>1. PICK got \in SUBSET (filled \ cursor) :
             booker' = [booker EXCEPT ![Sync] = [Idle EXCEPT !.step = "fetched", !.batch = got]]
      BY <1>1 DEF SyncFetch
    <2>2. "fetched" \in Steps \ Planned /\ got \in SUBSET Orders /\ plan' = plan
      BY <1>0, <1>1 DEF Steps, Planned, SyncFetch, Typed, ControlType
    <2> QED
      BY <1>0, <2>1, <2>2, StartPlans
  <1>2. CASE SyncStamp
    <2>1. /\ booker' = [booker EXCEPT ![Sync].step = "stamped", ![Sync].stamp = filled]
          /\ booker[Sync].step = "fetched" /\ plan' = plan
      BY <1>2 DEF SyncStamp
    <2>2. /\ booker'[Sync].step = "stamped" /\ booker'[Sync].next = booker[Sync].next
          /\ \A x \in Bookers : x # Sync => booker'[x] = booker[x]
      BY <1>0, <2>1 DEF BookerState
    <2> QED
      BY <1>0, <1>0a, <2>1, <2>2, SamePlan DEF PlanFits, Opening, Planned
  <1>3. CASE SyncLock
    <2>0. "cursor" \in Steps /\ "locked" \in Steps /\ booker[Sync].step = "stamped"
      BY <1>3 DEF Steps, SyncLock
    <2>1. CASE Advance(Sync, "cursor")
      BY <1>0, <2>0, <2>1, AdvancePlans DEF Opening, Planned
    <2>2. CASE plan' = plan /\ booker' = [booker EXCEPT ![Sync].step = "locked"]
      <3>1. /\ booker'[Sync].step = "locked" /\ booker'[Sync].next = booker[Sync].next
            /\ \A x \in Bookers : x # Sync => booker'[x] = booker[x]
        BY <1>0, <2>0, <2>2, AdvanceBooker
      <3> QED
        BY <1>0, <1>0a, <2>0, <2>2, <3>1, SamePlan DEF PlanFits, Opening, Planned
    <2>3. CASE Exit(Sync)
      BY <1>0, <2>3, ExitPlans DEF Exit
    <2> QED
      BY <1>3, <2>1, <2>2, <2>3 DEF SyncLock
  <1>4. CASE SyncPlan
    <2>1. CASE Advance(Sync, "release")
      BY <1>0, <2>1, AdvancePlans DEF Steps, Opening, Planned
    <2>2. ASSUME NEW batch \in Orderings(Unbooked(booker[Sync].batch)),
                 PlanBatch(Sync, batch, [i \in DOMAIN batch |-> Attributed(batch, i)])
          PROVE  Plans(Sync)
      <3> DEFINE n == Cardinality(Unbooked(booker[Sync].batch))
                 props == [i \in DOMAIN batch |-> Attributed(batch, i)]
      <3>1. n \in Nat /\ batch \in [1 .. n -> Orders]
        BY <1>0, FreshBatch
      <3>2. props \in [1 .. n -> Proposals \cup {NoProposal}]
        BY <3>1, AttributedTyped
      <3>3. PlanBatch(Sync, batch, props) /\ booker[Sync].step \in Opening \ Planned
        BY <1>4, <2>2 DEF SyncPlan, Opening, Planned
      <3> HIDE DEF n, props
      <3> QED
        BY <1>0, <3>1, <3>2, <3>3, BatchPlans
    <2> QED
      BY <1>4, <2>1, <2>2 DEF SyncPlan
  <1>5. CASE SyncCursor
    BY <1>0, <1>5, ExitPlans DEF SyncCursor
  <1> QED
    BY <1>1, <1>2, <1>3, <1>4, <1>5 DEF SyncStep

LEMMA WritePlans ==
  ASSUME LotsInv, NEW b \in Bookers, WriteStep(b) \/ Crash(b)
  PROVE  Plans(b)
  <1>0. booker \in [Bookers -> BookerState]
    BY DEF LotsInv, FulfilInv, Typed, ControlType
  <1>0a. PlanFits(b)
    BY DEF LotsInv
  <1>1. CASE AppendTrades(b) \/ AppendLots(b) \/ UpdateLots(b)
    <2>1. \/ Exit(b)
          \/ booker[b].step \in Planned /\ \E s \in {"newLots", "lots", "rows"} : Advance(b, s)
      BY <1>1 DEF AppendTrades, AppendLots, UpdateLots, Continue, Planned
    <2>2. {"newLots", "lots", "rows"} \subseteq Steps /\ Planned \subseteq Opening
      BY DEF Steps, Opening
    <2> QED
      BY <2>1, <2>2, ExitPlans, AdvancePlans DEF Exit
  <1>2. CASE EndRows(b)
    BY <1>2, AdvancePlans DEF EndRows, Steps, Opening, Planned
  <1>3. CASE QueueRecon(b)
    <2>1. Advance(b, "openSet") \/ FailRow(b)
      BY <1>3 DEF QueueRecon
    <2> QED
      BY <2>1, AdvancePlans, RowPlans DEF Steps, Opening, Planned
  <1>4. CASE OpenRecon(b) \/ SkipRow(b) \/ WriteFulfilled(b)
    BY <1>4, RowPlans DEF OpenRecon, SkipRow, WriteFulfilled
  <1>5. CASE ReadToFulfil(b)
    <2>1. CASE FailRow(b)
      BY <2>1, RowPlans
    <2>2. CASE ~FailRow(b)
      <3>1. /\ booker' = [booker EXCEPT ![b].step = "fulfil", ![b].seen = proposals[ThisRow(b).prop]]
            /\ plan' = plan
        BY <1>5, <2>2 DEF ReadToFulfil
      <3>2. /\ booker'[b].step = "fulfil" /\ booker'[b].rows = booker[b].rows
            /\ \A x \in Bookers : x # b => booker'[x] = booker[x]
        BY <1>0, <3>1 DEF BookerState
      <3> QED
        BY <1>0a, <3>1, <3>2, SamePlan DEF PlanFits, Opening, Planned
    <2> QED
      BY <2>1, <2>2
  <1>6. CASE Release(b)
    <2>1. CASE b = Sync
      <3>1. booker' = [booker EXCEPT ![b].step = "cursor"] /\ plan' = plan
        BY <1>6, <2>1 DEF Release
      <3>2. /\ booker'[b].step = "cursor" /\ booker'[b].rows = booker[b].rows
            /\ \A x \in Bookers : x # b => booker'[x] = booker[x]
        BY <1>0, <3>1 DEF BookerState
      <3> QED
        BY <1>0a, <3>1, <3>2, SamePlan DEF PlanFits, Opening, Planned
    <2> QED
      BY <1>6, <2>1, ExitPlans DEF Release, Exit
  <1>7. CASE Crash(b)
    BY <1>7, ExitPlans DEF Crash
  <1> QED
    BY <1>1, <1>2, <1>3, <1>4, <1>5, <1>6, <1>7 DEF WriteStep

LEMMA SomePlans ==
  ASSUME LotsInv, [Next]_vars
  PROVE  UNCHANGED <<booker, plan>> \/ \E b \in Bookers : Plans(b)
  <1>1. CASE \E b \in Posts : (\E o \in Orders : PostStart(b, o)) \/ PostStep(b)
    BY <1>1, PostPlans DEF Bookers
  <1>2. CASE SyncFetch \/ SyncStep
    BY <1>2, SyncPlans DEF Bookers
  <1>3. CASE \E b \in Bookers : WriteStep(b) \/ Crash(b)
    BY <1>3, WritePlans
  <1>4. CASE \/ LockExpires \/ UNCHANGED vars
             \/ \E c \in Clients : (\E p \in Proposals : ClientRead(c, p))
                                   \/ ExpireStale(c) \/ ReportState(c)
             \/ \E p \in Proposals : Decide(p) \/ Ages(p)
             \/ \E o \in Orders : BrokerFills(o)
    BY <1>4 DEF LockExpires, ClientRead, ExpireStale, ReportState, Decide, Ages,
                BrokerFills, vars
  <1> QED
    BY <1>1, <1>2, <1>3, <1>4 DEF Next

\* Every plan fits after every step.
LEMMA PlansFit ==
  ASSUME LotsInv, [Next]_vars
  PROVE  plan' \in [Bookers -> PlanState] /\ \A x \in Bookers : PlanFits(x)'
  <1>1. \A x \in Bookers : booker'[x] = booker[x] /\ plan'[x] = plan[x] => PlanFits(x)'
    BY DEF LotsInv, PlanFits, MovesMeant
  <1>2. CASE UNCHANGED <<booker, plan>>
    BY <1>1, <1>2 DEF LotsInv, DataTyped
  <1>3. ASSUME NEW b \in Bookers, Plans(b)
        PROVE  plan' \in [Bookers -> PlanState] /\ \A x \in Bookers : PlanFits(x)'
    BY <1>1, <1>3 DEF Plans, OthersStay
  <1> QED
    BY <1>2, <1>3, SomePlans

-----------------------------------------------------------------------------
(* The writes to the lots and to the reconciliation queue                  *)

LEMMA RowsAre ==
  ASSUME Typed, NEW b \in Bookers
  PROVE  /\ booker[b].rows \in Seq(Row) /\ DOMAIN booker[b].rows = 1 .. Len(booker[b].rows)
         /\ Len(booker[b].rows) \in Nat /\ booker[b].next \in Nat \ {0}
         /\ \A i \in DOMAIN booker[b].rows :
               /\ booker[b].rows[i] \in Row
               /\ booker[b].rows[i].order \in Orders /\ booker[b].rows[i].owner \in Owners
               /\ booker[b].rows[i].prop \in Proposals \cup {NoProposal}
  <1>1. booker[b].rows \in Seq(Row) /\ booker[b].next \in Nat \ {0}
    BY DEF Typed, ControlType, BookerState
  <1>2. /\ DOMAIN booker[b].rows = 1 .. Len(booker[b].rows)
        /\ Len(booker[b].rows) \in Nat
    BY <1>1, LenProperties
  <1>3. \A i \in DOMAIN booker[b].rows : booker[b].rows[i] \in Row
    BY <1>1, <1>2, ElementOfSeq
  <1> QED
    BY <1>1, <1>2, <1>3 DEF Row

\* The row a booker is at is one of its rows.
LEMMA AtRowIs ==
  ASSUME Typed, NEW b \in Bookers, NEW s, AtRow(b, s)
  PROVE  /\ booker[b].next \in DOMAIN booker[b].rows
         /\ ThisRow(b) = booker[b].rows[booker[b].next] /\ ThisRow(b).order \in Orders
  <1>1. booker[b].next <= Len(booker[b].rows)
    BY DEF AtRow
  <1>2. booker[b].next \in DOMAIN booker[b].rows
    BY <1>1, RowsAre
  <1> QED
    BY <1>2, RowsAre DEF ThisRow

OpenedLot(b, i) ==
    [owner |-> booker[b].rows[i].owner, open |-> OrderOf[booker[b].rows[i].order].shares]

\* The lots a batch opens, row by row.
LEMMA OpenedIs ==
  ASSUME Typed, NEW b \in Bookers
  PROVE  \E g \in [0 .. Len(booker[b].rows) -> Seq(Lot)] :
            /\ g[0] = <<>> /\ Bought(b) = g[Len(booker[b].rows)]
            /\ \A i \in 1 .. Len(booker[b].rows) :
                  g[i] = IF OrderOf[booker[b].rows[i].order].side = "BUY"
                         THEN Append(g[i - 1], OpenedLot(b, i)) ELSE g[i - 1]
  <1> DEFINE rows == booker[b].rows
             n == Len(rows)
             New(i) == [owner |-> rows[i].owner, open |-> OrderOf[rows[i].order].shares]
             After(i, s) == IF OrderOf[rows[i].order].side = "BUY" THEN Append(s, New(i)) ELSE s
             step == [i \in 1 .. n |-> [s \in Seq(Lot) |-> After(i, s)]]
             Is(f) == f = [i \in 0 .. n |-> IF i = 0 THEN <<>> ELSE After(i, f[i - 1])]
  <1>1. /\ n \in Nat
        /\ \A i \in 1 .. n : rows[i].order \in Orders /\ rows[i].owner \in Owners
    BY RowsAre
  <1> HIDE DEF rows, n
  <1>2. \A i \in 1 .. n : New(i) \in Lot
    <2>1. \A i \in 1 .. n : OrderOf[rows[i].order].shares \in Nat
      BY <1>1, FillConstants DEF OrderType
    <2> QED
      BY <1>1, <2>1 DEF Lot
  <1> HIDE DEF New
  <1>3. \A i \in 1 .. n : \A s \in Seq(Lot) : After(i, s) \in Seq(Lot)
    BY <1>2, AppendProperties
  <1> HIDE DEF After
  <1>4. step \in [1 .. n -> [Seq(Lot) -> Seq(Lot)]]
    BY <1>3
  <1>5. \A i \in 1 .. n : \A s \in Seq(Lot) : step[i][s] = After(i, s)
    OBVIOUS
  <1> HIDE DEF step
  <1>6. <<>> \in Seq(Lot)
    BY EmptySeq
  <1>7. Iterates(n, Seq(Lot), <<>>, step)
    BY <1>1, <1>4, <1>6, Iterated
  <1>8. PICK f \in [0 .. n -> Seq(Lot)] : f[0] = <<>> /\ \A i \in 1 .. n : f[i] = step[i][f[i - 1]]
    BY <1>7 DEF Iterates
  <1>9. \A i \in 1 .. n : i - 1 \in 0 .. n /\ f[i - 1] \in Seq(Lot)
    BY <1>1, <1>8
  <1>10. \A i \in 1 .. n : f[i] = After(i, f[i - 1])
    BY <1>5, <1>8, <1>9
  <1>11. Is(f)
    BY <1>8, <1>10
  <1> DEFINE g == CHOOSE h : Is(h)
  <1>12. Is(g)
    <2> HIDE DEF Is
    <2> QED
      BY <1>11
  <1>13. Bought(b) = g[n]
    BY DEF Bought, Is, After, New, rows, n
  <1> HIDE DEF g
  <1>14. g[0] = <<>> /\ \A i \in 1 .. n : g[i] = After(i, g[i - 1])
    BY <1>1, <1>12
  <1>15. g = [i \in 0 .. n |-> g[i]]
    BY <1>12
  <1> HIDE DEF Is
  <1> DEFINE T == {i \in 0 .. n : g[i] \in Seq(Lot)}
  <1>16. \A k \in 0 .. n : k \in T
    <2>1. 0 \in T
      <3>1. 0 \in 0 .. n /\ g[0] \in Seq(Lot)
        BY <1>1, <1>6, <1>14
      <3> QED
        BY <3>1
    <2>2. ASSUME NEW k \in 0 .. n - 1, k \in T PROVE k + 1 \in T
      <3>1. k + 1 \in 1 .. n /\ k + 1 \in 0 .. n /\ (k + 1) - 1 = k
        BY <1>1
      <3>2. g[k + 1] = After(k + 1, g[k])
        BY <1>14, <3>1
      <3>3. g[k] \in Seq(Lot)
        BY <2>2
      <3> QED
        BY <1>3, <3>1, <3>2, <3>3
    <2> HIDE DEF T
    <2> QED
      BY <1>1, <2>1, <2>2, Stepwise
  <1>17. g \in [0 .. n -> Seq(Lot)]
    BY <1>15, <1>16
  <1>18. \A i \in 1 .. n : g[i] = IF OrderOf[rows[i].order].side = "BUY"
                                  THEN Append(g[i - 1], OpenedLot(b, i)) ELSE g[i - 1]
    BY <1>14 DEF After, New, OpenedLot, rows
  <1> QED
    BY <1>13, <1>14, <1>17, <1>18 DEF n, rows

LEMMA BoughtTyped ==
  ASSUME Typed, NEW b \in Bookers
  PROVE  Bought(b) \in Seq(Lot)
  <1>1. Len(booker[b].rows) \in Nat
    BY RowsAre
  <1>2. PICK g \in [0 .. Len(booker[b].rows) -> Seq(Lot)] : Bought(b) = g[Len(booker[b].rows)]
    BY OpenedIs
  <1> QED
    BY <1>1, <1>2

Given(b, i, x) == [a \in Owners |-> effect[x][a] + plan[b].moves[i][a]]

\* Where an order's effect changes, it grows by what its row was meant to move.
LEMMA EffectedIs ==
  ASSUME Typed, RowsDistinct, NEW b \in Bookers, NEW side, NEW x \in Orders
  PROVE  /\ \A i \in DOMAIN booker[b].rows :
               booker[b].rows[i].order = x /\ OrderOf[x].side = side =>
                  Effected(b, side)[x] = Given(b, i, x)
         /\ \/ Effected(b, side)[x] = effect[x]
            \/ OrderOf[x].side = side /\ \E i \in DOMAIN booker[b].rows : booker[b].rows[i].order = x
  <1> DEFINE Mine(i) == i \in DOMAIN booker[b].rows /\ booker[b].rows[i].order = x
             k == CHOOSE i \in DOMAIN booker[b].rows : booker[b].rows[i].order = x
  <1>1. \A i, j : Mine(i) /\ Mine(j) => i = j
    BY DEF RowsDistinct
  <1>2. ASSUME NEW i, Mine(i) PROVE k = i /\ RowsOf(b, x) # <<>>
    <2>1. Mine(k)
      BY <1>2
    <2>2. k = i
      BY <1>1, <1>2, <2>1
    <2>3. RowsOf(b, x) = <<booker[b].rows[k]>>
      BY <1>2 DEF RowsOf
    <2>4. <<booker[b].rows[k]>> # <<>>
      OBVIOUS
    <2> QED
      BY <2>2, <2>3, <2>4
  <1>3. Effected(b, side)[x] = IF RowsOf(b, x) # <<>> /\ OrderOf[x].side = side
                               THEN Given(b, k, x)
                               ELSE effect[x]
    BY DEF Effected, Given
  <1>4. RowsOf(b, x) # <<>> => \E i \in DOMAIN booker[b].rows : booker[b].rows[i].order = x
    BY DEF RowsOf
  <1> HIDE DEF k
  <1> QED
    BY <1>2, <1>3, <1>4

LEMMA EffectedTyped ==
  ASSUME LotsInv, NEW b \in Bookers, NEW side, booker[b].step \in Planned
  PROVE  Effected(b, side) \in [Orders -> [Owners -> Int]]
  <1>1. /\ Typed /\ RowsDistinct /\ effect \in [Orders -> [Owners -> Int]]
        /\ plan[b].moves \in Seq([Owners -> Int])
        /\ DOMAIN plan[b].moves = DOMAIN booker[b].rows
    BY DEF LotsInv, FulfilInv, DataTyped, PlanFits, PlanState
  <1>2. \A i \in DOMAIN booker[b].rows : plan[b].moves[i] \in [Owners -> Int]
    <2>1. DOMAIN plan[b].moves = 1 .. Len(plan[b].moves)
      BY <1>1, LenProperties
    <2> QED
      BY <1>1, <2>1, ElementOfSeq
  <1>3. ASSUME NEW x \in Orders PROVE Effected(b, side)[x] \in [Owners -> Int]
    <2>1. CASE Effected(b, side)[x] = effect[x]
      BY <1>1, <2>1
    <2>2. CASE Effected(b, side)[x] # effect[x]
      <3>1. /\ OrderOf[x].side = side
            /\ \E i \in DOMAIN booker[b].rows : booker[b].rows[i].order = x
        BY <1>1, <2>2, EffectedIs
      <3>2. PICK i \in DOMAIN booker[b].rows : booker[b].rows[i].order = x
        BY <3>1
      <3>3. Effected(b, side)[x] = Given(b, i, x)
        BY <1>1, <3>1, <3>2, EffectedIs
      <3> QED
        BY <1>1, <1>2, <3>3 DEF Given
    <2> QED
      BY <2>1, <2>2
  <1>4. Effected(b, side) = [x \in Orders |-> Effected(b, side)[x]]
    BY DEF Effected
  <1> QED
    BY <1>3, <1>4

\* Only the two lot writes change the lots.
LEMMA LotsMove ==
  ASSUME LotsInv, [Next]_vars
  PROVE  /\ lots' \in Seq(Lot) /\ effect' \in [Orders -> [Owners -> Int]]
         /\ UNCHANGED <<lots, effect>> \/ \E b \in Bookers : AppendLots(b) \/ UpdateLots(b)
  <1>0. /\ lots \in Seq(Lot) /\ effect \in [Orders -> [Owners -> Int]] /\ Typed
    BY DEF LotsInv, DataTyped, FulfilInv
  <1>1. CASE UNCHANGED <<lots, effect>>
    BY <1>0, <1>1
  <1>2. ASSUME NEW b \in Bookers, AppendLots(b)
        PROVE  lots' \in Seq(Lot) /\ effect' \in [Orders -> [Owners -> Int]]
    <2>1. booker[b].step \in Planned
      BY <1>2 DEF AppendLots, Planned
    <2>2. UNCHANGED <<lots, effect>> \/ (lots' = lots \o Bought(b) /\ effect' = Effected(b, "BUY"))
      BY <1>2 DEF AppendLots
    <2>3. lots \o Bought(b) \in Seq(Lot)
      BY <1>0, BoughtTyped, ConcatProperties
    <2> QED
      BY <1>0, <2>1, <2>2, <2>3, EffectedTyped
  <1>3. ASSUME NEW b \in Bookers, UpdateLots(b)
        PROVE  lots' \in Seq(Lot) /\ effect' \in [Orders -> [Owners -> Int]]
    <2>1. booker[b].step \in Planned
      BY <1>3 DEF UpdateLots, Planned
    <2> DEFINE new == [j \in DOMAIN lots |->
                         IF j \in Updated(b) THEN plan[b].after[j] ELSE lots[j]]
    <2>2. UNCHANGED <<lots, effect>> \/ (lots' = new /\ effect' = Effected(b, "SELL"))
      BY <1>3 DEF UpdateLots
    <2>3. \A j \in Updated(b) : plan[b].after[j] \in Lot
      <3>1. /\ plan[b].sheet \in Seq(Lot) /\ plan[b].after \in Seq(Lot)
            /\ Len(plan[b].sheet) <= Len(plan[b].after)
        BY DEF LotsInv, PlanFits, PlanState
      <3>2. DOMAIN plan[b].sheet \subseteq DOMAIN plan[b].after
        BY <3>1, LenProperties
      <3> QED
        BY <3>1, <3>2, LotsAre DEF Updated
    <2>4. new \in [1 .. Len(lots) -> Lot] /\ Len(lots) \in Nat
      BY <1>0, <2>3, LotsAre
    <2>5. new \in Seq(Lot)
      BY <2>4, SeqDef
    <2> QED
      BY <1>0, <2>1, <2>2, <2>5, EffectedTyped
  <1>4. UNCHANGED <<lots, effect>> \/ \E b \in Bookers : AppendLots(b) \/ UpdateLots(b)
    <2>1. CASE \E b \in Posts : (\E o \in Orders : PostStart(b, o)) \/ PostStep(b)
      BY <2>1 DEF PostStep, PostStart, ReadProposal, RecordAgain, RecordFill, RefuseFill, store
    <2>2. CASE SyncFetch \/ SyncStep
      BY <2>2 DEF SyncStep, SyncFetch, SyncStamp, SyncLock, SyncPlan, SyncCursor, store
    <2>3. CASE \E b \in Bookers : WriteStep(b) \/ Crash(b)
      BY <2>3 DEF WriteStep, AppendTrades, EndRows, QueueRecon,
                  OpenRecon, SkipRow, ReadToFulfil, WriteFulfilled, Release, Crash, store
    <2>4. CASE \/ LockExpires \/ UNCHANGED vars
               \/ \E c \in Clients : (\E p \in Proposals : ClientRead(c, p))
                                     \/ ExpireStale(c) \/ ReportState(c)
               \/ \E p \in Proposals : Decide(p) \/ Ages(p)
               \/ \E o \in Orders : BrokerFills(o)
      BY <2>4 DEF LockExpires, ClientRead, ExpireStale, ReportState, Decide, Ages,
                  BrokerFills, vars, store
    <2> QED
      BY <2>1, <2>2, <2>3, <2>4 DEF Next
  <1> QED
    BY <1>1, <1>2, <1>3, <1>4

\* The reconciliation queue only grows, and the faults are only counted up.
LEMMA QueuesGrow ==
  ASSUME LotsInv, [Next]_vars
  PROVE  /\ recon \subseteq recon' /\ recon' \subseteq Orders
         /\ reconOpen \subseteq reconOpen' /\ reconOpen' \subseteq Orders
         /\ faults' = faults \/ (faults < MaxFaults /\ faults' = faults + 1)
         /\ reports' = reports \/ reports' = reports + 1
  <1>0. Typed /\ recon \subseteq Orders /\ reconOpen \subseteq Orders
    BY DEF LotsInv, FulfilInv, DataTyped
  <1>1. CASE \E b \in Posts : (\E o \in Orders : PostStart(b, o)) \/ PostStep(b)
    BY <1>0, <1>1 DEF PostStep, PostStart, ReadProposal, RecordAgain, RecordFill, RefuseFill,
                      store, bounds
  <1>2. CASE SyncFetch \/ SyncStep
    BY <1>0, <1>2 DEF SyncStep, SyncFetch, SyncStamp, SyncLock, SyncPlan, SyncCursor, store,
                      bounds, CountFault
  <1>3. ASSUME NEW b \in Bookers, WriteStep(b) \/ Crash(b)
        PROVE  /\ recon \subseteq recon' /\ recon' \subseteq Orders
               /\ reconOpen \subseteq reconOpen' /\ reconOpen' \subseteq Orders
               /\ faults' = faults \/ (faults < MaxFaults /\ faults' = faults + 1)
               /\ reports' = reports
    <2>1. CASE QueueRecon(b)
      <3>1. ThisRow(b).order \in Orders
        BY <1>0, <2>1, AtRowIs DEF QueueRecon
      <3> QED
        BY <1>0, <2>1, <3>1 DEF QueueRecon, CountFault
    <2>2. CASE OpenRecon(b)
      <3>1. ThisRow(b).order \in Orders
        BY <1>0, <2>2, AtRowIs DEF OpenRecon
      <3> QED
        BY <1>0, <2>2, <3>1 DEF OpenRecon, CountFault
    <2>3. CASE AppendTrades(b) \/ AppendLots(b) \/ UpdateLots(b) \/ WriteFulfilled(b)
      BY <1>0, <2>3 DEF AppendTrades, AppendLots, UpdateLots, WriteFulfilled, CountFault
    <2>4. CASE EndRows(b) \/ SkipRow(b) \/ ReadToFulfil(b) \/ Release(b) \/ Crash(b)
      BY <1>0, <2>4 DEF EndRows, SkipRow, ReadToFulfil, Release, Crash, store, bounds
    <2> QED
      BY <1>3, <2>1, <2>2, <2>3, <2>4 DEF WriteStep
  <1>4. CASE \/ LockExpires \/ UNCHANGED vars
             \/ \E c \in Clients : (\E p \in Proposals : ClientRead(c, p))
                                   \/ ExpireStale(c) \/ ReportState(c)
             \/ \E p \in Proposals : Decide(p) \/ Ages(p)
             \/ \E o \in Orders : BrokerFills(o)
    BY <1>0, <1>4 DEF LockExpires, ClientRead, ExpireStale, ReportState, Decide, Ages,
                      BrokerFills, vars, store, bounds
  <1> QED
    BY <1>1, <1>2, <1>3, <1>4 DEF Next

LEMMA LotsInit == Init => LotsInv
  <1> SUFFICES ASSUME Init PROVE LotsInv
    OBVIOUS
  <1>1. \A b \in Bookers : booker[b] = Idle /\ plan[b] = NoPlan
    BY DEF Init
  <1>2. \A b \in Bookers : PlanFits(b)
    <2>1. Idle.step = "idle" /\ Len(Idle.rows) <= 1
      BY DEF Idle
    <2> QED
      BY <1>1, <2>1, NoPlanTyped DEF PlanFits, Opening, Planned
  <1>3. DataTyped
    <2>1. plan \in [Bookers -> PlanState]
      BY NoPlanTyped DEF Init
    <2>2. lots \in Seq(Lot) /\ MaxFaults \in Nat
      BY FillConstants DEF Init
    <2>3. effect \in [Orders -> [Owners -> Int]]
      BY DEF Init
    <2> QED
      BY <2>1, <2>2, <2>3 DEF Init, DataTyped
  <1> QED
    BY <1>2, <1>3, FulfilInit DEF LotsInv

LEMMA LotsStep == LotsInv /\ [Next]_vars => LotsInv'
  <1> SUFFICES ASSUME LotsInv, [Next]_vars PROVE LotsInv'
    OBVIOUS
  <1>1. FulfilInv'
    BY FulfilStep DEF LotsInv
  <1>2. faults' \in 0 .. MaxFaults /\ reports' \in Nat
    <2>1. faults \in 0 .. MaxFaults /\ reports \in Nat /\ MaxFaults \in Nat
      BY FillConstants DEF LotsInv, DataTyped
    <2> QED
      BY <2>1, QueuesGrow
  <1>3. DataTyped'
    BY <1>2, LotsMove, QueuesGrow, PlansFit DEF DataTyped
  <1> QED
    BY <1>1, <1>3, PlansFit DEF LotsInv

\* Every variable keeps its type, the tax lots among them: no sale, whichever
\* lots it consumes and whatever is written over what, leaves a lot with fewer
\* than no shares (applyFillToLots), and no update writes past the lots it read.
THEOREM FillTypeCorrect == Spec => []TypeOK
  <1>1. LotsInv => TypeOK
    BY DEF LotsInv, FulfilInv, Typed, ControlType, DataTyped, TypeOK
  <1> QED
    BY <1>1, LotsInit, LotsStep, PTL DEF Spec

-----------------------------------------------------------------------------
(***************************************************************************)
(* A sale that moved no lots is queued: while nothing fails, every order   *)
(* booked for a proposal has moved somebody's shares, or is in the open    *)
(* reconciliation set, or its booker has yet to come to it.                *)
(***************************************************************************)

Untouched(o) == \A a \in Owners : effect[o][a] = 0
Done(o)      == ~Untouched(o) \/ o \in recon \cap reconOpen
Owed(o)      == trades[o] # <<>> /\ trades[o][1].prop # NoProposal

\* Booker b has still to move the lots of its row i, or to queue it.
Waits(b, i) ==
    IF booker[b].rows[i].recon
    THEN \/ booker[b].step \in {"newLots", "lots"}
         \/ /\ booker[b].step \in {"rows", "openSet", "fulfil"}
            /\ booker[b].next <= i
            /\ booker[b].next = i =>
                  /\ booker[b].step # "fulfil"
                  /\ booker[b].step = "openSet" => booker[b].rows[i].order \in recon
    ELSE /\ \E a \in Owners : plan[b].moves[i][a] # 0
         /\ \/ booker[b].step = "newLots"
            \/ booker[b].step = "lots" /\ OrderOf[booker[b].rows[i].order].side = "SELL"

Pending(b, o) ==
    \E i \in DOMAIN booker[b].rows : booker[b].rows[i].order = o /\ Waits(b, i)

OwedIsPending ==
    faults = 0 => \A o \in Orders : Owed(o) => Done(o) \/ \E b \in Bookers : Pending(b, o)

\* Booker b may yet write the lots of order o.
MayMove(b, o) ==
    /\ \E i \in DOMAIN booker[b].rows : booker[b].rows[i].order = o
    /\ booker[b].step = "newLots" \/ (booker[b].step = "lots" /\ OrderOf[o].side = "SELL")

\* Nothing has moved for an order with no row, or whose lots are yet to be
\* written.
EffectsFresh ==
    \A o \in Orders :
        trades[o] = <<>> \/ (\E b \in Bookers : MayMove(b, o)) => Untouched(o)

QueueInv == LockInv /\ LotsInv /\ EffectsFresh /\ OwedIsPending

LEMMA WritersAre ==
  ASSUME NEW b \in Bookers, AppendLots(b) \/ UpdateLots(b)
  PROVE  /\ booker[b].step \in {"newLots", "lots"} /\ InBooking(b)
         /\ trades' = trades
  BY DEF AppendLots, UpdateLots, InBooking, Continue

\* A lot write changes the effect of orders it has a row for, and only those
\* whose lots were yet to be written.
LEMMA WritesMove ==
  ASSUME QueueInv, NEW b \in Bookers, AppendLots(b) \/ UpdateLots(b), NEW o \in Orders,
         effect'[o] # effect[o]
  PROVE  trades[o] # <<>> /\ Untouched(o)
  <1>0. /\ Typed /\ RowsDistinct /\ RowsBooked /\ EffectsFresh
    BY DEF QueueInv, LotsInv, FulfilInv
  <1>1. PICK side : /\ effect' = effect \/ effect' = Effected(b, side)
                    /\ booker[b].step = "newLots" \/ (booker[b].step = "lots" /\ side = "SELL")
    BY DEF AppendLots, UpdateLots
  <1>2. Effected(b, side)[o] # effect[o]
    BY <1>1
  <1>3. /\ OrderOf[o].side = side
        /\ \E i \in DOMAIN booker[b].rows : booker[b].rows[i].order = o
    BY <1>0, <1>2, EffectedIs
  <1>4. PICK i \in DOMAIN booker[b].rows : booker[b].rows[i].order = o
    BY <1>3
  <1>5. BookedFor(o, booker[b].rows[i].prop)
    BY <1>0, <1>1, <1>4 DEF RowsBooked, PastLedger
  <1>6. trades[o] # <<>>
    BY <1>5 DEF BookedFor
  <1>7. MayMove(b, o)
    BY <1>1, <1>3 DEF MayMove
  <1> QED
    BY <1>0, <1>6, <1>7 DEF EffectsFresh

\* What is done stays done.
LEMMA DoneStays ==
  ASSUME QueueInv, [Next]_vars, NEW o \in Orders, Done(o)
  PROVE  Done(o)'
  <1>1. LotsInv
    BY DEF QueueInv
  <1>2. recon \subseteq recon' /\ reconOpen \subseteq reconOpen'
    BY <1>1, QueuesGrow
  <1>3. effect' = effect \/ \E b \in Bookers : AppendLots(b) \/ UpdateLots(b)
    BY <1>1, LotsMove
  <1>4. Untouched(o) \/ effect'[o] = effect[o]
    BY <1>3, WritesMove
  <1> QED
    BY <1>2, <1>4 DEF Done, Untouched

\* A row stays in the ledger where it is.
LEMMA LedgerKeeps ==
  ASSUME FulfilInv, [Next]_vars, NEW o \in Orders
  PROVE  \A i \in DOMAIN trades[o] : i \in DOMAIN trades'[o] /\ trades'[o][i] = trades[o][i]
  <1>1. CASE trades' = trades
    BY <1>1
  <1>2. ASSUME NEW b \in Bookers, AppendTrades(b)
        PROVE  \A i \in DOMAIN trades[o] : i \in DOMAIN trades'[o] /\ trades'[o][i] = trades[o][i]
    <2>1. trades' = trades \/ trades'[o] = trades[o] \o RowsOf(b, o)
      BY <1>2 DEF AppendTrades
    <2> QED
      BY <2>1, AppendedRow
  <1> QED
    BY <1>1, <1>2, OnlyAppends

LEMMA FirstRow ==
  ASSUME Typed, NEW o \in Orders
  PROVE  trades[o] # <<>> <=> 1 \in DOMAIN trades[o]
  <1>1. trades[o] \in Seq(Row)
    BY DEF Typed, ControlType
  <1> QED
    BY <1>1, LenProperties, EmptySeq

LEMMA EffectsStep ==
  ASSUME ~LockMayExpire, QueueInv, [Next]_vars
  PROVE  EffectsFresh'
  <1>0. /\ LotsInv /\ LockInv /\ FulfilInv /\ Mutex /\ Typed /\ FreshRows /\ EffectsFresh
        /\ booker \in [Bookers -> BookerState]
    BY DEF QueueInv, LockInv, LotsInv, FulfilInv, Typed, ControlType
  <1>1. effect' = effect \/ \E b \in Bookers : AppendLots(b) \/ UpdateLots(b)
    BY <1>0, LotsMove
  <1>2. ASSUME NEW o \in Orders, trades'[o] = <<>> PROVE Untouched(o)'
    <2>1. trades[o] = <<>>
      <3>1. Typed'
        BY <1>0, FulfilStep DEF FulfilInv
      <3>2. ~(1 \in DOMAIN trades'[o])
        BY <1>2
      <3> QED
        BY <1>0, <3>2, FirstRow, LedgerKeeps
    <2>2. effect'[o] = effect[o]
      BY <1>1, <2>1, WritesMove
    <2> QED
      BY <1>0, <2>1, <2>2 DEF EffectsFresh, Untouched
  <1>3. ASSUME NEW o \in Orders, NEW x \in Bookers, MayMove(x, o)' PROVE Untouched(o)'
    <2>0. booker'[x].step \in {"newLots", "lots"}
      BY <1>3 DEF MayMove
    <2>1. CASE booker'[x] = booker[x]
      <3>1. MayMove(x, o) /\ InBooking(x)
        BY <1>3, <2>1 DEF MayMove, InBooking
      <3>2. ASSUME NEW b \in Bookers, AppendLots(b) \/ UpdateLots(b) PROVE FALSE
        <4>1. x = b
          BY <1>0, <3>1, <3>2, Alone, WritersAre
        <4>2. CASE AppendLots(b)
          <5>1. booker[b].step = "newLots" /\ (Exit(b) \/ Advance(b, "lots"))
            BY <4>2 DEF AppendLots, Continue
          <5>2. booker'[b].step \in {"idle", "lots"}
            BY <1>0, <5>1, IdleTyped, ExitBooker, AdvanceBooker DEF Exit, Advance, Steps
          <5> QED
            BY <2>1, <4>1, <5>1, <5>2
        <4>3. CASE UpdateLots(b)
          <5>1. booker[b].step = "lots" /\ (Exit(b) \/ Advance(b, "rows"))
            BY <4>3 DEF UpdateLots, Continue
          <5>2. booker'[b].step \in {"idle", "rows"}
            BY <1>0, <5>1, IdleTyped, ExitBooker, AdvanceBooker DEF Exit, Advance, Steps
          <5> QED
            BY <2>1, <4>1, <5>1, <5>2
        <4> QED
          BY <3>2, <4>2, <4>3
      <3>3. effect' = effect
        BY <1>1, <3>2
      <3> QED
        BY <1>0, <3>1, <3>3 DEF EffectsFresh, Untouched
    <2>2. CASE booker'[x] # booker[x]
      <3>1. Turn(x)
        BY <1>0, <2>2, SomeTurn DEF Turn
      <3>2. CASE booker'[x].step = "newLots"
        <4>1. AppendTrades(x)
          BY <3>1, <3>2 DEF Turn
        <4>2. /\ effect' = effect /\ booker[x].step = "trades"
              /\ Exit(x) \/ Advance(x, "newLots")
          BY <4>1 DEF AppendTrades, Continue
        <4>3. booker'[x].rows = booker[x].rows
          BY <1>0, <3>2, <4>2, IdleTyped, ExitBooker, AdvanceBooker DEF Exit, Advance, Steps
        <4>4. trades[o] = <<>>
          BY <1>0, <1>3, <4>2, <4>3 DEF MayMove, FreshRows
        <4> QED
          BY <1>0, <4>2, <4>4 DEF EffectsFresh, Untouched
      <3>3. CASE booker'[x].step = "lots"
        <4>1. AppendLots(x) /\ OrderOf[o].side = "SELL"
          BY <1>3, <3>1, <3>3 DEF Turn, MayMove
        <4>2. /\ effect' = effect \/ effect' = Effected(x, "BUY")
              /\ booker[x].step = "newLots"
              /\ Exit(x) \/ Advance(x, "lots")
          BY <4>1 DEF AppendLots, Continue
        <4>3. booker'[x].rows = booker[x].rows
          BY <1>0, <3>3, <4>2, IdleTyped, ExitBooker, AdvanceBooker DEF Exit, Advance, Steps
        <4>4. effect'[o] = effect[o]
          <5>1. RowsDistinct
            BY <1>0 DEF FulfilInv
          <5>2. Effected(x, "BUY")[o] = effect[o]
            <6>1. OrderOf[o].side # "BUY"
              BY <4>1
            <6> QED
              BY <1>0, <5>1, <6>1, EffectedIs
          <5> QED
            BY <4>2, <5>2
        <4>5. MayMove(x, o)
          BY <1>3, <4>2, <4>3 DEF MayMove, AppendLots
        <4> QED
          BY <1>0, <4>4, <4>5 DEF EffectsFresh, Untouched
      <3> QED
        BY <2>0, <3>2, <3>3
    <2> QED
      BY <2>1, <2>2
  <1> QED
    BY <1>2, <1>3 DEF EffectsFresh

-----------------------------------------------------------------------------
(* A booker at work, while nothing fails                                   *)

LEMMA NoFault ==
  ASSUME NEW o, CountFault(o), faults' = faults, faults \in Nat
  PROVE  o = "ok"
  BY DEF CountFault

\* Booker b is to come to its next row.
LEMMA NextRowIs ==
  ASSUME Typed, NEW b \in Bookers, NextRow(b)
  PROVE  /\ booker'[b].step = "rows" /\ booker'[b].rows = booker[b].rows
         /\ booker'[b].next = booker[b].next + 1
  <1> DEFINE r == [booker[b] EXCEPT !.step = "rows", !.next = @ + 1]
  <1>1. booker \in [Bookers -> BookerState]
    BY DEF Typed, ControlType
  <1>2. booker' = [booker EXCEPT ![b] = r]
    BY DEF NextRow
  <1>3. r.step = "rows" /\ r.rows = booker[b].rows /\ r.next = booker[b].next + 1
    BY <1>1 DEF BookerState
  <1> HIDE DEF r
  <1> QED
    BY <1>1, <1>2, <1>3

\* Rows that wait go on waiting when their booker passes the row it is at,
\* unless that is their row.
LEMMA RowsPass ==
  ASSUME Typed, NEW b \in Bookers, NextRow(b), recon \subseteq recon',
         booker[b].step \in {"rows", "openSet", "fulfil"},
         NEW o, NEW i \in DOMAIN booker[b].rows, booker[b].rows[i].order = o,
         Waits(b, i), i # booker[b].next
  PROVE  Pending(b, o)'
  <1>1. /\ booker'[b].step = "rows" /\ booker'[b].rows = booker[b].rows
        /\ booker'[b].next = booker[b].next + 1
    BY NextRowIs
  <1>2. booker[b].rows[i].recon /\ booker[b].next <= i
    BY DEF Waits
  <1>3. i \in Nat /\ booker[b].next \in Nat
    BY RowsAre
  <1>4. booker'[b].next <= i
    BY <1>1, <1>2, <1>3
  <1>5. Waits(b, i)'
    BY <1>1, <1>2, <1>4 DEF Waits
  <1> QED
    BY <1>1, <1>5 DEF Pending

LEMMA LotsCarry ==
  ASSUME QueueInv, NEW b \in Bookers, AppendLots(b) \/ UpdateLots(b), faults' = faults,
         NEW o, NEW i \in DOMAIN booker[b].rows, booker[b].rows[i].order = o, Waits(b, i)
  PROVE  Pending(b, o)' \/ Done(o)'
  <1>0. /\ Typed /\ RowsDistinct /\ faults \in Nat /\ booker \in [Bookers -> BookerState]
        /\ o \in Orders /\ EffectsFresh /\ PlanFits(b)
        /\ effect \in [Orders -> [Owners -> Int]]
    <2>1. Typed
      BY DEF QueueInv, LotsInv, FulfilInv
    <2>2. o \in Orders
      BY <2>1, RowsAre
    <2>3. faults \in Nat
      BY FillConstants DEF QueueInv, LotsInv, DataTyped
    <2> QED
      BY <2>1, <2>2, <2>3 DEF QueueInv, LotsInv, DataTyped, FulfilInv, Typed, ControlType
  <1>1. PICK side \in {"BUY", "SELL"}, s \in {"lots", "rows"} :
          /\ Advance(b, s) /\ effect' = Effected(b, side)
          /\ IF side = "BUY" THEN s = "lots" /\ booker[b].step = "newLots"
                             ELSE s = "rows" /\ booker[b].step = "lots"
    <2>1. CASE AppendLots(b)
      <3>1. PICK x \in Outcomes : /\ CountFault(x)
                                  /\ x # "failed" => effect' = Effected(b, "BUY")
                                  /\ Continue(b, x, "lots") /\ booker[b].step = "newLots"
        BY <2>1 DEF AppendLots
      <3>2. x = "ok"
        BY <1>0, <3>1, NoFault
      <3> QED
        BY <3>1, <3>2 DEF Continue
    <2>2. CASE UpdateLots(b)
      <3>1. PICK x \in Outcomes : /\ CountFault(x)
                                  /\ x # "failed" => effect' = Effected(b, "SELL")
                                  /\ Continue(b, x, "rows") /\ booker[b].step = "lots"
        BY <2>2 DEF UpdateLots
      <3>2. x = "ok"
        BY <1>0, <3>1, NoFault
      <3> QED
        BY <3>1, <3>2 DEF Continue
    <2> QED
      BY <2>1, <2>2
  <1>2. /\ booker'[b].step = s /\ booker'[b].rows = booker[b].rows
        /\ booker'[b].next = booker[b].next /\ plan' = plan
    BY <1>0, <1>1, AdvanceBooker DEF Advance, Steps
  <1>3. CASE booker[b].rows[i].recon
    <2>1. i \in Nat \ {0} /\ booker[b].next = 1
      <3>1. i \in Nat \ {0}
        BY <1>0, RowsAre
      <3>2. booker[b].next = 1
        BY <1>0, <1>1 DEF PlanFits, Opening, Planned
      <3> QED
        BY <3>1, <3>2
    <2>2. Waits(b, i)'
      BY <1>1, <1>2, <1>3, <2>1 DEF Waits
    <2> QED
      BY <1>2, <2>2 DEF Pending
  <1>4. CASE ~booker[b].rows[i].recon
    <2>1. PICK a \in Owners : plan[b].moves[i][a] # 0
      BY <1>4 DEF Waits
    <2>2. OrderOf[o].side \in {"BUY", "SELL"}
      BY <1>0, FillConstants DEF OrderType
    <2>3. CASE OrderOf[o].side = side
      <3>1. effect'[o] = Given(b, i, o)
        <4>1. Effected(b, side)[o] = Given(b, i, o)
          BY <1>0, <2>3, EffectedIs
        <4> QED
          BY <1>1, <4>1
      <3>2. MayMove(b, o)
        BY <1>1, <2>3 DEF MayMove
      <3>3. effect[o][a] = 0
        BY <1>0, <3>2 DEF EffectsFresh, Untouched
      <3>4. plan[b].moves[i][a] \in Int
        <4>1. /\ plan[b].moves \in Seq([Owners -> Int])
              /\ DOMAIN plan[b].moves = DOMAIN booker[b].rows
          BY <1>0, <1>1 DEF PlanFits, PlanState, Planned
        <4>2. plan[b].moves[i] \in [Owners -> Int]
          BY <4>1, LenProperties, ElementOfSeq
        <4> QED
          BY <4>2
      <3>5. effect'[o][a] = effect[o][a] + plan[b].moves[i][a]
        BY <3>1 DEF Given
      <3>6. effect'[o][a] # 0
        BY <2>1, <3>3, <3>4, <3>5
      <3> QED
        BY <3>6 DEF Done, Untouched
    <2>4. CASE OrderOf[o].side # side
      <3>1. booker[b].step = "newLots" /\ OrderOf[o].side = "SELL" /\ s = "lots"
        BY <1>1, <1>4, <2>2, <2>4 DEF Waits
      <3>2. Waits(b, i)'
        BY <1>2, <1>4, <2>1, <3>1 DEF Waits
      <3> QED
        BY <1>2, <3>2 DEF Pending
    <2> QED
      BY <2>3, <2>4
  <1> QED
    BY <1>3, <1>4

LEMMA RowsCarry ==
  ASSUME QueueInv, NEW b \in Bookers, faults' = faults,
         NEW o, NEW i \in DOMAIN booker[b].rows, booker[b].rows[i].order = o, Waits(b, i),
         recon \subseteq recon', reconOpen \subseteq reconOpen',
         EndRows(b) \/ QueueRecon(b) \/ OpenRecon(b) \/ SkipRow(b) \/ ReadToFulfil(b)
            \/ WriteFulfilled(b) \/ Release(b)
  PROVE  Pending(b, o)' \/ Done(o)'
  <1> DEFINE next == booker[b].next
  <1>0. /\ Typed /\ faults \in Nat /\ booker \in [Bookers -> BookerState]
        /\ o \in Orders /\ PlanFits(b) /\ i \in Nat \ {0} /\ next \in Nat \ {0}
        /\ i <= Len(booker[b].rows) /\ Len(booker[b].rows) \in Nat
    <2>1. Typed
      BY DEF QueueInv, LotsInv, FulfilInv
    <2>2. /\ o \in Orders /\ i \in Nat \ {0} /\ next \in Nat \ {0}
          /\ i <= Len(booker[b].rows) /\ Len(booker[b].rows) \in Nat
      BY <2>1, RowsAre
    <2>3. faults \in Nat
      BY FillConstants DEF QueueInv, LotsInv, DataTyped
    <2> QED
      BY <2>1, <2>2, <2>3 DEF QueueInv, LotsInv, Typed, ControlType
  <1> HIDE DEF next
  <1>1. CASE EndRows(b)
    BY <1>0, <1>1 DEF EndRows, Waits, next
  <1>2. CASE QueueRecon(b)
    <2>1. PICK x \in Outcomes :
            /\ CountFault(x) /\ AtRow(b, "rows")
            /\ recon' = IF x = "failed" THEN recon ELSE recon \cup {ThisRow(b).order}
            /\ IF x = "ok" THEN Advance(b, "openSet") ELSE FailRow(b)
      BY <1>2 DEF QueueRecon
    <2>2. x = "ok"
      BY <1>0, <2>1, NoFault
    <2>3. /\ booker'[b].step = "openSet" /\ booker'[b].rows = booker[b].rows
          /\ booker'[b].next = next
      BY <1>0, <2>1, <2>2, AdvanceBooker DEF Advance, Steps, next
    <2>4. booker[b].rows[i].recon /\ next <= i
      BY <2>1 DEF Waits, AtRow, next
    <2>5. next = i => o \in recon'
      BY <2>1, <2>2 DEF ThisRow, next
    <2>6. Waits(b, i)'
      BY <2>3, <2>4, <2>5 DEF Waits
    <2> QED
      BY <2>3, <2>6 DEF Pending
  <1>3. CASE OpenRecon(b)
    <2>1. PICK x \in Outcomes :
            /\ CountFault(x) /\ AtRow(b, "openSet")
            /\ reconOpen' = IF x = "failed" THEN reconOpen ELSE reconOpen \cup {ThisRow(b).order}
            /\ IF x = "ok" THEN NextRow(b) ELSE FailRow(b)
      BY <1>3 DEF OpenRecon
    <2>2. x = "ok"
      BY <1>0, <2>1, NoFault
    <2>3. CASE i = next
      <3>1. o \in recon /\ ThisRow(b).order = o
        BY <2>1, <2>3 DEF Waits, AtRow, ThisRow, next
      <3> QED
        BY <2>1, <2>2, <3>1 DEF Done
    <2>4. CASE i # next
      BY <1>0, <2>1, <2>2, <2>4, RowsPass DEF AtRow, next
    <2> QED
      BY <2>3, <2>4
  <1>4. CASE SkipRow(b)
    <2>1. NextRow(b) /\ AtRow(b, "rows") /\ ~ThisRow(b).recon
      BY <1>4 DEF SkipRow
    <2>2. booker[b].rows[i].recon
      BY <2>1 DEF Waits, AtRow
    <2>3. i # next
      BY <2>1, <2>2 DEF ThisRow, next
    <2> QED
      BY <1>0, <2>1, <2>3, RowsPass DEF AtRow, next
  <1>5. CASE ReadToFulfil(b)
    <2>1. AtRow(b, "rows") /\ ~ThisRow(b).recon
      BY <1>5 DEF ReadToFulfil
    <2>2. booker[b].rows[i].recon /\ next <= i
      BY <2>1 DEF Waits, AtRow, next
    <2>3. i # next
      BY <2>1, <2>2 DEF ThisRow, next
    <2>4. b \notin Posts
      BY <1>0, <2>2, <2>3 DEF PlanFits
    <2>5. CASE FailRow(b)
      <3>1. NextRow(b)
        BY <2>4, <2>5 DEF FailRow, Bookers
      <3> QED
        BY <1>0, <2>1, <2>3, <3>1, RowsPass DEF AtRow, next
    <2>6. CASE ~FailRow(b)
      <3>1. booker' = [booker EXCEPT ![b].step = "fulfil", ![b].seen = proposals[ThisRow(b).prop]]
        BY <1>5, <2>6 DEF ReadToFulfil
      <3>2. /\ booker'[b].step = "fulfil" /\ booker'[b].rows = booker[b].rows
            /\ booker'[b].next = next
        BY <1>0, <3>1 DEF BookerState, next
      <3>3. Waits(b, i)'
        BY <2>2, <2>3, <3>2 DEF Waits
      <3> QED
        BY <3>2, <3>3 DEF Pending
    <2> QED
      BY <2>5, <2>6
  <1>6. CASE WriteFulfilled(b)
    <2>1. PICK x \in Outcomes :
            /\ CountFault(x) /\ AtRow(b, "fulfil")
            /\ IF x = "ok" THEN NextRow(b) ELSE FailRow(b)
      BY <1>6 DEF WriteFulfilled
    <2>2. x = "ok"
      BY <1>0, <2>1, NoFault
    <2>3. i # next
      BY <2>1 DEF Waits, AtRow, next
    <2> QED
      BY <1>0, <2>1, <2>2, <2>3, RowsPass DEF AtRow, next
  <1>7. CASE Release(b)
    BY <1>7 DEF Release, Waits
  <1> QED
    BY <1>1, <1>2, <1>3, <1>4, <1>5, <1>6, <1>7

LEMMA PendingStays ==
  ASSUME NEW x \in Bookers, NEW o, Pending(x, o), booker'[x] = booker[x], plan'[x] = plan[x],
         recon \subseteq recon'
  PROVE  Pending(x, o)'
  BY DEF Pending, Waits

\* The rows an append puts in the ledger wait for their lots or for the queue.
LEMMA AppendOwes ==
  ASSUME QueueInv, EnforceOwnership, [Next]_vars, NEW b \in Bookers, AppendTrades(b),
         faults' = faults, faults = 0, NEW o \in Orders, Owed(o)'
  PROVE  Done(o)' \/ \E x \in Bookers : Pending(x, o)'
  <1>0. /\ Typed /\ FulfilInv /\ Mutex /\ PlanFits(b) /\ booker \in [Bookers -> BookerState]
        /\ OwedIsPending /\ booker[b].step = "trades"
    BY DEF QueueInv, LockInv, LotsInv, FulfilInv, Typed, ControlType, AppendTrades
  <1>1. CASE trades[o] # <<>>
    <2>1. 1 \in DOMAIN trades[o]
      BY <1>0, <1>1, FirstRow
    <2>2. trades'[o][1] = trades[o][1]
      BY <1>0, <2>1, LedgerKeeps
    <2>3. Owed(o)
      BY <1>1, <2>2 DEF Owed
    <2>4. ASSUME NEW x \in Bookers, Pending(x, o) PROVE FALSE
      <3>1. booker[x].step \in {"newLots", "lots", "rows", "openSet", "fulfil"}
        BY <2>4 DEF Pending, Waits
      <3>2. InBooking(x) /\ InBooking(b)
        BY <1>0, <3>1 DEF InBooking
      <3>3. x = b
        BY <1>0, <3>2, Alone
      <3> QED
        BY <1>0, <3>1, <3>3
    <2>5. Done(o)
      BY <1>0, <2>3, <2>4 DEF OwedIsPending
    <2> QED
      BY <2>5, DoneStays
  <1>2. CASE trades[o] = <<>>
    <2>1. trades'[o] = trades[o] \o RowsOf(b, o) /\ Advance(b, "newLots")
      <3>1. PICK x \in Outcomes :
              /\ CountFault(x) /\ Continue(b, x, "newLots")
              /\ trades' = IF x = "failed" THEN trades
                           ELSE [y \in Orders |-> trades[y] \o RowsOf(b, y)]
        BY DEF AppendTrades
      <3>2. x = "ok"
        BY <3>1, NoFault
      <3> QED
        BY <3>1, <3>2 DEF Continue
    <2>2. RowsOf(b, o) \in Seq(Row)
      BY <1>0, AppendedRow
    <2>3. trades'[o] = RowsOf(b, o)
      BY <1>2, <2>1, <2>2, ConcatEmptySeq
    <2>4. RowsOf(b, o) # <<>> /\ RowsOf(b, o)[1].prop # NoProposal
      BY <2>3 DEF Owed
    <2>5. PICK i \in DOMAIN booker[b].rows :
            booker[b].rows[i].order = o /\ RowsOf(b, o) = <<booker[b].rows[i]>>
      BY <2>4 DEF RowsOf
    <2>6. booker[b].rows[i].prop # NoProposal
      BY <2>4, <2>5
    <2>7. /\ booker'[b].step = "newLots" /\ booker'[b].rows = booker[b].rows /\ plan' = plan
      BY <1>0, <2>1, AdvanceBooker DEF Advance, Steps
    <2>8. ~booker[b].rows[i].recon => \E a \in Owners : plan[b].moves[i][a] # 0
      BY <1>0, <2>6 DEF PlanFits, Planned, MovesMeant
    <2>9. Waits(b, i)'
      BY <2>7, <2>8 DEF Waits
    <2> QED
      BY <2>5, <2>7, <2>9 DEF Pending
  <1> QED
    BY <1>1, <1>2

LEMMA OwedStep ==
  ASSUME ~LockMayExpire, EnforceOwnership, QueueInv, [Next]_vars
  PROVE  OwedIsPending'
  <1> SUFFICES ASSUME faults' = 0, NEW o \in Orders, Owed(o)'
               PROVE  Done(o)' \/ \E x \in Bookers : Pending(x, o)'
    BY DEF OwedIsPending
  <1>0. LotsInv /\ OwedIsPending
    BY DEF QueueInv
  <1>1. /\ faults = 0 /\ faults' = faults
        /\ recon \subseteq recon' /\ reconOpen \subseteq reconOpen'
    <2>1. faults \in Nat
      BY <1>0, FillConstants DEF LotsInv, DataTyped
    <2> QED
      BY <1>0, <2>1, QueuesGrow
  <1>2. CASE \E b \in Bookers : AppendTrades(b)
    BY <1>1, <1>2, AppendOwes
  <1>3. CASE ~ \E b \in Bookers : AppendTrades(b)
    <2>1. Owed(o)
      BY <1>3, OnlyAppends DEF Owed
    <2>2. ASSUME NEW x \in Bookers, Pending(x, o)
          PROVE  Done(o)' \/ \E y \in Bookers : Pending(y, o)'
      <3>0. PICK i \in DOMAIN booker[x].rows : booker[x].rows[i].order = o /\ Waits(x, i)
        BY <2>2 DEF Pending
      <3>1. booker[x].step \in {"newLots", "lots", "rows", "openSet", "fulfil"}
        BY <3>0 DEF Waits
      <3>2. ASSUME NEW b \in Bookers, Plans(b), b # x PROVE Pending(x, o)'
        BY <1>1, <2>2, <3>2, PendingStays DEF Plans, OthersStay
      <3>3. ASSUME NEW b \in Posts, (\E u \in Orders : PostStart(b, u)) \/ PostStep(b)
            PROVE  Pending(x, o)'
        <4>1. Plans(b) /\ b \in Bookers
          BY <1>0, <3>3, PostPlans DEF Bookers
        <4>2. booker[b].step \in {"idle", "locked", "read"}
          BY <3>3 DEF PostStart, PostStep, ReadProposal, RecordAgain, RecordFill, RefuseFill
        <4> QED
          BY <3>1, <3>2, <4>1, <4>2
      <3>4. CASE SyncFetch \/ SyncStep
        <4>1. Plans(Sync) /\ Sync \in Bookers
          BY <1>0, <3>4, SyncPlans DEF Bookers
        <4>2. booker[Sync].step \in {"idle", "fetched", "stamped", "locked", "cursor"}
          BY <3>4 DEF SyncFetch, SyncStep, SyncStamp, SyncLock, SyncPlan, SyncCursor
        <4> QED
          BY <3>1, <3>2, <4>1, <4>2
      <3>5. ASSUME NEW b \in Bookers, WriteStep(b) \/ Crash(b)
            PROVE  Done(o)' \/ Pending(x, o)'
        <4>1. CASE b # x
          <5>1. Plans(b)
            BY <1>0, <3>5, WritePlans
          <5> QED
            BY <3>2, <4>1, <5>1
        <4>2. CASE b = x
          <5>1. ~Crash(b)
            BY <1>1 DEF Crash
          <5>2. CASE AppendLots(b) \/ UpdateLots(b)
            BY <1>1, <3>0, <4>2, <5>2, LotsCarry
          <5>3. CASE ~(AppendLots(b) \/ UpdateLots(b))
            <6>1. EndRows(b) \/ QueueRecon(b) \/ OpenRecon(b) \/ SkipRow(b) \/ ReadToFulfil(b)
                     \/ WriteFulfilled(b) \/ Release(b)
              BY <1>3, <3>5, <5>1, <5>3 DEF WriteStep
            <6> QED
              BY <1>1, <3>0, <4>2, <6>1, RowsCarry
          <5> QED
            BY <5>2, <5>3
        <4> QED
          BY <4>1, <4>2
      <3>6. CASE \/ LockExpires \/ UNCHANGED vars
                 \/ \E c \in Clients : (\E p \in Proposals : ClientRead(c, p))
                                       \/ ExpireStale(c) \/ ReportState(c)
                 \/ \E p \in Proposals : Decide(p) \/ Ages(p)
                 \/ \E u \in Orders : BrokerFills(u)
        <4>1. booker' = booker /\ plan' = plan
          BY <3>6 DEF LockExpires, ClientRead, ExpireStale, ReportState, Decide, Ages,
                      BrokerFills, vars
        <4> QED
          BY <1>1, <2>2, <4>1, PendingStays
      <3> QED
        BY <3>3, <3>4, <3>5, <3>6 DEF Next
    <2> QED
      BY <1>0, <1>1, <2>1, <2>2, DoneStays DEF OwedIsPending
  <1> QED
    BY <1>2, <1>3

LEMMA QueueInit == Init => QueueInv
  <1> SUFFICES ASSUME Init PROVE QueueInv
    OBVIOUS
  <1>1. EffectsFresh
    BY DEF Init, EffectsFresh, Untouched
  <1>2. OwedIsPending
    BY DEF Init, OwedIsPending, Owed
  <1> QED
    BY <1>1, <1>2, LockInit, LotsInit DEF QueueInv

LEMMA QueueStep ==
  ~LockMayExpire /\ EnforceOwnership /\ QueueInv /\ [Next]_vars => QueueInv'
  BY LockStep, LotsStep, EffectsStep, OwedStep DEF QueueInv

\* When nothing fails, an agent's sale whose lots were not moved is in the open
\* reconciliation set by the time its booking ends, whichever of /record-trade
\* and the holdings sync booked it and whatever the batch it came in did to the
\* lots before it: it holds while lots are owned by agents (ENFORCE_OWNERSHIP)
\* and the accounting lock outlives its holder.
THEOREM UnmovedIsQueuedHolds ==
  ASSUME ~LockMayExpire, EnforceOwnership
  PROVE  Spec => []UnmovedIsQueued
  <1>1. QueueInv /\ [Next]_vars => QueueInv'
    BY QueueStep
  <1>2. QueueInv => UnmovedIsQueued
    <2> SUFFICES ASSUME QueueInv, AllIdle, faults = 0, NEW o \in Orders, trades[o] # <<>>,
                        trades[o][1].prop # NoProposal
                 PROVE  (\E a \in Owners : effect[o][a] # 0) \/ o \in recon \cap reconOpen
      BY DEF UnmovedIsQueued
    <2>1. \A b \in Bookers : ~Pending(b, o)
      BY DEF AllIdle, InBooking, Pending, Waits
    <2>2. Done(o)
      BY <2>1 DEF QueueInv, OwedIsPending, Owed
    <2> QED
      BY <2>2 DEF Done, Untouched
  <1> QED
    BY <1>1, <1>2, QueueInit, PTL DEF Spec

-----------------------------------------------------------------------------
(***************************************************************************)
(* The lots agree with the Trade Ledger.  First what one fill moves: a     *)
(* purchase gives its owner its shares; a FIFO sale takes, lot by lot,     *)
(* exactly its shares, or nothing when the lots do not cover it.           *)
(***************************************************************************)

LEMMA OwnersFinite == IsFiniteSet(Owners)
  <1>1. IsFiniteSet(Agents) /\ IsFiniteSet({Unattributed})
    BY FillConstants, FS_Singleton
  <1> QED
    BY <1>1, FS_Union DEF Owners

\* A covered FIFO sale takes its shares, no more and no fewer: from the first k
\* lots it takes all they hold, until it has its shares.
LEMMA SaleTakes ==
  ASSUME NEW ls \in Seq(Lot), NEW owner, NEW n \in Nat,
         OpenIn(ls, Eligible(ls, owner)) >= n
  PROVE  Total([j \in DOMAIN ls |-> Taken(ls, owner, n, j)], DOMAIN ls) = n
  <1> DEFINE E == Eligible(ls, owner)
             L == Len(ls)
             t == [j \in DOMAIN ls |-> Taken(ls, owner, n, j)]
             f == [j \in DOMAIN ls |-> ls[j].open]
             B(k) == Total(f, E \cap (1 .. k))
             T == {k \in 0 .. L : Total(t, (1 .. L) \cap (1 .. k)) = IF n < B(k) THEN n ELSE B(k)}
  <1>1. /\ L \in Nat /\ DOMAIN ls = 1 .. L /\ E \in SUBSET (1 .. L)
        /\ \A j \in 1 .. L : t[j] \in Nat /\ f[j] \in Nat /\ f[j] = ls[j].open
    BY LotsAre, TakenIs DEF Eligible
  <1>2. \A S \in SUBSET (1 .. L) : OpenIn(ls, S) = Total(f, S)
    <2> SUFFICES ASSUME NEW S \in SUBSET (1 .. L) PROVE OpenIn(ls, S) = Total(f, S)
      OBVIOUS
    <2> DEFINE g == [j \in S |-> ls[j].open]
    <2>1. \A j \in S : g[j] = f[j]
      BY <1>1
    <2> HIDE DEF g, f
    <2> QED
      BY <2>1, TotalSame DEF OpenIn, g
  <1>3. 0 \in T
    <2>1. (1 .. L) \cap (1 .. 0) = {} /\ E \cap (1 .. 0) = {}
      OBVIOUS
    <2>2. Total(t, (1 .. L) \cap (1 .. 0)) = 0 /\ B(0) = 0
      BY <2>1, TotalOfNone
    <2> HIDE DEF t, B
    <2> QED
      BY <1>1, <2>2
  <1>4. ASSUME NEW k \in 0 .. L - 1, k \in T PROVE k + 1 \in T
    <2>1. k \in Nat /\ k + 1 \in 1 .. L /\ k + 1 \in DOMAIN ls
      BY <1>1
    <2>2. /\ Total(t, (1 .. L) \cap (1 .. k + 1)) = Total(t, (1 .. L) \cap (1 .. k)) + t[k + 1]
          /\ Total(t, (1 .. L) \cap (1 .. k)) \in Nat
      <3>1. \A c \in (1 .. L) \cap (1 .. k + 1) : t[c] \in Nat
        BY <1>1
      <3> HIDE DEF t
      <3> QED
        BY <2>1, <3>1, TotalNext
    <2>3. /\ B(k + 1) = B(k) + IF k + 1 \in E THEN f[k + 1] ELSE 0
          /\ B(k) \in Nat
      <3>1. \A c \in E \cap (1 .. k + 1) : f[c] \in Nat
        BY <1>1
      <3> HIDE DEF f, E
      <3> QED
        BY <2>1, <3>1, TotalNext
    <2>4. {i \in E : i < k + 1} = E \cap (1 .. k)
      BY <1>1, <2>1
    <2>5. OpenIn(ls, {i \in E : i < k + 1}) = B(k)
      BY <1>1, <1>2, <2>4
    <2>6. t[k + 1] = IF k + 1 \notin E THEN 0
                     ELSE IF (IF n > B(k) THEN n - B(k) ELSE 0) < f[k + 1]
                          THEN (IF n > B(k) THEN n - B(k) ELSE 0) ELSE f[k + 1]
      <3>1. t[k + 1] = Taken(ls, owner, n, k + 1) /\ f[k + 1] = ls[k + 1].open
        BY <2>1
      <3> HIDE DEF t, f, B
      <3> QED
        BY <2>5, <3>1 DEF Taken
    <2>7. f[k + 1] \in Nat
      BY <1>1, <2>1
    <2>8. Total(t, (1 .. L) \cap (1 .. k)) = IF n < B(k) THEN n ELSE B(k)
      BY <1>4
    <2>9. Total(t, (1 .. L) \cap (1 .. k + 1)) = IF n < B(k + 1) THEN n ELSE B(k + 1)
      <3> HIDE DEF t, f, B, E, T
      <3> QED
        BY <2>2, <2>3, <2>6, <2>7, <2>8
    <2> HIDE DEF t, f, B, E
    <2> QED
      BY <2>1, <2>9
  <1>5. L \in T
    <2> HIDE DEF T
    <2> QED
      BY <1>1, <1>3, <1>4, Stepwise
  <1>6. (1 .. L) \cap (1 .. L) = 1 .. L /\ E \cap (1 .. L) = E
    BY <1>1
  <1>7. B(L) >= n /\ B(L) \in Nat
    <2>1. OpenIn(ls, E) \in Nat
      BY <1>1, OpenInType
    <2>2. B(L) = OpenIn(ls, E)
      BY <1>1, <1>2, <1>6
    <2> HIDE DEF B
    <2> QED
      BY <2>1, <2>2
  <1>8. Total(t, 1 .. L) = n
    <2>1. Total(t, 1 .. L) = IF n < B(L) THEN n ELSE B(L)
      BY <1>5, <1>6
    <2> HIDE DEF t, B
    <2> QED
      BY <1>7, <2>1
  <1> QED
    BY <1>1, <1>8

\* What a sale leaves an owner, and what it takes from its lots, are what it had.
LEMMA SaleLeaves ==
  ASSUME NEW ls \in Seq(Lot), NEW owner, NEW n \in Nat, NEW a,
         NEW S, S = {j \in DOMAIN ls : ls[j].owner = a},
         NEW t, \A j \in DOMAIN ls : t[j] = Taken(ls, owner, n, j)
  PROVE  /\ Total(t, S) \in Nat
         /\ SharesOf(ls, a) = SharesOf(Sold(ls, owner, n), a) + Total(t, S)
  <1> DEFINE new == Sold(ls, owner, n)
             R == {j \in DOMAIN new : new[j].owner = a}
             f == [j \in S |-> ls[j].open]
             g == [j \in R |-> new[j].open]
  <1>1. /\ new \in Seq(Lot) /\ DOMAIN new = DOMAIN ls
        /\ \A j \in DOMAIN ls : /\ new[j].owner = ls[j].owner
                                /\ new[j].open = ls[j].open - Taken(ls, owner, n, j)
    BY SoldIs
  <1> HIDE DEF new
  <1>2. R = S /\ S \in SUBSET DOMAIN ls
    BY <1>1
  <1>3. /\ IsFiniteSet(S) /\ Total(f, S) = SharesOf(ls, a) /\ Total(g, S) = SharesOf(new, a)
    <2>1. IsFiniteSet(S)
      BY <1>2, OpenInType
    <2>2. Total(f, S) = SharesOf(ls, a)
      BY DEF OpenIn, SharesOf
    <2>3. Total(g, R) = SharesOf(new, a)
      BY DEF OpenIn, SharesOf
    <2> QED
      BY <1>2, <2>1, <2>2, <2>3
  <1>4. \A j \in S : /\ f[j] \in Nat /\ t[j] \in Nat /\ t[j] <= f[j] /\ g[j] = f[j] - t[j]
    <2> SUFFICES ASSUME NEW j \in S
                 PROVE  /\ f[j] \in Nat /\ t[j] \in Nat /\ t[j] <= f[j] /\ g[j] = f[j] - t[j]
      OBVIOUS
    <2>1. j \in DOMAIN ls /\ j \in R /\ f[j] = ls[j].open /\ g[j] = new[j].open
      BY <1>2
    <2>2. t[j] = Taken(ls, owner, n, j) /\ ls[j].open \in Nat
      BY <2>1, LotsAre
    <2>3. t[j] \in Nat /\ t[j] <= ls[j].open
      <3>1. Taken(ls, owner, n, j) \in Nat /\ Taken(ls, owner, n, j) <= ls[j].open
        BY <2>1, TakenIs
      <3> QED
        BY <2>2, <3>1
    <2> QED
      BY <1>1, <2>1, <2>2, <2>3
  <1> HIDE DEF f, g, R
  <1>5. \A j \in S : g[j] \in Nat /\ t[j] \in Nat /\ f[j] = g[j] + t[j]
    BY <1>4
  <1>6. Total(f, S) = Total(g, S) + Total(t, S)
    BY <1>3, <1>5, TotalAdds
  <1>7. Total(t, S) \in Nat
    BY <1>3, <1>5, TotalType
  <1> QED
    BY <1>3, <1>6, <1>7 DEF new

\* The shares v gives each owner, counted as an order moves them.
Size(v, o) == [a \in Owners |-> IF OrderOf[o].side = "BUY" THEN v[a] ELSE -v[a]]

\* What an order booked for owner may move: all one way, its shares or nothing,
\* and nothing of another owner's when it is an agent's.
MoveFits(v, o, owner) ==
    /\ v \in [Owners -> Int] /\ \A a \in Owners : Size(v, o)[a] \in Nat
    /\ Total(Size(v, o), Owners) \in {0, OrderOf[o].shares}
    /\ OrderOf[o].side = "BUY" => \A a \in Owners : v[a] = IF a = owner THEN OrderOf[o].shares ELSE 0
    /\ owner \in Agents => \A a \in Owners \ {owner} : v[a] = 0

LEMMA NothingFits ==
  ASSUME NEW o \in Orders, OrderOf[o].side # "BUY", NEW owner
  PROVE  MoveFits([a \in Owners |-> 0], o, owner)
  <1> DEFINE v == [a \in Owners |-> 0]
             z == Size(v, o)
  <1>1. v \in [Owners -> Int] /\ \A a \in Owners : v[a] = 0
    OBVIOUS
  <1>2. \A a \in Owners : z[a] = 0
    <2>1. \A a \in Owners : z[a] = -v[a]
      BY DEF Size
    <2> HIDE DEF v, z
    <2> QED
      BY <1>1, <2>1
  <1> HIDE DEF v, z
  <1>3. Total(z, Owners) = 0
    <2>1. \A u : u \notin Units(z, Owners)
      BY <1>2, UnitIs
    <2>2. Units(z, Owners) = {}
      BY <2>1
    <2> QED
      BY <2>2, FS_EmptySet DEF Total
  <1>4. \A a \in Owners : z[a] \in Nat
    BY <1>2
  <1>5. MoveFits(v, o, owner)
    BY <1>1, <1>3, <1>4 DEF MoveFits, z
  <1> QED
    BY <1>5 DEF v

\* The shares booking order o for owner is meant to give each owner.
LEMMA BookedFits ==
  ASSUME EnforceOwnership, NEW ls \in Seq(Lot), NEW o \in Orders, NEW owner \in Owners
  PROVE  MoveFits([a \in Owners |-> SharesOf(Booked(ls, o, owner), a) - SharesOf(ls, a)], o, owner)
  <1> DEFINE new == Booked(ls, o, owner)
             n == OrderOf[o].shares
             v == [a \in Owners |-> SharesOf(new, a) - SharesOf(ls, a)]
             z == Size(v, o)
  <1>1. n \in Nat /\ n > 0 /\ OrderOf[o].side \in {"BUY", "SELL"}
    BY FillConstants DEF OrderType
  <1>2. new \in Seq(Lot)
    BY BookedTyped
  <1>3. \A a \in Owners : SharesOf(new, a) \in Nat /\ SharesOf(ls, a) \in Nat
    BY <1>2, SharesType
  <1>4. v \in [Owners -> Int] /\ \A a \in Owners : v[a] = SharesOf(new, a) - SharesOf(ls, a)
    BY <1>3
  <1>5. \A a \in Owners : z[a] = IF OrderOf[o].side = "BUY" THEN v[a] ELSE -v[a]
    BY DEF Size
  <1>6. CASE OrderOf[o].side = "BUY"
    <2>1. \A a \in Owners : SharesOf(new, a) = SharesOf(ls, a) + IF a = owner THEN n ELSE 0
      BY <1>6, BoughtShares
    <2> HIDE DEF new, v, z, n
    <2>2. \A a \in Owners : v[a] = (IF a = owner THEN n ELSE 0) /\ z[a] = v[a] /\ z[a] \in Nat
      BY <1>1, <1>3, <1>4, <1>5, <1>6, <2>1
    <2>3. Total(z, Owners) = n
      <3>1. {owner} \in SUBSET Owners
        OBVIOUS
      <3>2. Total(z, Owners) = Total(z, Owners \ {owner}) + Total(z, {owner})
        BY <2>2, <3>1, OwnersFinite, TotalWithout
      <3>3. Total(z, {owner}) = n
        BY <1>1, <2>2, TotalOfOne
      <3>4. Units(z, Owners \ {owner}) = {}
        <4>1. \A u : u \notin Units(z, Owners \ {owner})
          <5>1. \A a \in Owners \ {owner} : z[a] = 0
            BY <2>2
          <5> QED
            BY <5>1, UnitIs
        <4> QED
          BY <4>1
      <3>5. Total(z, Owners \ {owner}) = 0
        BY <3>4, FS_EmptySet DEF Total
      <3> QED
        BY <1>1, <3>2, <3>3, <3>5
    <2>4. MoveFits(v, o, owner)
      BY <1>4, <2>2, <2>3 DEF MoveFits, z, n
    <2> QED
      BY <2>4 DEF v, new
  <1>7. CASE OrderOf[o].side = "SELL" /\ Short(ls, o, owner)
    <2>1. new = ls
      BY <1>7 DEF Booked
    <2>2. v = [a \in Owners |-> 0]
      <3>1. \A a \in Owners : v[a] = 0
        BY <1>3, <1>4, <2>1
      <3> QED
        BY <3>1
    <2>3. OrderOf[o].side # "BUY"
      BY <1>7
    <2>4. MoveFits(v, o, owner)
      BY <2>2, <2>3, NothingFits
    <2> HIDE DEF v
    <2> QED
      BY <2>4 DEF v
  <1>8. CASE OrderOf[o].side = "SELL" /\ ~Short(ls, o, owner)
    <2> DEFINE t == [j \in DOMAIN ls |-> Taken(ls, owner, n, j)]
               own == [j \in DOMAIN ls |-> ls[j].owner]
               S(a) == {j \in DOMAIN ls : ls[j].owner = a}
               part == [a \in Owners |-> Total(t, S(a))]
    <2>1. new = Sold(ls, owner, n)
      BY <1>8 DEF Booked, Sold
    <2>2. OpenIn(ls, Eligible(ls, owner)) >= n
      <3>1. Eligible(ls, owner) \in SUBSET DOMAIN ls
        BY DEF Eligible
      <3>2. OpenIn(ls, Eligible(ls, owner)) \in Nat
        BY <3>1, OpenInType
      <3> QED
        BY <1>1, <1>8, <3>2 DEF Short
    <2>3. Total(t, DOMAIN ls) = n
      BY <1>1, <2>2, SaleTakes
    <2>4. \A a \in Owners : /\ Total(t, S(a)) \in Nat
                            /\ SharesOf(ls, a) = SharesOf(new, a) + Total(t, S(a))
      <3> SUFFICES ASSUME NEW a \in Owners
                   PROVE  /\ Total(t, S(a)) \in Nat
                          /\ SharesOf(ls, a) = SharesOf(new, a) + Total(t, S(a))
        OBVIOUS
      <3>1. \A j \in DOMAIN ls : t[j] = Taken(ls, owner, n, j)
        OBVIOUS
      <3>2. S(a) = {j \in DOMAIN ls : ls[j].owner = a}
        OBVIOUS
      <3> HIDE DEF n, new, t, S
      <3> QED
        BY <1>1, <2>1, <3>1, <3>2, SaleLeaves
    <2>5. /\ Len(ls) \in Nat /\ DOMAIN ls = 1 .. Len(ls)
          /\ \A j \in 1 .. Len(ls) : t[j] \in Nat /\ own[j] \in Owners /\ own[j] = ls[j].owner
      BY <1>1, LotsAre, TakenIs
    <2>6. \A a \in Owners : S(a) = {j \in 1 .. Len(ls) : own[j] = a}
      BY <2>5
    <2>7. part = [a \in Owners |-> Total(t, {j \in 1 .. Len(ls) : own[j] = a})]
      BY <2>6
    <2> DEFINE L == Len(ls)
    <2>8. Total(part, Owners) = n
      <3> HIDE DEF t, own, part, n, S, new, v, z, L
      <3>0. L \in Nat /\ \A j \in 1 .. L : t[j] \in Nat /\ own[j] \in Owners
        BY <2>5 DEF L
      <3>1. Total(t, 1 .. L) = Total([a \in Owners |-> Total(t, {j \in 1 .. L : own[j] = a})], Owners)
        BY <3>0, OwnersFinite, TotalByOwner
      <3> QED
        BY <2>3, <2>5, <2>7, <3>1 DEF L
    <2>9. \A a \in Owners : z[a] = part[a] /\ z[a] \in Nat
      <3>1. \A a \in Owners : part[a] = Total(t, S(a))
        OBVIOUS
      <3> HIDE DEF part, S, t, z, v, new
      <3>2. ASSUME NEW a \in Owners PROVE z[a] = part[a] /\ z[a] \in Nat
        <4>1. SharesOf(new, a) \in Nat /\ SharesOf(ls, a) = SharesOf(new, a) + part[a] /\ part[a] \in Nat
          BY <1>3, <2>4, <3>1
        <4>2. z[a] = -(SharesOf(new, a) - SharesOf(ls, a))
          BY <1>4, <1>5, <1>8
        <4> QED
          BY <4>1, <4>2
      <3> QED
        BY <3>2
    <2>10. Total(z, Owners) = n
      <3> HIDE DEF part, z
      <3> QED
        BY <2>8, <2>9, TotalSame
    <2>11. ASSUME owner \in Agents, NEW a \in Owners \ {owner} PROVE v[a] = 0
      <3>1. SharesOf(new, a) = SharesOf(ls, a)
        BY <1>8, <2>11, SoldShares
      <3> HIDE DEF new
      <3> QED
        BY <1>3, <1>4, <3>1
    <2>12. MoveFits(v, o, owner)
      <3> HIDE DEF v, z, n
      <3> QED
        BY <1>4, <1>8, <2>9, <2>10, <2>11 DEF MoveFits, z, n
    <2> HIDE DEF v
    <2> QED
      BY <2>12 DEF v
  <1> QED
    BY <1>1, <1>6, <1>7, <1>8

-----------------------------------------------------------------------------
(* What a batch moves                                                      *)

\* The fills of a batch of one side, and the shares of owner a that each moves.
SideOf(batch, side) == {i \in DOMAIN batch : OrderOf[batch[i]].side = side}
SizesOf(batch, w, a) == [i \in DOMAIN batch |-> Size(Moves(w, i), batch[i])[a]]

\* What the fills of a batch give an owner, and take from it, is the whole of
\* what the batch changes of its lots.
LEMMA WorkingBalances ==
  ASSUME EnforceOwnership, lots \in Seq(Lot), NEW n \in Nat, NEW batch \in [1 .. n -> Orders],
         NEW props \in [1 .. n -> Proposals \cup {NoProposal}], NEW a \in Owners
  PROVE  /\ SharesOf(Working(batch, props)[n], a)
               + Total(SizesOf(batch, Working(batch, props), a), SideOf(batch, "SELL"))
            = SharesOf(lots, a)
               + Total(SizesOf(batch, Working(batch, props), a), SideOf(batch, "BUY"))
         /\ \A i \in 1 .. n : MoveFits(Moves(Working(batch, props), i), batch[i], OwnerFor(props[i]))
  <1> DEFINE w == Working(batch, props)
             s == [k \in 0 .. n |-> SharesOf(w[k], a)]
             P == SideOf(batch, "BUY")
             S == SideOf(batch, "SELL")
             z == SizesOf(batch, w, a)
  <1>0. /\ P = {i \in 1 .. n : OrderOf[batch[i]].side = "BUY"}
        /\ S = {i \in 1 .. n : OrderOf[batch[i]].side = "SELL"}
        /\ \A i \in 1 .. n : z[i] = Size(Moves(w, i), batch[i])[a]
    BY DEF SideOf, SizesOf
  <1> HIDE DEF P, S, z
  <1>1. /\ w \in [0 .. n -> Seq(Lot)] /\ w[0] = lots
        /\ \A i \in 1 .. n : w[i] = Booked(w[i - 1], batch[i], OwnerFor(props[i]))
        /\ \A i \in 1 .. n : OwnerFor(props[i]) \in Owners
    BY WorkingIs
  <1>2. ASSUME NEW i \in 1 .. n
        PROVE  /\ MoveFits(Moves(w, i), batch[i], OwnerFor(props[i]))
               /\ Moves(w, i)[a] = SharesOf(w[i], a) - SharesOf(w[i - 1], a)
    <2>1. i - 1 \in 0 .. n /\ w[i - 1] \in Seq(Lot)
      BY <1>1
    <2>2. Moves(w, i) = [x \in Owners |-> SharesOf(w[i], x) - SharesOf(w[i - 1], x)]
      BY DEF Moves, SharesOf
    <2>3. MoveFits([x \in Owners |-> SharesOf(Booked(w[i - 1], batch[i], OwnerFor(props[i])), x)
                                       - SharesOf(w[i - 1], x)], batch[i], OwnerFor(props[i]))
      <3> HIDE DEF w
      <3> QED
        BY <1>1, <2>1, BookedFits
    <2>4. w[i] = Booked(w[i - 1], batch[i], OwnerFor(props[i]))
      BY <1>1
    <2> HIDE DEF w
    <2> QED
      BY <2>2, <2>3, <2>4
  <1> HIDE DEF w
  <1>3. ASSUME NEW i \in 1 .. n
        PROVE  /\ z[i] \in Nat /\ SharesOf(w[i], a) \in Nat /\ SharesOf(w[i - 1], a) \in Nat
               /\ i \in P => SharesOf(w[i], a) = SharesOf(w[i - 1], a) + z[i]
               /\ i \in S => SharesOf(w[i], a) + z[i] = SharesOf(w[i - 1], a)
    <2>1. i \in 0 .. n /\ i - 1 \in 0 .. n /\ w[i] \in Seq(Lot) /\ w[i - 1] \in Seq(Lot)
      BY <1>1
    <2>2. SharesOf(w[i], a) \in Nat /\ SharesOf(w[i - 1], a) \in Nat
      BY <2>1, SharesType
    <2>3. z[i] = Size(Moves(w, i), batch[i])[a]
      BY <1>0
    <2>4. Size(Moves(w, i), batch[i])[a]
            = IF OrderOf[batch[i]].side = "BUY" THEN Moves(w, i)[a] ELSE -Moves(w, i)[a]
      BY DEF Size
    <2>5. Size(Moves(w, i), batch[i])[a] \in Nat
      BY <1>2 DEF MoveFits
    <2>6. (i \in P => OrderOf[batch[i]].side = "BUY") /\ (i \in S => OrderOf[batch[i]].side = "SELL")
      BY <1>0
    <2> DEFINE d == Moves(w, i)[a]
    <2>7. d = SharesOf(w[i], a) - SharesOf(w[i - 1], a)
      BY <1>2
    <2>8. z[i] = (IF OrderOf[batch[i]].side = "BUY" THEN d ELSE -d) /\ z[i] \in Nat
      BY <2>3, <2>4, <2>5
    <2> HIDE DEF d
    <2> QED
      BY <2>2, <2>6, <2>7, <2>8
  <1>4. P \in SUBSET (1 .. n) /\ S \in SUBSET (1 .. n) /\ P \cap S = {} /\ P \cup S = 1 .. n
    <2>1. \A i \in 1 .. n : OrderOf[batch[i]].side \in {"BUY", "SELL"}
      BY FillConstants DEF OrderType
    <2> QED
      BY <1>0, <2>1
  <1>5. \A i \in 1 .. n : i \in 0 .. n /\ i - 1 \in 0 .. n
    OBVIOUS
  <1>6. \A k \in 0 .. n : s[k] = SharesOf(w[k], a) /\ s[k] \in Nat
    BY <1>1, SharesType
  <1> HIDE DEF s
  <1>7. Books(n, s, P, S, z)
    BY <1>3, <1>4, <1>5, <1>6 DEF Books
  <1>8. s[n] + Total(z, S) = s[0] + Total(z, P)
    BY <1>7, BooksBalance
  <1>9. s[n] = SharesOf(w[n], a) /\ s[0] = SharesOf(lots, a)
    BY <1>1, <1>6
  <1> QED
    BY <1>2, <1>8, <1>9 DEF w, z, P, S

-----------------------------------------------------------------------------
(* A booker's plan, from the reading of the lots to their last write       *)

RowSide(b, side) ==
    {i \in DOMAIN booker[b].rows : OrderOf[booker[b].rows[i].order].side = side}

\* Shares of owner a that each row of b moves.
RowSize(b, a) ==
    [i \in DOMAIN booker[b].rows |-> Size(plan[b].moves[i], booker[b].rows[i].order)[a]]

\* A row is for nobody or for the proposal its order was made for, and means to
\* move what its order may.
RowsSound(b) ==
    \A i \in DOMAIN booker[b].rows :
        LET r == booker[b].rows[i]
        IN  /\ r.owner = OwnerFor(r.prop) /\ r.prop \in {NoProposal, OrderOf[r.order].prop}
            /\ MoveFits(plan[b].moves[i], r.order, r.owner)

\* The plan changes an owner's shares by what its rows mean to move.
PlanBalances(b) ==
    \A a \in Owners :
        SharesOf(plan[b].after, a) + Total(RowSize(b, a), RowSide(b, "SELL"))
          = SharesOf(plan[b].sheet, a) + Total(RowSize(b, a), RowSide(b, "BUY"))

\* Until its own write, the lots are as the booker read them.
PlanSound(b) ==
    booker[b].step \in Planned =>
        /\ RowsSound(b) /\ PlanBalances(b)
        /\ booker[b].step \in {"trades", "newLots"} => lots = plan[b].sheet
        /\ booker[b].step = "lots" => lots = plan[b].sheet \o Bought(b)

LEMMA BatchSound ==
  ASSUME LotsInv, EnforceOwnership, NEW b \in Bookers, NEW n \in Nat,
         NEW batch \in [1 .. n -> Orders],
         NEW props \in [1 .. n -> Proposals \cup {NoProposal}],
         \A i \in 1 .. n : props[i] \in {NoProposal, OrderOf[batch[i]].prop},
         PlanBatch(b, batch, props), lots' = lots
  PROVE  PlanSound(b)'
  <1> DEFINE R == PlanRows(batch, props)
             w == Working(batch, props)
             M == [i \in DOMAIN batch |-> Moves(w, i)]
             Q == [sheet |-> lots, after |-> w[Len(batch)], moves |-> M]
             P == SideOf(batch, "BUY")
             S == SideOf(batch, "SELL")
             z(a) == SizesOf(batch, w, a)
  <1>0. /\ booker \in [Bookers -> BookerState] /\ lots \in Seq(Lot)
        /\ plan \in [Bookers -> PlanState]
    BY DEF LotsInv, FulfilInv, Typed, ControlType, DataTyped
  <1>1. /\ R \in Seq(Row) /\ DOMAIN R = 1 .. n
        /\ \A i \in 1 .. n : R[i].order = batch[i] /\ R[i].prop = props[i]
    BY RowsTyped
  <1>2. \A i \in 1 .. n : R[i].owner = OwnerFor(props[i])
    BY DEF PlanRows
  <1>3. /\ booker' = [booker EXCEPT ![b].step = "trades", ![b].rows = R]
        /\ plan' = [plan EXCEPT ![b] = Q] /\ Len(batch) = n
    BY <1>0, WorkingIs DEF PlanBatch
  <1>4. ASSUME NEW a \in Owners
        PROVE  /\ SharesOf(w[n], a) + Total(z(a), S) = SharesOf(lots, a) + Total(z(a), P)
               /\ \A i \in 1 .. n : MoveFits(Moves(w, i), batch[i], OwnerFor(props[i]))
    BY <1>0, WorkingBalances
  <1> HIDE DEF R, w
  <1>5. DOMAIN M = 1 .. n /\ \A i \in 1 .. n : M[i] = Moves(w, i)
    OBVIOUS
  <1> HIDE DEF M
  <1>6. Q.sheet = lots /\ Q.after = w[n] /\ Q.moves = M
    BY <1>3
  <1> HIDE DEF Q
  <1>7. booker'[b].step = "trades" /\ booker'[b].rows = R /\ plan'[b] = Q
    BY <1>0, <1>3 DEF BookerState
  <1>8. RowSide(b, "BUY")' = P /\ RowSide(b, "SELL")' = S
    BY <1>1, <1>7 DEF RowSide, SideOf
  <1>9. \A a \in Owners : RowSize(b, a)' = z(a)
    <2> SUFFICES ASSUME NEW a \in Owners PROVE RowSize(b, a)' = z(a)
      OBVIOUS
    <2>1. \A i \in 1 .. n : Size(plan'[b].moves[i], booker'[b].rows[i].order)[a]
                              = Size(Moves(w, i), batch[i])[a]
      BY <1>1, <1>5, <1>6, <1>7
    <2> QED
      BY <1>1, <1>7, <2>1 DEF RowSize, SizesOf
  <1>10. PlanBalances(b)'
    <2> HIDE DEF z, P, S
    <2>1. \A a \in Owners : SharesOf(w[n], a) + Total(z(a), S) = SharesOf(lots, a) + Total(z(a), P)
      BY <1>4
    <2>2. plan'[b].after = w[n] /\ plan'[b].sheet = lots
      BY <1>6, <1>7
    <2> QED
      BY <1>8, <1>9, <2>1, <2>2 DEF PlanBalances
  <1>11. RowsSound(b)'
    <2> SUFFICES ASSUME NEW i \in 1 .. n
                 PROVE  /\ R[i].owner = OwnerFor(R[i].prop)
                        /\ R[i].prop \in {NoProposal, OrderOf[R[i].order].prop}
                        /\ MoveFits(M[i], R[i].order, R[i].owner)
      BY <1>1, <1>6, <1>7 DEF RowsSound
    <2>1. MoveFits(Moves(w, i), batch[i], OwnerFor(props[i]))
      <3>1. Unattributed \in Owners
        BY DEF Owners
      <3> QED
        BY <1>4, <3>1
    <2> QED
      BY <1>1, <1>2, <1>5, <2>1
  <1> QED
    BY <1>6, <1>7, <1>10, <1>11 DEF PlanSound

\* What is planned is sound: a post books its order for the proposal the order
\* was made for, the sync for that proposal or for nobody.
LEMMA PlannedSound ==
  ASSUME LotsInv, EnforceOwnership, NEW b \in Bookers, RecordFill(b) \/ (b = Sync /\ SyncPlan),
         booker'[b].step = "trades"
  PROVE  PlanSound(b)'
  <1>0. Typed /\ booker \in [Bookers -> BookerState]
    BY DEF LotsInv, FulfilInv, Typed, ControlType
  <1>1. CASE RecordFill(b)
    <2>1. /\ b \in Posts /\ booker[b].step = "read" /\ lots' = lots
          /\ PlanBatch(b, <<Posted(b)>>, <<Target(b)>>)
      BY <1>1 DEF RecordFill, store
    <2>2. Posted(b) \in Orders /\ Target(b) \in Proposals
      BY <1>0, <2>1, PostedTyped
    <2> DEFINE batch == <<Posted(b)>>
               props == <<Target(b)>>
    <2>3. PICK n \in Nat : n = 1
      OBVIOUS
    <2>4. /\ batch \in [1 .. n -> Orders]
          /\ props \in [1 .. n -> Proposals \cup {NoProposal}]
          /\ PlanBatch(b, batch, props)
      BY <2>1, <2>2, <2>3
    <2>5. \A i \in 1 .. n : props[i] \in {NoProposal, OrderOf[batch[i]].prop}
      BY <2>3 DEF Target
    <2> HIDE DEF batch, props
    <2> QED
      BY <2>1, <2>4, <2>5, BatchSound
  <1>2. CASE b = Sync /\ SyncPlan
    <2>1. lots' = lots
      BY <1>2 DEF SyncPlan, store
    <2>2. ~Advance(Sync, "release")
      <3>1. "release" \in Steps
        BY DEF Steps
      <3> QED
        BY <1>0, <1>2, <3>1, AdvanceBooker DEF Advance
    <2>3. PICK batch \in Orderings(Unbooked(booker[Sync].batch)) :
             PlanBatch(Sync, batch, [i \in DOMAIN batch |-> Attributed(batch, i)])
      BY <1>2, <2>2 DEF SyncPlan
    <2> DEFINE n == Cardinality(Unbooked(booker[Sync].batch))
               props == [i \in DOMAIN batch |-> Attributed(batch, i)]
    <2>4. n \in Nat /\ batch \in [1 .. n -> Orders]
      BY <1>0, FreshBatch
    <2>5. props \in [1 .. n -> Proposals \cup {NoProposal}]
      BY <2>4, AttributedTyped
    <2>6. PlanBatch(Sync, batch, props)
      BY <2>3
    <2>7. \A i \in 1 .. n : props[i] \in {NoProposal, OrderOf[batch[i]].prop}
      <3>1. \A o \in Orders : Matches(o) \in {NoProposal, OrderOf[o].prop}
        BY DEF Matches
      <3>2. \A i \in 1 .. n : Attributed(batch, i) \in {NoProposal, Matches(batch[i])}
        BY DEF Attributed
      <3>3. \A i \in 1 .. n : props[i] = Attributed(batch, i)
        BY <2>4
      <3> QED
        BY <2>4, <3>1, <3>2, <3>3
    <2> HIDE DEF n, props
    <2> QED
      BY <1>2, <2>1, <2>4, <2>5, <2>6, <2>7, BatchSound
  <1> QED
    BY <1>1, <1>2

-----------------------------------------------------------------------------
(* The plan stays sound until its last write                               *)

\* A lot write takes its booker a step on, or ends the booking.
LEMMA WriterMoves ==
  ASSUME Typed, NEW b \in Bookers, AppendLots(b) \/ UpdateLots(b)
  PROVE  /\ booker'[b].step # booker[b].step
         /\ booker'[b].step = "lots" =>
               AppendLots(b) /\ lots' = lots \o Bought(b) /\ effect' = Effected(b, "BUY")
  <1>0. booker \in [Bookers -> BookerState] /\ Idle.step = "idle"
    BY IdleTyped DEF Typed, ControlType
  <1>1. CASE AppendLots(b)
    <2>1. PICK o \in Outcomes :
             /\ IF o = "failed" THEN UNCHANGED <<lots, effect>>
                ELSE lots' = lots \o Bought(b) /\ effect' = Effected(b, "BUY")
             /\ Continue(b, o, "lots")
      BY <1>1 DEF AppendLots
    <2>2. booker[b].step = "newLots"
      BY <1>1 DEF AppendLots
    <2>3. Advance(b, "lots") => booker'[b].step = "lots"
      BY <1>0, AdvanceBooker DEF Advance, Steps
    <2>4. Exit(b) => booker'[b].step = "idle"
      BY <1>0, IdleTyped, ExitBooker DEF Exit
    <2> QED
      BY <1>1, <2>1, <2>2, <2>3, <2>4 DEF Continue
  <1>2. CASE UpdateLots(b)
    <2>1. booker[b].step = "lots" /\ (Exit(b) \/ Advance(b, "rows"))
      BY <1>2 DEF UpdateLots, Continue
    <2>2. booker'[b].step \in {"idle", "rows"}
      BY <1>0, <2>1, IdleTyped, ExitBooker, AdvanceBooker DEF Exit, Advance, Steps
    <2> QED
      BY <2>1, <2>2
  <1> QED
    BY <1>1, <1>2

\* A plan that stays, with its rows, stays as sound as it was.
LEMMA PlanCarries ==
  ASSUME NEW b \in Bookers, plan'[b] = plan[b], booker'[b].rows = booker[b].rows,
         RowsSound(b), PlanBalances(b)
  PROVE  RowsSound(b)' /\ PlanBalances(b)' /\ Bought(b)' = Bought(b)
  <1>1. RowsSound(b)'
    BY DEF RowsSound
  <1>2. /\ \A a : RowSize(b, a)' = RowSize(b, a)
        /\ \A side : RowSide(b, side)' = RowSide(b, side)
    BY DEF RowSize, RowSide
  <1>3. PlanBalances(b)'
    BY <1>2 DEF PlanBalances
  <1>4. Bought(b)' = Bought(b)
    BY DEF Bought
  <1> QED
    BY <1>1, <1>3, <1>4

LEMMA SoundStep ==
  ASSUME EnforceOwnership, QueueInv, [Next]_vars, NEW x \in Bookers, PlanSound(x)
  PROVE  PlanSound(x)'
  <1>0. /\ LotsInv /\ FulfilInv /\ Mutex /\ Typed /\ booker \in [Bookers -> BookerState]
    BY DEF QueueInv, LockInv, LotsInv, FulfilInv, Typed, ControlType
  <1> SUFFICES ASSUME booker'[x].step \in Planned PROVE PlanSound(x)'
    BY DEF PlanSound
  <1>1. UNCHANGED <<lots, effect>> \/ \E b \in Bookers : AppendLots(b) \/ UpdateLots(b)
    BY <1>0, LotsMove
  <1>2. CASE booker[x].step \notin Planned
    <2>1. Turn(x)
      BY <1>0, <1>2, SomeTurn DEF Turn
    <2>2. ~AppendTrades(x) /\ ~AppendLots(x)
      BY <1>2 DEF AppendTrades, AppendLots, Planned
    <2>3. booker'[x].step = "trades" /\ (RecordFill(x) \/ (x = Sync /\ SyncPlan))
      BY <2>1, <2>2 DEF Turn, Planned
    <2> QED
      BY <1>0, <2>3, PlannedSound
  <1>3. CASE booker[x].step \in Planned
    <2>1. InBooking(x) /\ RowsSound(x) /\ PlanBalances(x)
      BY <1>3 DEF Planned, InBooking, PlanSound
    <2>2. plan'[x] = plan[x] /\ booker'[x].rows = booker[x].rows
      <3>1. CASE UNCHANGED <<booker, plan>>
        BY <3>1
      <3>2. ASSUME NEW b \in Bookers, Plans(b)
            PROVE  plan'[x] = plan[x] /\ booker'[x].rows = booker[x].rows
        BY <1>3, <3>2 DEF Plans, OthersStay
      <3> QED
        BY <1>0, <3>1, <3>2, SomePlans
    <2>3. RowsSound(x)' /\ PlanBalances(x)' /\ Bought(x)' = Bought(x)
      BY <2>1, <2>2, PlanCarries
    <2>4. \/ UNCHANGED <<lots, effect>>
          \/ booker'[x].step # booker[x].step /\ (AppendLots(x) \/ UpdateLots(x))
      <3>1. ASSUME NEW b \in Bookers, AppendLots(b) \/ UpdateLots(b) PROVE x = b
        BY <1>0, <2>1, <3>1, Alone, WritersAre
      <3> QED
        BY <1>0, <1>1, <3>1, WriterMoves
    <2>5. CASE booker'[x].step = booker[x].step
      BY <2>2, <2>3, <2>4, <2>5 DEF PlanSound, Planned
    <2>6. CASE booker'[x].step # booker[x].step
      <3>1. Turn(x)
        BY <1>0, <2>6, SomeTurn DEF Turn
      <3>2. CASE booker'[x].step = "trades"
        <4>1. booker[x].step \notin Planned
          BY <3>1, <3>2, <1>0 DEF Turn, RecordFill, SyncPlan, Planned
        <4> QED
          BY <1>3, <4>1
      <3>3. CASE booker'[x].step = "newLots"
        <4>1. booker[x].step = "trades" /\ lots' = lots
          BY <3>1, <3>3 DEF Turn, AppendTrades
        <4> QED
          BY <1>3, <2>2, <2>3, <3>3, <4>1 DEF PlanSound
      <3>4. CASE booker'[x].step = "lots"
        <4>1. AppendLots(x)
          BY <3>1, <3>4 DEF Turn
        <4>2. booker[x].step = "newLots" /\ lots' = lots \o Bought(x)
          BY <1>0, <3>4, <4>1, WriterMoves DEF AppendLots
        <4> QED
          BY <1>3, <2>2, <2>3, <3>4, <4>2 DEF PlanSound
      <3> QED
        BY <3>2, <3>3, <3>4 DEF Planned
    <2> QED
      BY <2>5, <2>6
  <1> QED
    BY <1>2, <1>3

-----------------------------------------------------------------------------
(* What a lot write does to the effects                                    *)

\* Booker b writes the lots of its rows of one side.
Writes(b, side) ==
    /\ \/ side = "BUY" /\ booker[b].step = "newLots"
       \/ side = "SELL" /\ booker[b].step = "lots"
    /\ effect' = Effected(b, side)

LEMMA SomeWrites ==
  ASSUME LotsInv, [Next]_vars
  PROVE  \/ UNCHANGED <<lots, effect>>
         \/ \E b \in Bookers : AppendLots(b) /\ Writes(b, "BUY") /\ lots' = lots \o Bought(b)
         \/ \E b \in Bookers :
               /\ UpdateLots(b) /\ Writes(b, "SELL")
               /\ lots' = [j \in DOMAIN lots |->
                             IF j \in Updated(b) THEN plan[b].after[j] ELSE lots[j]]
  <1>1. ASSUME NEW b \in Bookers, AppendLots(b)
        PROVE  UNCHANGED <<lots, effect>> \/ (Writes(b, "BUY") /\ lots' = lots \o Bought(b))
    BY <1>1 DEF AppendLots, Writes
  <1>2. ASSUME NEW b \in Bookers, UpdateLots(b)
        PROVE  \/ UNCHANGED <<lots, effect>>
               \/ /\ Writes(b, "SELL")
                  /\ lots' = [j \in DOMAIN lots |->
                                IF j \in Updated(b) THEN plan[b].after[j] ELSE lots[j]]
    BY <1>2 DEF UpdateLots, Writes
  <1> QED
    BY <1>1, <1>2, LotsMove

\* A row whose lots are written is in the ledger, nothing had moved for its
\* order, and now what the row meant to move has.
LEMMA RowMoved ==
  ASSUME QueueInv, NEW b \in Bookers, PlanSound(b), NEW side, Writes(b, side),
         NEW i \in RowSide(b, side), NEW o, o = booker[b].rows[i].order
  PROVE  /\ o \in Orders /\ OrderOf[o].side = side /\ Untouched(o)
         /\ trades[o] # <<>> /\ trades[o][1].prop = booker[b].rows[i].prop
         /\ effect'[o] = plan[b].moves[i]
         /\ MoveFits(plan[b].moves[i], o, booker[b].rows[i].owner)
  <1>0. /\ Typed /\ RowsDistinct /\ RowsBooked /\ EffectsFresh /\ OrderBookedOnce
    BY DEF QueueInv, LockInv, LotsInv, FulfilInv
  <1>1. /\ i \in DOMAIN booker[b].rows /\ o \in Orders /\ OrderOf[o].side = side
        /\ booker[b].step \in {"newLots", "lots"}
    BY <1>0, RowsAre DEF RowSide, Writes
  <1>2. MoveFits(plan[b].moves[i], o, booker[b].rows[i].owner)
    BY <1>1 DEF PlanSound, RowsSound, Planned
  <1>3. MayMove(b, o)
    BY <1>1 DEF MayMove, Writes
  <1>4. Untouched(o)
    BY <1>0, <1>1, <1>3 DEF EffectsFresh
  <1>5. effect'[o] = Given(b, i, o)
    BY <1>0, <1>1, EffectedIs DEF Writes
  <1>6. effect'[o] = plan[b].moves[i]
    <2>1. plan[b].moves[i] \in [Owners -> Int]
      BY <1>2 DEF MoveFits
    <2>2. \A a \in Owners : effect[o][a] + plan[b].moves[i][a] = plan[b].moves[i][a]
      BY <1>4, <2>1 DEF Untouched
    <2> QED
      BY <1>5, <2>1, <2>2 DEF Given
  <1>7. PICK k \in DOMAIN trades[o] : trades[o][k].prop = booker[b].rows[i].prop
    BY <1>0, <1>1 DEF RowsBooked, PastLedger, BookedFor
  <1>8. k = 1 /\ trades[o] # <<>>
    <2>1. trades[o] \in Seq(Row) /\ Len(trades[o]) <= 1
      BY <1>0, <1>1 DEF Typed, ControlType, OrderBookedOnce
    <2>2. DOMAIN trades[o] = 1 .. Len(trades[o]) /\ Len(trades[o]) \in Nat
      BY <2>1, LenProperties
    <2> QED
      BY <2>1, <2>2
  <1> QED
    BY <1>1, <1>2, <1>4, <1>6, <1>7, <1>8

\* No other order's lots move.
LEMMA OthersKeep ==
  ASSUME QueueInv, NEW b \in Bookers, NEW side, Writes(b, side), NEW o \in Orders
  PROVE  effect'[o] = effect[o] \/ \E i \in RowSide(b, side) : booker[b].rows[i].order = o
  <1>0. Typed /\ RowsDistinct
    BY DEF QueueInv, LotsInv, FulfilInv
  <1> QED
    BY <1>0, EffectedIs DEF Writes, RowSide

\* What an order has moved, once its effect is v.
LEMMA MovedIs ==
  ASSUME NEW o, NEW v, effect'[o] = v
  PROVE  Moved(o)' = Size(v, o)
  BY DEF Moved, Size

LEMMA MovedStays ==
  ASSUME NEW o, effect'[o] = effect[o]
  PROVE  Moved(o)' = Moved(o)
  BY DEF Moved

-----------------------------------------------------------------------------
(* Order by order                                                          *)

\* The lots of an order move with the lots of its row, in the ledger before.
LEMMA FollowStep ==
  ASSUME QueueInv, \A b \in Bookers : PlanSound(b), LotsFollowTrades, NamedSaleTakesOwnLots,
         [Next]_vars, NEW o \in Orders
  PROVE  \/ effect'[o] = effect[o]
         \/ /\ trades[o] # <<>>
            /\ \E owner : /\ MoveFits(effect'[o], o, owner)
                          /\ trades[o][1].prop # NoProposal => owner = AgentOf[OrderOf[o].prop]
  <1>0. LotsInv
    BY DEF QueueInv
  <1>1. ASSUME NEW b \in Bookers, NEW side, Writes(b, side), effect'[o] # effect[o]
        PROVE  /\ trades[o] # <<>>
               /\ \E owner : /\ MoveFits(effect'[o], o, owner)
                             /\ trades[o][1].prop # NoProposal => owner = AgentOf[OrderOf[o].prop]
    <2>1. PICK i \in RowSide(b, side) : booker[b].rows[i].order = o
      BY <1>1, OthersKeep
    <2> DEFINE r == booker[b].rows[i]
    <2>2. /\ trades[o] # <<>> /\ trades[o][1].prop = r.prop
          /\ effect'[o] = plan[b].moves[i] /\ MoveFits(plan[b].moves[i], o, r.owner)
      BY <1>1, <2>1, RowMoved
    <2>3. r.owner = OwnerFor(r.prop) /\ r.prop \in {NoProposal, OrderOf[o].prop}
      BY <1>1, <2>1 DEF PlanSound, RowsSound, RowSide, Writes, Planned
    <2>4. r.prop # NoProposal => r.owner = AgentOf[OrderOf[o].prop]
      BY <2>3 DEF OwnerFor
    <2> QED
      BY <2>2, <2>4
  <1> QED
    BY <1>0, <1>1, SomeWrites

LEMMA AgreeStep ==
  ASSUME QueueInv, \A b \in Bookers : PlanSound(b), LotsFollowTrades, NamedSaleTakesOwnLots,
         [Next]_vars
  PROVE  LotsFollowTrades' /\ NamedSaleTakesOwnLots'
  <1>0. FulfilInv /\ FulfilInv' /\ Typed /\ Typed' /\ EffectsFresh
    BY FulfilStep DEF QueueInv, LockInv, FulfilInv
  <1>1. ASSUME NEW o \in Orders, trades[o] # <<>>
        PROVE  trades'[o] # <<>> /\ trades'[o][1] = trades[o][1]
    <2>1. 1 \in DOMAIN trades[o]
      BY <1>0, <1>1, FirstRow
    <2>2. 1 \in DOMAIN trades'[o] /\ trades'[o][1] = trades[o][1]
      BY <1>0, <2>1, LedgerKeeps
    <2>3. trades'[o] # <<>>
      BY <2>2
    <2> QED
      BY <2>2, <2>3
  <1>2. ASSUME NEW o \in Orders
        PROVE  /\ \A a \in Owners : Moved(o)'[a] \in Nat
               /\ Total(Moved(o)', Owners) \in {0, OrderOf[o].shares}
               /\ Total(Moved(o)', Owners) # 0 => trades'[o] # <<>>
    <2>1. CASE effect'[o] = effect[o]
      BY <1>1, <2>1, MovedStays DEF LotsFollowTrades
    <2>2. CASE effect'[o] # effect[o]
      <3>1. trades[o] # <<>> /\ \E owner : MoveFits(effect'[o], o, owner)
        BY <2>2, FollowStep
      <3>2. Moved(o)' = Size(effect'[o], o)
        BY MovedIs
      <3> QED
        BY <1>1, <3>1, <3>2 DEF MoveFits
    <2> QED
      BY <2>1, <2>2
  <1>3. ASSUME NEW o \in Orders, OrderOf[o].prop # NoProposal, trades'[o] # <<>>,
               NEW a \in Owners \ {AgentOf[OrderOf[o].prop]}, trades'[o][1].prop # NoProposal
        PROVE  effect'[o][a] = 0
    <2>1. CASE trades[o] = <<>>
      <3>1. effect'[o] = effect[o]
        BY <2>1, FollowStep
      <3> QED
        BY <1>0, <2>1, <3>1 DEF EffectsFresh, Untouched
    <2>2. CASE trades[o] # <<>> /\ effect'[o] = effect[o]
      BY <1>1, <1>3, <2>2 DEF NamedSaleTakesOwnLots
    <2>3. CASE trades[o] # <<>> /\ effect'[o] # effect[o]
      <3>1. PICK owner : /\ MoveFits(effect'[o], o, owner)
                         /\ trades[o][1].prop # NoProposal => owner = AgentOf[OrderOf[o].prop]
        BY <2>3, FollowStep
      <3>2. owner = AgentOf[OrderOf[o].prop]
        BY <1>1, <1>3, <2>3, <3>1
      <3>3. owner \in Agents
        BY <1>3, <3>2, FillConstants DEF OrderType
      <3> QED
        BY <1>3, <3>1, <3>2, <3>3 DEF MoveFits
    <2> QED
      BY <2>1, <2>2, <2>3
  <1>4. LotsFollowTrades'
    BY <1>2 DEF LotsFollowTrades
  <1>5. NamedSaleTakesOwnLots'
    BY <1>3 DEF NamedSaleTakesOwnLots
  <1> QED
    BY <1>4, <1>5

-----------------------------------------------------------------------------
(* The balance of the Lots tab                                             *)

\* The orders of one side.
OfSide(side) == {o \in Orders : OrderOf[o].side = side}

LEMMA MovedForType ==
  ASSUME LotsFollowTrades, NEW S \in SUBSET Orders, NEW a \in Owners
  PROVE  MovedFor(a, S) \in Nat
  <1> DEFINE f == [o \in S |-> Moved(o)[a]]
  <1>1. IsFiniteSet(S)
    BY FillConstants, FS_Subset
  <1>2. \A o \in S : f[o] \in Nat
    BY DEF LotsFollowTrades
  <1> HIDE DEF f
  <1>3. Total(f, S) \in Nat
    BY <1>1, <1>2, TotalType
  <1> QED
    BY <1>3 DEF MovedFor, f

\* What the orders of one side moved grows by what the rows of that side meant
\* to move, and by nothing of the other side.
LEMMA SumsMove ==
  ASSUME QueueInv, LotsFollowTrades, NEW b \in Bookers, PlanSound(b), NEW side, Writes(b, side),
         NEW a \in Owners
  PROVE  /\ Total(RowSize(b, a), RowSide(b, side)) \in Nat
         /\ MovedFor(a, OfSide(side)) \in Nat
         /\ MovedFor(a, OfSide(side))'
              = MovedFor(a, OfSide(side)) + Total(RowSize(b, a), RowSide(b, side))
         /\ \A other : other # side => MovedFor(a, OfSide(other))' = MovedFor(a, OfSide(other))
  <1> DEFINE A == OfSide(side)
             R == RowSide(b, side)
             r == [i \in R |-> booker[b].rows[i].order]
             z == RowSize(b, a)
             f == [o \in A |-> Moved(o)[a]]
             g == [o \in A |-> Moved(o)'[a]]
  <1>0. Typed /\ RowsDistinct
    BY DEF QueueInv, LockInv, FulfilInv
  <1>1. IsFiniteSet(A)
    BY FillConstants, FS_Subset DEF OfSide
  <1>2. IsFiniteSet(R) /\ R \subseteq DOMAIN booker[b].rows
    <2>1. R \in SUBSET (1 .. Len(booker[b].rows)) /\ Len(booker[b].rows) \in Nat
      BY <1>0, RowsAre DEF RowSide
    <2>2. R \subseteq DOMAIN booker[b].rows
      BY DEF RowSide
    <2>3. IsFiniteSet(1 .. Len(booker[b].rows))
      BY <2>1, FS_Interval
    <2> HIDE DEF R
    <2> QED
      BY <2>1, <2>2, <2>3, FS_Subset
  <1>3. \A o \in Orders : Moved(o)[a] \in Nat
    BY DEF LotsFollowTrades
  <1>4. ASSUME NEW i \in R, NEW o \in Orders, o = booker[b].rows[i].order
        PROVE  o \in A /\ Moved(o)[a] = 0 /\ z[i] \in Nat /\ Moved(o)'[a] = z[i]
    <2> DEFINE v == plan[b].moves[i]
    <2>1. /\ OrderOf[o].side = side /\ Untouched(o)
          /\ effect'[o] = v /\ MoveFits(v, o, booker[b].rows[i].owner)
      BY <1>4, RowMoved
    <2>2. Moved(o)[a] = 0
      BY <2>1 DEF Untouched, Moved
    <2>3. z[i] = Size(v, o)[a]
      <3>1. i \in DOMAIN booker[b].rows
        BY <1>2
      <3> QED
        BY <1>4, <3>1 DEF RowSize
    <2>4. Moved(o)' = Size(v, o)
      BY <2>1, MovedIs
    <2>5. Size(v, o)[a] \in Nat
      BY <2>1 DEF MoveFits
    <2>6. o \in A
      BY <2>1 DEF OfSide
    <2> QED
      BY <2>2, <2>3, <2>4, <2>5, <2>6
  <1>5. \A o \in Orders : effect'[o] = effect[o] \/ \E i \in R : booker[b].rows[i].order = o
    BY OthersKeep
  <1>6. Fills(A, R, r, f, g, z)
    <2>1. \A i \in R : r[i] = booker[b].rows[i].order /\ booker[b].rows[i].order \in Orders
      BY <1>0, <1>2, RowsAre
    <2>2. \A c \in A : f[c] = Moved(c)[a] /\ g[c] = Moved(c)'[a] /\ c \in Orders
      BY DEF OfSide
    <2>3. \A i \in R : r[i] \in A /\ f[r[i]] = 0 /\ z[i] \in Nat /\ g[r[i]] = z[i]
      <3> HIDE DEF A, R, r, z, f, g
      <3> SUFFICES ASSUME NEW i \in R
                   PROVE  r[i] \in A /\ f[r[i]] = 0 /\ z[i] \in Nat /\ g[r[i]] = z[i]
        OBVIOUS
      <3>1. PICK o \in Orders : o = booker[b].rows[i].order
        BY <2>1
      <3>2. o \in A /\ Moved(o)[a] = 0 /\ z[i] \in Nat /\ Moved(o)'[a] = z[i]
        BY <1>4, <3>1
      <3> QED
        BY <2>1, <2>2, <3>1, <3>2
    <2>4. \A i, j \in R : r[i] = r[j] => i = j
      BY <1>0, <1>2, <2>1 DEF RowsDistinct
    <2>5. \A c \in A : f[c] \in Nat
      BY <1>3, <2>2
    <2>6. \A c \in A : (\E i \in R : r[i] = c) \/ g[c] = f[c]
      <3>1. \A c \in A : effect'[c] = effect[c] => Moved(c)' = Moved(c)
        BY MovedStays
      <3>2. \A c \in A : effect'[c] = effect[c] \/ \E i \in R : r[i] = c
        BY <1>5, <2>1, <2>2
      <3> HIDE DEF A, R, f, g, r
      <3> QED
        BY <2>2, <3>1, <3>2
    <2> HIDE DEF A, R, r, z, f, g
    <2> QED
      BY <2>3, <2>4, <2>5, <2>6 DEF Fills
  <1>7. MovedFor(a, A) = Total(f, A) /\ MovedFor(a, A)' = Total(g, A)
    <2>1. A' = A
      BY DEF OfSide
    <2> QED
      BY DEF MovedFor
  <1>8. Total(z, R) \in Nat /\ Total(f, A) \in Nat
    <2>1. \A c \in A : f[c] \in Nat
      BY <1>3 DEF OfSide
    <2> HIDE DEF A, R, r, z, f, g
    <2>2. \A i \in R : z[i] \in Nat
      BY <1>6 DEF Fills
    <2> QED
      BY <1>1, <1>2, <2>1, <2>2, TotalType
  <1>9. ASSUME NEW other, other # side
        PROVE  MovedFor(a, OfSide(other))' = MovedFor(a, OfSide(other))
    <2>1. \A o \in OfSide(other) : effect'[o] = effect[o]
      BY <1>5, <1>9 DEF OfSide, RowSide
    <2>2. \A o \in OfSide(other) : Moved(o)' = Moved(o)
      BY <2>1, MovedStays
    <2>3. OfSide(other)' = OfSide(other)
      BY DEF OfSide
    <2> QED
      BY <2>2, <2>3 DEF MovedFor
  <1> HIDE DEF A, R, r, z, f, g
  <1>10. Total(g, A) = Total(f, A) + Total(z, R)
    BY <1>1, <1>2, <1>6, TotalFilled
  <1> QED
    BY <1>7, <1>8, <1>9, <1>10 DEF A, R, z

\* The lots the rows of b open give each owner what the rows mean to move.
LEMMA NewLotsGive ==
  ASSUME Typed, NEW b \in Bookers, RowsSound(b), NEW base \in Seq(Lot), NEW a \in Owners
  PROVE  SharesOf(base \o Bought(b), a)
           = SharesOf(base, a) + Total(RowSize(b, a), RowSide(b, "BUY"))
  <1> DEFINE rows == booker[b].rows
             n == Len(rows)
             P == RowSide(b, "BUY")
             z == RowSize(b, a)
  <1>1. /\ n \in Nat /\ DOMAIN rows = 1 .. n
        /\ \A i \in 1 .. n : rows[i].order \in Orders /\ rows[i].owner \in Owners
    BY RowsAre
  <1>2. P = {i \in 1 .. n : OrderOf[rows[i].order].side = "BUY"}
    BY <1>1 DEF RowSide
  <1>3. ASSUME NEW i \in P
        PROVE  z[i] = IF a = rows[i].owner THEN OrderOf[rows[i].order].shares ELSE 0
    <2>1. /\ i \in DOMAIN rows /\ OrderOf[rows[i].order].side = "BUY"
          /\ MoveFits(plan[b].moves[i], rows[i].order, rows[i].owner)
      BY <1>1, <1>2 DEF RowsSound
    <2>2. z[i] = plan[b].moves[i][a]
      BY <2>1 DEF RowSize, Size
    <2> QED
      BY <2>1, <2>2 DEF MoveFits
  <1> HIDE DEF P, z
  <1>4. PICK g \in [0 .. n -> Seq(Lot)] :
           /\ g[0] = <<>> /\ Bought(b) = g[n]
           /\ \A i \in 1 .. n : g[i] = IF OrderOf[rows[i].order].side = "BUY"
                                       THEN Append(g[i - 1], OpenedLot(b, i)) ELSE g[i - 1]
    BY OpenedIs
  <1> HIDE DEF n, rows
  <1> DEFINE s == [k \in 0 .. n |-> SharesOf(base \o g[k], a)]
  <1>5. \A k \in 0 .. n : g[k] \in Seq(Lot) /\ base \o g[k] \in Seq(Lot)
    BY <1>4, ConcatProperties
  <1>6. \A k \in 0 .. n : s[k] = SharesOf(base \o g[k], a) /\ s[k] \in Nat
    BY <1>5, SharesType
  <1> HIDE DEF s
  <1>7. \A i \in 1 .. n : i \in 0 .. n /\ i - 1 \in 0 .. n
    BY <1>1
  <1>8. ASSUME NEW i \in 1 .. n, i \in P PROVE z[i] \in Nat /\ s[i] = s[i - 1] + z[i]
    <2> DEFINE o == rows[i].order
               owner == rows[i].owner
               ls == base \o g[i - 1]
               e == OpenedLot(b, i)
    <2>1. OrderOf[o].side = "BUY" /\ o \in Orders /\ owner \in Owners
      BY <1>1, <1>2, <1>8
    <2>2. OrderOf[o].shares \in Nat
      BY <2>1, FillConstants DEF OrderType
    <2>3. g[i] = Append(g[i - 1], e)
      BY <1>4, <2>1
    <2>4. e = [owner |-> owner, open |-> OrderOf[o].shares]
      BY DEF OpenedLot, rows
    <2>5. e \in Lot
      BY <2>1, <2>2, <2>4 DEF Lot
    <2>6. g[i - 1] \in Seq(Lot) /\ ls \in Seq(Lot)
      BY <1>5, <1>7
    <2> DEFINE t == g[i - 1]
    <2> HIDE DEF e, t, o, owner
    <2>7. base \o Append(t, e) = Append(base \o t, e)
      <3>1. t \in Seq(Lot) /\ <<e>> \in Seq(Lot)
        BY <2>5, <2>6 DEF t
      <3>2. Append(t, e) = t \o <<e>> /\ Append(base \o t, e) = (base \o t) \o <<e>>
        BY <2>5, <3>1, AppendIsConcat, ConcatProperties
      <3>3. (base \o t) \o <<e>> = base \o (t \o <<e>>)
        BY <3>1, ConcatAssociative
      <3> QED
        BY <3>2, <3>3
    <2>8. base \o g[i] = Append(ls, e)
      BY <2>3, <2>7 DEF t
    <2>9. Booked(ls, o, owner) = Append(ls, e)
      BY <2>1, <2>4 DEF Booked
    <2> HIDE DEF ls
    <2>10. SharesOf(Booked(ls, o, owner), a)
             = SharesOf(ls, a) + IF a = owner THEN OrderOf[o].shares ELSE 0
      BY <2>1, <2>6, BoughtShares
    <2>11. z[i] = IF a = owner THEN OrderOf[o].shares ELSE 0
      BY <1>3, <1>8 DEF o, owner
    <2>12. s[i] = SharesOf(base \o g[i], a) /\ s[i - 1] = SharesOf(ls, a)
      BY <1>6, <1>7 DEF ls
    <2> QED
      BY <2>2, <2>8, <2>9, <2>10, <2>11, <2>12
  <1>9. ASSUME NEW i \in 1 .. n, i \notin P PROVE s[i] = s[i - 1]
    <2>1. g[i] = g[i - 1]
      BY <1>1, <1>2, <1>4, <1>9
    <2> QED
      BY <1>6, <1>7, <2>1
  <1>10. P \in SUBSET (1 .. n)
    BY <1>2
  <1> DEFINE R == {}
  <1>11. Books(n, s, P, R, z)
    BY <1>6, <1>8, <1>9, <1>10 DEF Books
  <1>12. Total(z, R) = 0
    BY TotalOfNone
  <1> HIDE DEF R
  <1>13. s[n] + Total(z, R) = s[0] + Total(z, P)
    BY <1>1, <1>11, BooksBalance
  <1>14. s[n] = SharesOf(base \o Bought(b), a) /\ s[0] = SharesOf(base, a) /\ s[n] \in Nat
    <2>1. base \o g[0] = base
      BY <1>4, ConcatEmptySeq
    <2>2. n \in 0 .. n /\ 0 \in 0 .. n
      BY <1>1
    <2> QED
      BY <1>4, <1>6, <2>1, <2>2
  <1> QED
    BY <1>12, <1>13, <1>14 DEF P, z

\* The last write leaves the lots as they were planned.
LEMMA UpdatedAs ==
  ASSUME LotsInv, KeepsNewLots, NEW b \in Bookers, booker[b].step = "lots",
         lots = plan[b].sheet \o Bought(b)
  PROVE  [j \in DOMAIN lots |-> IF j \in Updated(b) THEN plan[b].after[j] ELSE lots[j]]
           = plan[b].after
  <1> DEFINE sheet == plan[b].sheet
             after == plan[b].after
             new   == Bought(b)
  <1>1. /\ sheet \in Seq(Lot) /\ after \in Seq(Lot) /\ new \in Seq(Lot)
        /\ Len(sheet) <= Len(after) /\ Typed
    BY BoughtTyped DEF LotsInv, FulfilInv, DataTyped, PlanFits, PlanState
  <1>2. /\ DOMAIN sheet = 1 .. Len(sheet) /\ Len(sheet) \in Nat
        /\ DOMAIN after = 1 .. Len(after) /\ Len(after) \in Nat
        /\ DOMAIN new = 1 .. Len(new) /\ Len(new) \in Nat
    BY <1>1, LenProperties
  <1>3. SubSeq(after, Len(sheet) + 1, Len(after)) = new
    BY DEF KeepsNewLots
  <1> HIDE DEF sheet, after, new
  <1>4. /\ Len(new) = Len(after) - Len(sheet)
        /\ \A k \in 1 .. Len(new) : new[k] = after[Len(sheet) + k]
    <2> DEFINE m == Len(sheet) + 1
               n == Len(after)
    <2>1. m \in Int /\ n \in Int /\ \A i \in m .. n : after[i] \in Lot
      BY <1>1, <1>2, LotsAre
    <2>2. SubSeq(after, m, n) = new
      BY <1>3
    <2> HIDE DEF m, n
    <2>3. /\ Len(new) = IF m <= n THEN n - m + 1 ELSE 0
          /\ \A k \in 1 .. n - m + 1 : new[k] = after[m + k - 1]
      BY <2>1, <2>2, SubSeqProperties
    <2>4. Len(new) = Len(after) - Len(sheet)
      <3>1. \A p, q \in Nat : p <= q =>
               (IF p + 1 <= q THEN q - (p + 1) + 1 ELSE 0) = q - p
        OBVIOUS
      <3>2. Len(new) = IF Len(sheet) + 1 <= Len(after) THEN Len(after) - (Len(sheet) + 1) + 1 ELSE 0
        BY <2>3 DEF m, n
      <3> QED
        BY <1>1, <1>2, <3>1, <3>2
    <2>5. ASSUME NEW k \in 1 .. Len(new) PROVE new[k] = after[Len(sheet) + k]
      <3>1. k \in 1 .. n - m + 1 /\ m + k - 1 = Len(sheet) + k
        BY <1>1, <1>2, <2>4 DEF m, n
      <3> QED
        BY <2>3, <3>1
    <2> QED
      BY <2>4, <2>5
  <1>5. /\ DOMAIN lots = 1 .. Len(sheet) + Len(new)
        /\ \A j \in 1 .. Len(sheet) : lots[j] = sheet[j]
        /\ \A j \in Len(sheet) + 1 .. Len(sheet) + Len(new) : lots[j] = new[j - Len(sheet)]
    <2>1. lots = sheet \o new
      BY DEF sheet, new
    <2>2. /\ Len(sheet \o new) = Len(sheet) + Len(new) /\ sheet \o new \in Seq(Lot)
          /\ \A i \in 1 .. Len(sheet) + Len(new) :
                (sheet \o new)[i] = IF i <= Len(sheet) THEN sheet[i] ELSE new[i - Len(sheet)]
      BY <1>1, ConcatProperties
    <2>3. DOMAIN lots = 1 .. Len(sheet) + Len(new)
      BY <2>1, <2>2, LenProperties
    <2>4. \A j \in 1 .. Len(sheet) : lots[j] = sheet[j]
      BY <1>2, <2>1, <2>2
    <2>5. \A j \in Len(sheet) + 1 .. Len(sheet) + Len(new) : lots[j] = new[j - Len(sheet)]
      <3>1. \A j \in Len(sheet) + 1 .. Len(sheet) + Len(new) :
               j \in 1 .. Len(sheet) + Len(new) /\ ~(j <= Len(sheet))
        BY <1>2
      <3> QED
        BY <2>1, <2>2, <3>1
    <2> QED
      BY <2>3, <2>4, <2>5
  <1>6. DOMAIN lots = DOMAIN after
    <2>1. Len(sheet) + Len(new) = Len(after)
      <3>1. \A p, q \in Nat : p + (q - p) = q
        OBVIOUS
      <3> QED
        BY <1>2, <1>4, <3>1
    <2> QED
      BY <1>2, <1>5, <2>1
  <1>7. ASSUME NEW j \in DOMAIN lots
        PROVE  (IF j \in Updated(b) THEN after[j] ELSE lots[j]) = after[j]
    <2>1. CASE j \in 1 .. Len(sheet)
      <3>1. j \notin Updated(b) => after[j] = sheet[j]
        BY <1>2, <2>1 DEF Updated, after, sheet
      <3> QED
        BY <1>5, <2>1, <3>1
    <2>2. CASE j \in Len(sheet) + 1 .. Len(sheet) + Len(new)
      <3>1. j - Len(sheet) \in 1 .. Len(new) /\ Len(sheet) + (j - Len(sheet)) = j
        BY <1>2, <2>2
      <3> QED
        BY <1>4, <1>5, <2>2, <3>1
    <2> QED
      BY <1>2, <1>5, <2>1, <2>2
  <1>8. after = [j \in DOMAIN after |-> after[j]]
    BY <1>1, <1>2, SeqDef
  <1> QED
    BY <1>6, <1>7, <1>8 DEF after

\* No write undoes another: the balance of the Lots tab is kept.
LEMMA BalanceStep ==
  ASSUME QueueInv, \A b \in Bookers : PlanSound(b), LotsFollowTrades, KeepsNewLots,
         LotsBalance, [Next]_vars
  PROVE  LotsBalance'
  <1>0. LotsInv /\ Typed /\ lots \in Seq(Lot)
    BY DEF QueueInv, LotsInv, FulfilInv, DataTyped
  <1>1. Purchases = OfSide("BUY") /\ Sales = OfSide("SELL")
    BY DEF Purchases, Sales, OfSide
  <1>2. Purchases' = Purchases /\ Sales' = Sales
    BY DEF Purchases, Sales
  <1> SUFFICES ASSUME NEW a \in Owners
               PROVE  SharesOf(lots', a) + MovedFor(a, Sales)'
                        = SharesOf(InitialLots, a) + MovedFor(a, Purchases)'
    BY <1>2 DEF LotsBalance, SharesOf, OpenIn
  <1>3. /\ SharesOf(lots, a) + MovedFor(a, Sales) = SharesOf(InitialLots, a) + MovedFor(a, Purchases)
        /\ SharesOf(lots, a) \in Nat /\ SharesOf(InitialLots, a) \in Nat
    BY <1>0, FillConstants, SharesType DEF LotsBalance
  <1>4. MovedFor(a, Sales) \in Nat
    BY <1>1, MovedForType DEF OfSide
  <1>5. CASE UNCHANGED <<lots, effect>>
    <2>1. \A o : Moved(o)' = Moved(o)
      BY <1>5, MovedStays
    <2>2. MovedFor(a, Sales)' = MovedFor(a, Sales) /\ MovedFor(a, Purchases)' = MovedFor(a, Purchases)
      BY <1>2, <2>1 DEF MovedFor
    <2> QED
      BY <1>3, <1>5, <2>2
  <1>6. ASSUME NEW b \in Bookers, Writes(b, "BUY"), lots' = lots \o Bought(b)
        PROVE  SharesOf(lots', a) + MovedFor(a, Sales)'
                 = SharesOf(InitialLots, a) + MovedFor(a, Purchases)'
    <2>1. RowsSound(b)
      BY <1>6 DEF PlanSound, Planned, Writes
    <2>2. SharesOf(lots', a) = SharesOf(lots, a) + Total(RowSize(b, a), RowSide(b, "BUY"))
      BY <1>0, <1>6, <2>1, NewLotsGive
    <2>3. /\ Total(RowSize(b, a), RowSide(b, "BUY")) \in Nat /\ MovedFor(a, Purchases) \in Nat
          /\ MovedFor(a, Purchases)'
               = MovedFor(a, Purchases) + Total(RowSize(b, a), RowSide(b, "BUY"))
          /\ MovedFor(a, Sales)' = MovedFor(a, Sales)
      BY <1>1, <1>6, SumsMove
    <2> QED
      BY <1>3, <1>4, <2>2, <2>3
  <1>7. ASSUME NEW b \in Bookers, Writes(b, "SELL"),
               lots' = [j \in DOMAIN lots |->
                          IF j \in Updated(b) THEN plan[b].after[j] ELSE lots[j]]
        PROVE  SharesOf(lots', a) + MovedFor(a, Sales)'
                 = SharesOf(InitialLots, a) + MovedFor(a, Purchases)'
    <2>1. /\ booker[b].step = "lots" /\ RowsSound(b) /\ PlanBalances(b)
          /\ lots = plan[b].sheet \o Bought(b)
      BY <1>7 DEF PlanSound, Planned, Writes
    <2>2. lots' = plan[b].after
      BY <1>0, <1>7, <2>1, UpdatedAs
    <2>3. plan[b].sheet \in Seq(Lot) /\ plan[b].after \in Seq(Lot)
      BY <1>0 DEF LotsInv, PlanFits, PlanState
    <2>4. SharesOf(lots, a)
            = SharesOf(plan[b].sheet, a) + Total(RowSize(b, a), RowSide(b, "BUY"))
      BY <1>0, <2>1, <2>3, NewLotsGive
    <2>5. SharesOf(lots', a) + Total(RowSize(b, a), RowSide(b, "SELL"))
            = SharesOf(plan[b].sheet, a) + Total(RowSize(b, a), RowSide(b, "BUY"))
      BY <2>1, <2>2 DEF PlanBalances
    <2>6. SharesOf(lots', a) \in Nat
      BY <2>2, <2>3, SharesType
    <2>7. /\ Total(RowSize(b, a), RowSide(b, "SELL")) \in Nat /\ MovedFor(a, Sales) \in Nat
          /\ MovedFor(a, Sales)' = MovedFor(a, Sales) + Total(RowSize(b, a), RowSide(b, "SELL"))
          /\ MovedFor(a, Purchases)' = MovedFor(a, Purchases)
      BY <1>1, <1>7, SumsMove
    <2>8. SharesOf(lots', a) + Total(RowSize(b, a), RowSide(b, "SELL")) = SharesOf(lots, a)
      BY <2>4, <2>5
    <2> QED
      BY <1>3, <2>6, <2>7, <2>8
  <1> QED
    BY <1>0, <1>5, <1>6, <1>7, SomeWrites

-----------------------------------------------------------------------------
SoundInv ==
    QueueInv /\ (\A b \in Bookers : PlanSound(b)) /\ LotsFollowTrades /\ NamedSaleTakesOwnLots

LEMMA SoundInit == Init => SoundInv /\ LotsBalance
  <1> SUFFICES ASSUME Init PROVE SoundInv /\ LotsBalance
    OBVIOUS
  <1>1. \A b \in Bookers : PlanSound(b)
    BY IdleTyped DEF Init, PlanSound, Planned
  <1>2. \A o \in Orders : \A a \in Owners : effect[o][a] = 0
    BY DEF Init
  <1>3. \A o \in Orders : \A a \in Owners : Moved(o)[a] = 0
    BY <1>2 DEF Moved
  <1>4. ASSUME NEW f, NEW S, \A c \in S : f[c] = 0 PROVE Total(f, S) = 0
    <2>1. Units(f, S) = {}
      BY <1>4 DEF Units
    <2> QED
      BY <2>1, FS_EmptySet DEF Total
  <1>5. LotsFollowTrades
    <2>1. \A o \in Orders : Total(Moved(o), Owners) = 0
      BY <1>3, <1>4
    <2> QED
      BY <1>3, <2>1 DEF LotsFollowTrades
  <1>6. NamedSaleTakesOwnLots
    BY <1>2 DEF NamedSaleTakesOwnLots
  <1>7. LotsBalance
    <2> SUFFICES ASSUME NEW a \in Owners
                 PROVE  SharesOf(lots, a) + MovedFor(a, Sales)
                          = SharesOf(InitialLots, a) + MovedFor(a, Purchases)
      BY DEF LotsBalance
    <2>1. ASSUME NEW S \in SUBSET Orders PROVE MovedFor(a, S) = 0
      <3> DEFINE f == [o \in S |-> Moved(o)[a]]
      <3>1. \A o \in S : f[o] = 0
        BY <1>3
      <3> HIDE DEF f
      <3>2. Total(f, S) = 0
        BY <1>4, <3>1
      <3> QED
        BY <3>2 DEF MovedFor, f
    <2>2. Sales \in SUBSET Orders /\ Purchases \in SUBSET Orders
      BY DEF Sales, Purchases
    <2> QED
      BY <2>1, <2>2 DEF Init
  <1> QED
    BY <1>1, <1>5, <1>6, <1>7, QueueInit DEF SoundInv

LEMMA SoundInvStep ==
  ~LockMayExpire /\ EnforceOwnership /\ SoundInv /\ [Next]_vars => SoundInv'
  BY QueueStep, SoundStep, AgreeStep DEF SoundInv

\* Order by order, the lots move once, all one way, by exactly the shares of
\* the order or not at all, only for an order in the Trade Ledger, and a sale
\* booked for a strategy takes nothing of another's (applyFillToLots,
\* planFillProcessing): whatever write fails, is lost or is repeated, and in
\* whatever batches the fills come.
THEOREM LotsFollowTradesHolds ==
  ASSUME ~LockMayExpire, EnforceOwnership
  PROVE  Spec => [](LotsFollowTrades /\ NamedSaleTakesOwnLots)
  <1>1. SoundInv /\ [Next]_vars => SoundInv'
    BY SoundInvStep
  <1>2. SoundInv => LotsFollowTrades /\ NamedSaleTakesOwnLots
    BY DEF SoundInv
  <1> QED
    BY <1>1, <1>2, SoundInit, PTL DEF Spec

\* As long as no sale of a batch takes from a lot the same batch opened, whose
\* update has no row to go to (holdings-sync.js), the Lots tab agrees with the
\* Trade Ledger, order by order and owner by owner.
THEOREM LotsAgreeHolds ==
  ASSUME ~LockMayExpire, EnforceOwnership
  PROVE  Spec /\ []KeepsNewLots => []LotsAgree
  <1>1. SoundInv /\ [Next]_vars => SoundInv'
    BY SoundInvStep
  <1>2. SoundInv /\ LotsBalance /\ KeepsNewLots /\ [Next]_vars => LotsBalance'
    BY BalanceStep DEF SoundInv
  <1>3. SoundInv /\ LotsBalance => LotsAgree
    BY DEF SoundInv, LotsAgree
  <1> QED
    BY <1>1, <1>2, <1>3, SoundInit, PTL DEF Spec

=============================================================================
