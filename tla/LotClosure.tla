------------------------------ MODULE LotClosure ------------------------------
(***************************************************************************)
(* What the maintainer closes by hand, and what stays on record of it:     *)
(*   - scripts/close-broker-zero-lot.js zeroes a lot the broker no longer  *)
(*     holds, in five durable steps, while the holdings sync sells from it;*)
(*   - a sale that no lot covers is a signed record in the open set, until *)
(*     a signed resolution takes it out;                                   *)
(*   - an unsigned approval of the past is attested and rejected.          *)
(* A script takes one step between two awaits; it may fail or die at each  *)
(* of them, and is then run again.                                         *)
(***************************************************************************)
EXTENDS Integers, FiniteSets

CONSTANTS
    Closers,        \* processes of the closing script
    Orders,         \* orders whose sale no lot covers
    MaxShares,      \* shares of the lot
    MaxSlips        \* bound: failed calls, dead processes, expired locks

VARIABLES
    lot,            \* the row of Lots: open shares, and the version its HMAC signs
    atBroker,       \* the Holdings row of its ticker, and whether the snapshot is recent
    record,         \* pm:lot-reconciliation:<id>
    openLots,       \* pm:lot-reconciliation:open
    locks,          \* the holdings-sync and accounting locks, held together
    script,         \* [Closers -> the closing script]
    sync,           \* a sale of the holdings sync
    queue,          \* [Orders -> what is stored of a mismatch]
    approval,       \* the unsigned approval and its attestation
    slips, expired,
    zeroed          \* shares the script's write took out of the lot
closing == <<lot, atBroker, record, openLots, locks, script, sync, expired, zeroed>>
closureVars == <<closing, queue, approval, slips>>

None == [status |-> "none", shares |-> 0, version |-> 0]
Free == "free"
Idle == [pc |-> "idle", expected |-> 1, commit |-> FALSE, lot |-> [shares |-> 0, version |-> 0], recovered |-> FALSE]
Unrecorded == [stored |-> FALSE, open |-> FALSE, known |-> FALSE, resolution |-> FALSE, pc |-> "idle"]

\* a lot has whole shares, and what stands for no holder, or for the sync, is no script
ASSUME ClosureAssumption == MaxShares \in Nat /\ Free \notin Closers /\ "sync" \notin Closers

ClosureInit ==
    /\ lot = [shares |-> MaxShares, version |-> 1] /\ atBroker \in [shares : 0..1, fresh : BOOLEAN]
    /\ record = None /\ openLots = FALSE /\ locks = Free
    /\ script = [c \in Closers |-> Idle] /\ sync = [pc |-> "idle", lot |-> [shares |-> 0, version |-> 0]]
    /\ queue = [o \in Orders |-> Unrecorded]
    /\ approval = [status |-> "approved", attested |-> FALSE, pc |-> "idle"]
    /\ slips = 0 /\ expired = FALSE /\ zeroed = 0

Works == UNCHANGED slips
Fails == slips < MaxSlips /\ slips' = slips + 1

-----------------------------------------------------------------------------
(* The closing script.                                                     *)
At(c, pc) == script[c].pc = pc
To(c, pc) == script' = [script EXCEPT ![c].pc = pc]
Stops(c) == script' = [script EXCEPT ![c] = Idle] /\ locks' = IF locks = c THEN Free ELSE locks
(* A failed call throws through both locks; a dead process leaves them.    *)
Throws(c) == Fails /\ Stops(c)
ScriptDies(c) ==
    /\ script[c].pc # "idle" /\ Fails /\ script' = [script EXCEPT ![c] = Idle]
    /\ UNCHANGED <<lot, atBroker, record, openLots, locks, sync, expired, zeroed>>

WithWorkflowLock(c) ==
    /\ At(c, "idle") /\ locks = Free /\ Works /\ locks' = c
    /\ \E expected \in 1..MaxShares, commit \in BOOLEAN :
          script' = [script EXCEPT ![c] = [Idle EXCEPT !.pc = "lots", !.expected = expected, !.commit = commit]]
    /\ UNCHANGED <<lot, atBroker, record, openLots, sync, expired, zeroed>>
ReadAllLots(c) ==
    /\ At(c, "lots")
    /\ \/ Works /\ script' = [script EXCEPT ![c].lot = lot, ![c].pc = "plan"] /\ UNCHANGED locks
       \/ Throws(c)
    /\ UNCHANGED <<lot, atBroker, record, openLots, sync, expired, zeroed>>

(* A recent snapshot of the holdings in which the broker has none of it.   *)
AssertBrokerZeroHoldingSnapshot == atBroker.fresh /\ atBroker.shares = 0
PlanBrokerZeroLotClosure(c) ==
    script[c].lot.shares > 0 /\ script[c].lot.shares = script[c].expected /\ AssertBrokerZeroHoldingSnapshot
Recovers(c) == record.status = "attempted" /\ script[c].lot.shares = 0
Plan(c) ==
    /\ At(c, "plan")
    /\ \/ /\ Works
          /\ IF Recovers(c) /\ record.shares = script[c].expected /\ script[c].commit
             THEN script' = [script EXCEPT ![c].pc = "apply", ![c].recovered = TRUE] /\ UNCHANGED locks
             ELSE IF ~Recovers(c) /\ PlanBrokerZeroLotClosure(c) /\ script[c].commit
             THEN To(c, "begin") /\ UNCHANGED locks
             ELSE Stops(c)
       \/ Throws(c)
    /\ UNCHANGED <<lot, atBroker, record, openLots, sync, expired, zeroed>>

(* The record is written once; a rerun must find the same lot in it.       *)
BeginLotReconciliation(c) ==
    /\ At(c, "begin")
    /\ LET planned == [status |-> "pending", shares |-> script[c].lot.shares, version |-> script[c].lot.version]
       IN  \/ /\ Works
              /\ CASE record = None -> record' = planned /\ To(c, "enlist") /\ UNCHANGED locks
                   [] record # None /\ [record EXCEPT !.status = "pending"] = planned ->
                         To(c, "attempt") /\ UNCHANGED <<record, locks>>
                   [] OTHER -> Stops(c) /\ UNCHANGED record
           \/ /\ Throws(c) /\ record' \in {record} \cup (IF record = None THEN {planned} ELSE {})
    /\ UNCHANGED <<lot, atBroker, openLots, sync, expired, zeroed>>
Enlist(c) ==
    /\ At(c, "enlist")
    /\ \/ Works /\ To(c, "attempt") /\ openLots' = TRUE /\ UNCHANGED locks
       \/ Throws(c) /\ UNCHANGED openLots
    /\ UNCHANGED <<lot, atBroker, record, sync, expired, zeroed>>
MarkLotReconciliationSheetWriteAttempted(c) ==
    /\ At(c, "attempt")
    /\ \/ Works /\ To(c, "write") /\ UNCHANGED locks
          /\ record' = IF record.status = "pending" THEN [record EXCEPT !.status = "attempted"] ELSE record
       \/ Throws(c) /\ record' \in {record, [record EXCEPT !.status = IF @ = "pending" THEN "attempted" ELSE @]}
    /\ UNCHANGED <<lot, atBroker, openLots, sync, expired, zeroed>>
(* A plausible slip: a failed write of the sheet is only logged.           *)
WriteBestEffort(c) ==
    /\ At(c, "write") /\ To(c, "apply")
    /\ \/ Works /\ lot' = [shares |-> 0, version |-> lot.version + 1] /\ zeroed' = zeroed + lot.shares
       \/ Fails /\ UNCHANGED <<lot, zeroed>>
    /\ UNCHANGED <<locks, atBroker, record, openLots, sync, expired>>
(* The row is found by its lot id and overwritten.                         *)
ApplyLotUpdatesToSheet(c) ==
    /\ At(c, "write")
    /\ \/ /\ lot' = [shares |-> 0, version |-> lot.version + 1] /\ zeroed' = zeroed + lot.shares
          /\ \/ Works /\ To(c, "apply") /\ UNCHANGED locks
             \/ Throws(c)
       \/ Throws(c) /\ UNCHANGED <<lot, zeroed>>
    /\ UNCHANGED <<atBroker, record, openLots, sync, expired>>
MarkLotReconciliationApplied(c) ==
    /\ At(c, "apply")
    /\ \/ /\ Works /\ record.status = "attempted" /\ record' = [record EXCEPT !.status = "applied"] /\ To(c, "delist")
          /\ UNCHANGED locks
       \/ Works /\ record.status # "attempted" /\ Stops(c) /\ UNCHANGED record
       \/ Throws(c) /\ record' \in {record} \cup
             {[r EXCEPT !.status = "applied"] : r \in {q \in {record} : q.status = "attempted"}}
    /\ UNCHANGED <<lot, atBroker, openLots, sync, expired, zeroed>>
Delist(c) ==
    /\ At(c, "delist")
    /\ \/ Works /\ Stops(c) /\ openLots' = FALSE
       \/ Throws(c) /\ UNCHANGED openLots
    /\ UNCHANGED <<lot, atBroker, record, sync, expired, zeroed>>

(* The holdings sync sells from the lot, under the same locks; its broker  *)
(* snapshot is of whenever it ran.                                         *)
SyncReads ==
    /\ sync.pc = "idle" /\ locks = Free /\ lot.shares > 0 /\ locks' = "sync" /\ sync' = [pc |-> "write", lot |-> lot] /\ Works
    /\ UNCHANGED <<lot, atBroker, record, openLots, script, expired, zeroed>>
SyncWrites ==
    /\ sync.pc = "write" /\ Works
    /\ \E sold \in 1..sync.lot.shares : lot' = [shares |-> sync.lot.shares - sold, version |-> lot.version + 1]
    /\ sync' = [sync EXCEPT !.pc = "idle"] /\ locks' = (IF locks = "sync" THEN Free ELSE locks)
    /\ \E fresh \in BOOLEAN : atBroker' = [shares |-> IF lot'.shares = 0 THEN 0 ELSE atBroker.shares, fresh |-> fresh]
    /\ UNCHANGED <<record, openLots, script, expired, zeroed>>
LockExpires ==
    /\ locks # Free /\ locks' = Free /\ UNCHANGED <<lot, atBroker, record, openLots, script, sync, zeroed>>
    /\ IF locks = "sync" \/ (locks \in Closers /\ script[locks].pc # "idle") THEN Fails /\ expired' = TRUE
       ELSE Works /\ UNCHANGED expired

Closing(c) ==
    \/ WithWorkflowLock(c) \/ ReadAllLots(c) \/ Plan(c) \/ BeginLotReconciliation(c) \/ Enlist(c)
    \/ MarkLotReconciliationSheetWriteAttempted(c) \/ ApplyLotUpdatesToSheet(c) \/ MarkLotReconciliationApplied(c)
    \/ Delist(c) \/ ScriptDies(c)

-----------------------------------------------------------------------------
(* A mismatch is stored and enlisted; only then is the caller told.        *)
RecordReconciliationNeeded(o) ==
    /\ ~queue[o].known /\ queue[o].pc = "idle"
    /\ \/ Works /\ queue' = [queue EXCEPT ![o].stored = TRUE, ![o].open = TRUE, ![o].known = TRUE]
       \/ \E stored \in BOOLEAN : Fails /\ queue' = [queue EXCEPT ![o].stored = stored \/ @]
(* A plausible slip: a failed resolution is only logged.                   *)
ResolveUnsigned(o) ==
    /\ queue[o].pc = "idle" /\ queue[o].stored
    /\ \/ Works /\ queue' = [queue EXCEPT ![o].resolution = TRUE, ![o].open = FALSE]
       \/ Fails /\ queue' = [queue EXCEPT ![o].open = FALSE]
(* resolveReconciliationTestArtifact: the signed resolution first, then    *)
(* the open set; a rerun with the same words finishes it.                  *)
Resolve(o) ==
    /\ queue[o].pc = "idle" /\ queue[o].stored
    /\ \/ Works /\ queue' = [queue EXCEPT ![o].resolution = TRUE, ![o].pc = "delist"]
       \/ \E stored \in BOOLEAN : Fails /\ queue' = [queue EXCEPT ![o].resolution = stored \/ @]
ResolveDelists(o) ==
    /\ queue[o].pc = "delist"
    /\ \/ Works /\ queue' = [queue EXCEPT ![o].open = FALSE, ![o].pc = "idle"]
       \/ Fails /\ queue' = [queue EXCEPT ![o].pc = "idle"]

(* closeLegacyTestApproval: the attestation, then the rejection.  A rerun  *)
(* that finds the attestation returns without the rejection.               *)
CloseLegacyTestApproval ==
    /\ approval.pc = "idle" /\ approval.status = "approved"
    /\ \/ Works /\ ~approval.attested /\ approval' = [approval EXCEPT !.attested = TRUE, !.pc = "reject"]
       \/ Works /\ approval.attested /\ UNCHANGED approval
       \/ Fails /\ ~approval.attested /\ approval' \in {approval, [approval EXCEPT !.attested = TRUE]}
RejectLegacy ==
    /\ approval.pc = "reject"
    /\ \/ Works /\ approval' = [approval EXCEPT !.status = "rejected", !.pc = "idle"]
       \/ Fails /\ approval' \in {[approval EXCEPT !.pc = "idle"], [approval EXCEPT !.status = "rejected", !.pc = "idle"]}

ClosureNext ==
    \/ (\E c \in Closers : Closing(c)) /\ UNCHANGED <<queue, approval>>
    \/ (SyncReads \/ SyncWrites \/ LockExpires) /\ UNCHANGED <<queue, approval>>
    \/ (\E o \in Orders : RecordReconciliationNeeded(o) \/ Resolve(o) \/ ResolveDelists(o)) /\ UNCHANGED <<closing, approval>>
    \/ (CloseLegacyTestApproval \/ RejectLegacy) /\ UNCHANGED <<closing, queue>>
ClosureSpec == ClosureInit /\ [][ClosureNext]_closureVars

-----------------------------------------------------------------------------
(* Shares leave a lot by hand only with a record that says so: what the    *)
(* script took out is what its signed record names, and a record counts as *)
(* applied only over a lot that is empty, wherever the script died and     *)
(* however often it ran (scripts/close-broker-zero-lot.js).  Excepted is a *)
(* run that outlives its locks.                                            *)
ClosureIsOnRecord ==
    \/ expired
    \/ /\ zeroed > 0 => record.status \in {"attempted", "applied"} /\ record.shares = zeroed
       /\ record.status = "applied" => lot.shares = 0

(* No trace disappears without signed evidence of why: a mismatch its      *)
(* caller was told is on record stays open until its resolution is stored, *)
(* and no legacy approval is rejected without its attestation              *)
(* (resolveReconciliationTestArtifact, closeLegacyTestApproval).           *)
EvidenceBeforeEffect ==
    /\ \A o \in Orders : queue[o].known /\ ~queue[o].open => queue[o].resolution
    /\ approval.status = "rejected" => approval.attested
===============================================================================
