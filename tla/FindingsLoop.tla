----------------------------- MODULE FindingsLoop -----------------------------
(***************************************************************************)
(* From the sentinel's anomalies to the findings ledger: the sentinel runs *)
(* twice an evening, pages what is new and urgent and publishes one        *)
(* snapshot per day; on the Mac a leased run merges the day's snapshot     *)
(* into the ledger and has the new findings classified, another writes the *)
(* weekly report, and a watch reports a silent sentinel                    *)
(* (jobs/system-sentinel.js, lib/sysloop/findings.js, the sysloop scripts). *)
(***************************************************************************)
EXTENDS SentinelChecks

CONSTANTS
    Anomalies,      \* what can be wrong, the severity included
    Runners,        \* processes that start a leased run
    Kinds,          \* among the leased runs "triage" of each day and "weekly" of the week
    MaxAttempts,    \* attempts at a period
    PageLimit,      \* urgent anomalies named in one message
    MaxDate, MaxSlips   \* bounds
(* Every check gives its anomaly one of the four severities.               *)
ASSUME AnomaliesAssumption == \A a \in Anomalies : a.severity \in {"P0", "P1", "P2", "P3"}

VARIABLES
    date, slot,      \* the ET date; "day", "first" and "final" sentinel, done
    snapshot,       \* pm:sysloop:snapshot:<day>
    prev,           \* prevAnomalyFingerprints
    paged,          \* present fingerprints a message has named since they came
    missed,         \* present fingerprints whose message failed or was too long
    ledger,         \* ops/findings on the Mac
    checkout,       \* the open P0 and P1 findings in the sentinel's checkout
    success,        \* [Kinds -> BOOLEAN]: the marker of the current period
    lock, attempts, \* the in-flight lock and the attempts of the period
    run,            \* [Runners -> a run]
    artifacts,      \* ops/proposed-* of the week
    watch,          \* the alert about a silent sentinel: "none", "sent", "lost"
    slips, expired, \* bound; locks that expired under a run
    unanswered,     \* history: findings of the day's merges no classification came back for
    lowered         \* history: runs and findings made less severe since the run merged
eveningVars == <<slot, snapshot, prev, paged, missed>>
leaseVars == <<success, lock, attempts, expired>>
workVars == <<unanswered, lowered>>
loopVars == <<date, eveningVars, ledger, checkout, leaseVars, run, artifacts, watch, slips, workVars>>

Fingerprints == {Fingerprint(a) : a \in Anomalies}
Urgent(a) == a.severity \in {"P0", "P1"}
NoFinding == [status |-> "none", severity |-> "P3"]
Open(f) == f.status \in {"open", "regressed", "ack"}
None == <<>>
Rest == [pc |-> "idle", kind |-> "triage", read |-> {}, new |-> {}, held |-> FALSE, verdicts |-> {}]

LoopInit ==
    /\ date = 1 /\ slot = "day" /\ snapshot = {None} /\ prev = {} /\ paged = {} /\ missed = {}
    /\ ledger = [f \in Fingerprints |-> NoFinding] /\ checkout = {}
    /\ success = [k \in Kinds |-> FALSE] /\ lock = [k \in Kinds |-> None] /\ attempts = [k \in Kinds |-> 0]
    /\ run = [r \in Runners |-> Rest] /\ artifacts = {} /\ watch = "none" /\ slips = 0 /\ expired = {}
    /\ unanswered = {} /\ lowered = {}

NoSlip == UNCHANGED slips
Slip == slips < MaxSlips /\ slips' = slips + 1

-----------------------------------------------------------------------------
(* The sentinel.  Open P0 and P1 findings of its checkout are anomalies    *)
(* too, with the finding's own fingerprint.                                *)
Tracked == {f.of : f \in {g \in checkout : Urgent(g.of)}}
Fresh(found) == {a \in found : Fingerprint(a) \notin prev}
(* Messages go out before the snapshot is published; a failed message is   *)
(* only logged, a failed publication fails the job.                        *)
RunSystemSentinel ==
    /\ slot \in {"day", "first"}
    /\ \E wrong \in SUBSET Anomalies : \E observed \in {wrong \cup Tracked} :
       \E urgent \in {{Fingerprint(a) : a \in {b \in Fresh(observed) : Urgent(b)}}}, present \in {{Fingerprint(a) : a \in observed}} :
       \E named \in SUBSET urgent, sent, published \in BOOLEAN :
          /\ Cardinality(named) = IF Cardinality(urgent) < PageLimit THEN Cardinality(urgent) ELSE PageLimit
          /\ IF sent /\ published THEN NoSlip ELSE Slip /\ (sent \/ urgent # {})
          /\ IF published
             THEN /\ snapshot' = observed /\ prev' = present
                  /\ paged' = (paged \cap present) \cup (IF sent THEN named ELSE {})
                  /\ missed' = (missed \cap present) \cup (IF sent THEN urgent \ named ELSE urgent)
             ELSE /\ paged' = (IF sent THEN paged \cup named ELSE paged)
                  /\ UNCHANGED <<snapshot, prev, missed>>
    /\ slot' = IF slot = "day" THEN "first" ELSE "final"
    /\ UNCHANGED <<date, ledger, checkout, leaseVars, run, artifacts, watch, workVars>>
(* The host is down for one of the day's runs.                              *)
SkipSentinel ==
    /\ slot \in {"day", "first"} /\ Slip /\ slot' = IF slot = "day" THEN "first" ELSE "final"
    /\ UNCHANGED <<date, snapshot, prev, paged, missed, ledger, checkout, leaseVars, run, artifacts, watch, workVars>>

(* The cross-watch claims its one alert of the day before it sends it.     *)
CrossWatch ==
    /\ slot # "day" /\ snapshot = {None} /\ watch = "none"
    /\ \/ NoSlip /\ watch' = "sent"
       \/ Slip /\ watch' = "lost"
    /\ UNCHANGED <<date, eveningVars, ledger, checkout, leaseVars, run, artifacts, workVars>>

-----------------------------------------------------------------------------
(* The lease of a run: a success marker, and a lock with a token that      *)
(* expires.                                                                *)
Owns(r) == run[r].held /\ lock[run[r].kind] = <<r>>
Goes(r, pc) == run' = [run EXCEPT ![r].pc = pc]
Ends(r) == run' = [run EXCEPT ![r] = Rest]
Busy(r) == run[r].pc # "idle"

ReadSuccess(r) ==
    /\ run[r].pc = "idle" /\ slot # "day"
    /\ \E k \in Kinds : ~success[k] /\ run' = [run EXCEPT ![r] = [Rest EXCEPT !.pc = "lock", !.kind = k]]
    /\ NoSlip /\ UNCHANGED <<date, eveningVars, ledger, checkout, leaseVars, artifacts, watch, workVars>>
TakeLock(r) ==
    /\ run[r].pc = "lock" /\ NoSlip
    /\ LET k == run[r].kind
       IN  IF lock[k] # None THEN Ends(r) /\ UNCHANGED lock
           ELSE lock' = [lock EXCEPT ![k] = <<r>>] /\ run' = [run EXCEPT ![r].pc = "cap", ![r].held = TRUE]
    /\ UNCHANGED <<date, eveningVars, ledger, checkout, success, attempts, expired, artifacts, watch, workVars>>
ReleaseAny(r) == lock' = [lock EXCEPT ![run[r].kind] = None]
(* Only the token that holds the lock releases it.                         *)
ReleaseLeaseLock(r) == lock' = IF Owns(r) THEN [lock EXCEPT ![run[r].kind] = None] ELSE lock
CountAttempt(r) ==
    /\ run[r].pc = "cap"
    /\ LET k == run[r].kind
       IN  \/ /\ NoSlip /\ attempts[k] >= MaxAttempts /\ Ends(r) /\ ReleaseLeaseLock(r) /\ UNCHANGED attempts
           \/ /\ NoSlip /\ attempts[k] < MaxAttempts /\ attempts' = [attempts EXCEPT ![k] = @ + 1]
              /\ Goes(r, IF k = "triage" THEN "read" ELSE "gather") /\ UNCHANGED lock
           \/ /\ Slip /\ Ends(r) /\ ReleaseLeaseLock(r) /\ UNCHANGED attempts
    /\ UNCHANGED <<date, eveningVars, ledger, checkout, success, expired, artifacts, watch, workVars>>
(* A run that is killed leaves its lock to expire; one that outlives it    *)
(* goes on without it.                                                     *)
Killed(r) ==
    /\ Busy(r) /\ Slip /\ Ends(r)
    /\ UNCHANGED <<date, eveningVars, ledger, checkout, leaseVars, artifacts, watch, workVars>>
LockExpires(k) ==
    /\ lock[k] # None /\ (~Busy(lock[k][1]) \/ run[lock[k][1]].kind # k \/ slips < MaxSlips)
    /\ LET r == lock[k][1]
           live == Busy(r) /\ run[r].kind = k
       IN  /\ expired' = IF live THEN expired \cup {r} ELSE expired
           /\ IF live THEN Slip ELSE NoSlip
    /\ lock' = [lock EXCEPT ![k] = None]
    /\ UNCHANGED <<date, eveningVars, ledger, checkout, success, attempts, run, artifacts, watch, workVars>>
CompleteAny(r) == success' = [success EXCEPT ![run[r].kind] = TRUE] /\ ReleaseAny(r)
(* The marker of completed work, in one script with the release.           *)
CompleteRunLease(r) ==
    IF Owns(r) THEN success' = [success EXCEPT ![run[r].kind] = TRUE] /\ ReleaseLeaseLock(r)
    ELSE UNCHANGED <<success, lock>>
Finish(r) ==
    /\ run[r].pc \in {"complete", "abandon"}
    /\ \/ /\ NoSlip /\ Ends(r) /\ expired' = expired \ {r}
          /\ IF run[r].pc = "complete" THEN CompleteRunLease(r) ELSE ReleaseLeaseLock(r) /\ UNCHANGED success
       \/ Slip /\ Ends(r) /\ expired' = expired \ {r} /\ UNCHANGED <<success, lock>>
    /\ UNCHANGED <<date, eveningVars, ledger, checkout, attempts, artifacts, watch, workVars>>

-----------------------------------------------------------------------------
(* Triage.                                                                 *)
ReadSnapshot(r) ==
    /\ run[r].pc = "read"
    /\ \/ /\ NoSlip
          /\ IF snapshot = {None} THEN Goes(r, "abandon") ELSE run' = [run EXCEPT ![r].pc = "merge", ![r].read = snapshot]
       \/ Slip /\ Goes(r, "abandon")
    /\ UNCHANGED <<date, eveningVars, ledger, checkout, leaseVars, artifacts, watch, workVars>>

Severer(s, t) == IF Rank(s) < Rank(t) THEN s ELSE t
BumpSeverity(s) == IF s = "P0" THEN "P0" ELSE Severities[Rank(s) - 1]
(* The first of a fingerprint counts; runChecks has put the severest first. *)
First(found) == CHOOSE a \in found : \A b \in found : Rank(a.severity) <= Rank(b.severity)
(* One finding per fingerprint: its severity only rises, and a fixed one   *)
(* that reappears regresses, one severity higher.                          *)
Merged(f, found) ==
    LET severity == First(found).severity
        worse == Severer(severity, f.severity)
    IN  CASE found = {} -> f
          [] found # {} /\ f.status = "none" -> [status |-> "open", severity |-> severity]
          [] found # {} /\ f.status = "fixed" -> [f EXCEPT !.status = "regressed", !.severity = BumpSeverity(worse)]
          [] OTHER -> [f EXCEPT !.severity = worse]
(* Merging only the findings S: the whole of it, or what a killed run got  *)
(* to, file by file.                                                       *)
Merge(r, S) ==
    LET of(f) == {a \in run[r].read : Fingerprint(a) = f}
        found == {f \in S : of(f) # {}}
        new == {f \in found : ledger[f].status \in {"none", "fixed"}}
    IN  /\ ledger' = [f \in Fingerprints |-> IF f \in S THEN Merged(ledger[f], of(f)) ELSE ledger[f]]
        /\ unanswered' = unanswered \cup new /\ lowered' = {l \in lowered : l[1] # r}
        /\ run' = [run EXCEPT ![r] = IF S # Fingerprints THEN Rest
                                     ELSE [@ EXCEPT !.pc = IF new = {} THEN "complete" ELSE "classify", !.new = new]]
UpsertFindings(r) ==
    /\ run[r].pc = "merge"
    /\ \/ NoSlip /\ Merge(r, Fingerprints)
       \/ Slip /\ \E S \in SUBSET Fingerprints \ {Fingerprints} : Merge(r, S)
    /\ UNCHANGED <<date, eveningVars, checkout, leaseVars, artifacts, watch>>
(* What the model says of a new finding is text; its call may fail, and a  *)
(* later attempt finds nothing new to ask about.                           *)
Classify(r) ==
    /\ run[r].pc = "classify"
    /\ \/ NoSlip /\ Goes(r, "complete") /\ unanswered' = unanswered \ run[r].new
       \/ Slip /\ Goes(r, "abandon") /\ UNCHANGED unanswered
    /\ UNCHANGED <<date, eveningVars, ledger, checkout, leaseVars, artifacts, watch, lowered>>

(* The weekly report: proposals, a skeptic that can only demote, and what  *)
(* it did not reject, CONFIRMED or PLAUSIBLE, written down; when it fails, *)
(* all of it as PLAUSIBLE.                                                 *)
Research(r) ==
    /\ run[r].pc = "gather"
    /\ \/ NoSlip /\ Goes(r, "skeptic")
       \/ NoSlip /\ Goes(r, "complete") /\ snapshot = {None} /\ \A f \in Fingerprints : ~Open(ledger[f])
       \/ Slip /\ Goes(r, "abandon")
    /\ UNCHANGED <<date, eveningVars, ledger, checkout, leaseVars, artifacts, watch, workVars>>
Skeptic(r) ==
    /\ run[r].pc = "skeptic"
    /\ \/ \E v \in {"kept", "REJECT"} : NoSlip /\ run' = [run EXCEPT ![r].pc = "write", ![r].verdicts = {v}]
       \/ Slip /\ run' = [run EXCEPT ![r].pc = "write", ![r].verdicts = {"kept"}]
    /\ UNCHANGED <<date, eveningVars, ledger, checkout, leaseVars, artifacts, watch, workVars>>
WriteArtifacts(r) ==
    /\ run[r].pc = "write" /\ NoSlip /\ Goes(r, "complete")
    /\ artifacts' = artifacts \cup (run[r].verdicts \ {"REJECT"})
    /\ UNCHANGED <<date, eveningVars, ledger, checkout, leaseVars, watch, workVars>>

-----------------------------------------------------------------------------
(* The maintainer edits the status and the severity of findings and        *)
(* deploys the ledger.                                                     *)
Done == {r \in Runners : run[r].kind = "triage" /\ run[r].pc \in {"classify", "complete"}}
EditFinding ==
    /\ \E f \in Fingerprints : ledger[f].status # "none" /\ \E s \in {"open", "ack", "fixed"}, v \in {"P0", "P1", "P2", "P3"} :
          /\ ledger' = [ledger EXCEPT ![f] = [status |-> s, severity |-> v]] /\ ledger' # ledger
          /\ lowered' = IF Rank(v) > Rank(ledger[f].severity) THEN lowered \cup (Done \X {f}) ELSE lowered
    /\ UNCHANGED <<date, eveningVars, checkout, leaseVars, run, artifacts, watch, slips, unanswered>>
OpenFindingsSummary ==
    {[of |-> [check |-> f[1], severity |-> ledger[f].severity, seed |-> f[2]], status |-> ledger[f].status] :
        f \in {g \in Fingerprints : Open(ledger[g])}}
Pull ==
    /\ checkout' = OpenFindingsSummary /\ checkout' # checkout
    /\ UNCHANGED <<date, eveningVars, ledger, leaseVars, run, artifacts, watch, slips, workVars>>
(* The period of triage is the day, that of the report the week.           *)
NextDate ==
    /\ slot = "final" /\ date < MaxDate /\ date' = date + 1 /\ slot' = "day" /\ snapshot' = {None} /\ watch' = "none"
    /\ \A r \in Runners : run[r].pc = "idle"
    /\ success' = [k \in Kinds |-> k # "triage" /\ success[k]]
    /\ attempts' = [k \in Kinds |-> IF k = "triage" THEN 0 ELSE attempts[k]]
    /\ lock' = [k \in Kinds |-> None] /\ expired' = {} /\ unanswered' = {} /\ lowered' = {}
    /\ UNCHANGED <<prev, paged, missed, ledger, checkout, run, artifacts, slips>>

Leased(r) ==
    \/ ReadSuccess(r) \/ TakeLock(r) \/ CountAttempt(r) \/ Killed(r) \/ Finish(r)
    \/ ReadSnapshot(r) \/ UpsertFindings(r) \/ Classify(r) \/ Research(r) \/ Skeptic(r) \/ WriteArtifacts(r)
LoopNext ==
    \/ RunSystemSentinel \/ SkipSentinel \/ CrossWatch
    \/ \E r \in Runners : Leased(r)
    \/ \E k \in Kinds : LockExpires(k)
    \/ EditFinding \/ Pull \/ NextDate
LoopSpec == LoopInit /\ [][LoopNext]_loopVars

-----------------------------------------------------------------------------
(* Every urgent anomaly of the published snapshot has been named in a      *)
(* message since it appeared, unless its message failed or was too long:   *)
(* a failed publication, a lost run or a tracked finding cannot make a new *)
(* anomaly look old (runSystemSentinel).  Excepted is a fingerprint that   *)
(* grew urgent while it was present, which the code takes for known.       *)
GrewUrgent(f) == \E a \in Anomalies : Fingerprint(a) = f /\ ~Urgent(a)
UrgentIsPaged ==
    snapshot # {None} =>
        \A a \in snapshot : Urgent(a) => Fingerprint(a) \in paged \cup missed \/ GrewUrgent(Fingerprint(a))

(* What a success marker of triage says, whatever expired, died or was     *)
(* retried before it: the run that sets it holds the lock, and everything  *)
(* in the snapshot it read is in the ledger, at that severity or a higher  *)
(* one unless the maintainer has lowered it since (completeRunLease,       *)
(* upsertFindings).  When one attempt was enough, every finding it made    *)
(* new was also classified; after two it does not say so, as the second    *)
(* finds nothing new (sysloop-triage.mjs).                                 *)
InLedger(r, a) ==
    LET f == Fingerprint(a)
    IN  ledger[f].status # "none" /\ (Rank(ledger[f].severity) <= Rank(a.severity) \/ <<r, f>> \in lowered)
Completes(k) ==
    \E r \in Runners :
        /\ run[r].kind = k /\ run[r].pc = "complete" /\ Owns(r)
        /\ k = "triage" => (\A a \in run[r].read : InLedger(r, a)) /\ (attempts[k] = 1 => unanswered = {})
MarkerMeansWork == [][\A k \in Kinds : success'[k] /\ ~success[k] => Completes(k)]_loopVars
===============================================================================
