----------------------------- MODULE ResearchRun -----------------------------
(***************************************************************************)
(* The life of a research scan and of a Lab request: the research lock     *)
(* they share, the drawdown breaker each resolves first, the agents of a   *)
(* scan one after another, the terminal record of the run and its          *)
(* published status, the receipt of a scheduled run, and the repair a      *)
(* restarted scheduler applies to the status it finds.                     *)
(*                                                                         *)
(* Scheduled scans, scans asked over HTTP and Lab requests run in the      *)
(* service; a scan started from the command line has a process of its own. *)
(* Every step between two awaits of the code is one action.                *)
(***************************************************************************)
EXTENDS CircuitBreaker

CONSTANTS
    Runs,       \* run ids
    NoRun,      \* the id of no run
    Kind,       \* [Runs -> {"scheduled", "http", "cli", "lab"}]
    Agents,     \* how many agents a scan visits
    Navs,       \* values a Performance row may have
    MaxRows,    \* bound: Performance rows
    Totals,     \* values of the cached portfolio total, None when it has expired
    MaxStarted, \* bound: runs that start
    MaxMishaps  \* bound: failed calls, crashes, recomputations and deleted rows, together

ASSUME RunAssumption ==
    /\ NoRun \notin Runs /\ Kind \in [Runs -> {"scheduled", "http", "cli", "lab"}]
    /\ {Agents, MaxRows, MaxStarted, MaxMishaps} \subseteq Nat
    /\ Navs \subseteq Nat /\ Totals \subseteq Nat \cup {None}

NoStatus == [run |-> NoRun, status |-> "none", by |-> "none"]
Idle == [pc |-> "idle", seen |-> [rows |-> <<>>, stored |-> Unseen, blind |-> FALSE],
         visited |-> 0, ok |-> 0, failed |-> 0, aborted |-> FALSE, result |-> "none"]

VARIABLES
    run,      \* the runs
    lock,     \* the holder of pm:workflow-lock:research
    lost,     \* runs whose lock expired while they were running
    up,       \* the service is running
    repair,   \* the repair of a restarting scheduler: what it has read
    latest,   \* pm:research-scan:latest
    marker,   \* the terminal record of each run, by the run or by the repair
    history,  \* pm:research-scan:history
    receipt,  \* pm:job:research-scan:last-run of each scheduled run
    lab,      \* pm:lab-research of each Lab request
    rows, stored, tier,   \* Performance, pm:hwm:portfolio, pm:breaker:state
    applying, \* the high water mark record an operator's recomputation is about to write
    faults, crashes, repairs, removals
statusVars == <<latest, marker, history>>
breakerVars == <<rows, stored, tier, applying>>
countVars == <<faults, crashes, repairs, removals>>
vars == <<run, lock, lost, up, repair, statusVars, receipt, lab, breakerVars, countVars>>

Service == {r \in Runs : Kind[r] # "cli"}
Scans == {r \in Runs : Kind[r] # "lab"}
Settled == {"idle", "done", "dead"}
Alive(r) == run[r].pc \notin Settled
Reviewing(r) == run[r].pc \in {"breaker", "assess", "agents"}
Room == faults + crashes + repairs + removals < MaxMishaps
Fails == Room /\ faults' = faults + 1
Works == UNCHANGED faults
Goto(r, pc) == run' = [run EXCEPT ![r].pc = pc]

Init ==
    /\ run = [r \in Runs |-> Idle] /\ lock = NoRun /\ lost = {} /\ up = TRUE
    /\ repair = NoStatus /\ latest = NoStatus /\ marker = [r \in Runs |-> NoStatus] /\ history = <<>>
    /\ receipt = [r \in Runs |-> "none"] /\ lab = [r \in Runs |-> "none"]
    /\ \E n \in Navs : rows = <<[day |-> 1, nav |-> n]>>
    /\ stored = Unseen /\ tier = "none" /\ applying = Unseen
    /\ faults = 0 /\ crashes = 0 /\ repairs = 0 /\ removals = 0

-------------------------------------------------------------------------------
(* Starting.  The HTTP route refuses a second HTTP scan and a Lab request  *)
(* while an HTTP scan runs; whatever the entry, the lock decides.          *)
ScanRunning == \E r \in Runs : Kind[r] = "http" /\ Alive(r)
WithWorkflowLock(r) ==
    IF lock = NoRun THEN lock' = r /\ Goto(r, IF r \in Scans THEN "announce" ELSE "breaker")
    ELSE UNCHANGED lock /\ run' = [run EXCEPT ![r].pc = "settle", ![r].result = "thrown"]

Start(r) ==
    /\ run[r].pc = "idle" /\ Cardinality({x \in Runs : run[x].pc # "idle"}) < MaxStarted
    /\ r \in Service => up /\ repair = NoStatus
    /\ Kind[r] \in {"http", "lab"} => ~ ScanRunning
    /\ WithWorkflowLock(r)
    /\ lab' = IF r \in Scans THEN lab ELSE [lab EXCEPT ![r] = "running"]
    /\ UNCHANGED <<lost, up, repair, statusVars, receipt, breakerVars, countVars>>

(* The run announces itself before it does anything else; when it cannot,  *)
(* it throws before the block that records failures.                       *)
Announce(r) ==
    /\ run[r].pc = "announce"
    /\ \/ Works /\ Goto(r, "breaker") /\ latest' = [run |-> r, status |-> "running", by |-> "run"]
       \/ Fails /\ run' = [run EXCEPT ![r].pc = "unlock", ![r].result = "thrown"] /\ UNCHANGED latest
    /\ UNCHANGED <<lock, lost, up, repair, marker, history, receipt, lab, breakerVars,
                   crashes, repairs, removals>>

(* The breaker reads Performance and the stored mark; a failed read of the *)
(* tab is a missing basis and a failed read of the mark a missing record.  *)
(* Reading the lots fails the run instead.                                 *)
ReadBreaker(r) ==
    /\ run[r].pc = "breaker"
    /\ \/ /\ Works
          /\ run' = [run EXCEPT ![r].pc = "assess", ![r].seen = [rows |-> rows, stored |-> stored, blind |-> FALSE]]
       \/ /\ Fails
          /\ \/ run' = [run EXCEPT ![r].pc = "assess", ![r].seen = [rows |-> <<>>, stored |-> stored, blind |-> FALSE]]
             \/ run' = [run EXCEPT ![r].pc = "assess", ![r].seen = [rows |-> rows, stored |-> Unseen, blind |-> TRUE]]
             \/ /\ faults + crashes + repairs + removals + 1 < MaxMishaps
                /\ run' = [run EXCEPT ![r].pc = "assess", ![r].seen = [rows |-> <<>>, stored |-> Unseen, blind |-> TRUE]]
             \/ run' = [run EXCEPT ![r].pc = IF r \in Scans THEN "fail" ELSE "unlock", ![r].result = "thrown"]
    /\ UNCHANGED <<lock, lost, up, repair, statusVars, receipt, lab, breakerVars, crashes, repairs, removals>>

(* What it concludes is written back, and written again with the key of an *)
(* alert that was sent.  A failed write of the mark or of the tier is      *)
(* swallowed: the run goes on and the old value stays.                     *)
Marks(verdict, key) ==
    {IF verdict.writes THEN verdict.record ELSE stored}
        \cup {m \in {[verdict.record EXCEPT !.alert = key]} : verdict.alerts}
AfterAssess(r) == run' = [run EXCEPT ![r].pc = "agents", ![r].seen = Idle.seen]
Assess(r) ==
    /\ run[r].pc = "assess"
    /\ \E total \in Totals, daily \in {DeriveDailyNavBreakerBasis(run[r].seen.rows)} :
       \E nav \in {ReconcileNavHighWaterMark(daily, run[r].seen.stored)} :
       \E verdict \in {ResolveCircuitBreaker(daily, nav, run[r].seen.stored, total)} :
          \/ Works /\ stored' \in Marks(verdict, nav.key) /\ tier' = verdict.tier
          \/ Fails /\ verdict.writes /\ stored' = stored /\ tier' = verdict.tier
          \/ Fails /\ stored' \in Marks(verdict, nav.key) /\ tier' = tier
    /\ AfterAssess(r)
    /\ UNCHANGED <<lock, lost, up, repair, statusVars, receipt, lab, rows, applying,
                   crashes, repairs, removals>>

(* One agent: its own failure is caught and recorded, a failure of one of  *)
(* its reviews only counted; a Lab request fails only as a whole.          *)
ReviewAgent(r) ==
    /\ run[r].pc = "agents" /\ run[r].visited < (IF r \in Scans THEN Agents ELSE 1)
    /\ \E good \in 0 .. 1, bad \in 0 .. 1, abort \in BOOLEAN :
          /\ abort => good = 0 /\ bad = 0
          /\ r \notin Scans => bad = 0 /\ good = 0
          /\ run' = [run EXCEPT ![r].visited = @ + 1, ![r].ok = Higher(@, good),
                                ![r].failed = Higher(@, bad), ![r].aborted = @ \/ abort]
    /\ UNCHANGED <<lock, lost, up, repair, statusVars, receipt, lab, breakerVars, countVars>>

(* What the summaries of the agents say of the run.                        *)
ClassifyResearchRunOutcome(r) ==
    CASE run[r].aborted \/ (run[r].failed # 0 /\ run[r].ok = 0) -> "failed"
      [] ~ run[r].aborted /\ run[r].failed = 0 -> "ok"
      [] OTHER -> "degraded"
AgentsDone(r) ==
    /\ run[r].pc = "agents" /\ run[r].visited = (IF r \in Scans THEN Agents ELSE 1)
    /\ IF r \in Scans THEN Goto(r, "append")
       ELSE run' = [run EXCEPT ![r].pc = "unlock",
                               ![r].result = IF run[r].aborted THEN "thrown" ELSE "returned"]
    /\ UNCHANGED <<lock, lost, up, repair, statusVars, receipt, lab, breakerVars, countVars>>

-------------------------------------------------------------------------------
(* A plausible slip: only a failed outcome fails the run.                  *)
RunStatusLenient(r) ==
    IF ClassifyResearchRunOutcome(r) # "failed" /\ run[r].pc = "append" THEN "completed" ELSE "failed"
(* The terminal record: one script that keeps the first record of a run,   *)
(* then the published status.  A different record of the same run is a     *)
(* conflict, and a conflict or a failed call throws.                       *)
RunStatus(r) == IF ClassifyResearchRunOutcome(r) = "ok" /\ run[r].pc = "append" THEN "completed" ELSE "failed"
(* A plausible slip: the record is written without looking for an earlier. *)
AppendTerminalBlindly(r, status, by) ==
    LET record == [run |-> r, status |-> status, by |-> by]
    IN  marker' = [marker EXCEPT ![r] = record] /\ history' = Append(history, record)
AppendTerminal(r, status, by) ==
    LET record == [run |-> r, status |-> status, by |-> by] IN
    /\ marker[r] = NoStatus
    /\ marker' = [marker EXCEPT ![r] = record] /\ history' = Append(history, record)

Persist(r) ==
    /\ run[r].pc \in {"append", "fail"}
    /\ \/ /\ Works /\ AppendTerminal(r, RunStatus(r), "run") /\ UNCHANGED latest
          /\ run' = [run EXCEPT ![r].pc = IF run[r].pc = "append" THEN "publish" ELSE "publishFailure"]
       \/ /\ (Works /\ marker[r] # NoStatus) \/ Fails
          /\ run' = [run EXCEPT ![r].pc = IF run[r].pc = "append" THEN "fail" ELSE "unlock",
                                ![r].result = "thrown"]
          /\ UNCHANGED statusVars
    /\ UNCHANGED <<lock, lost, up, repair, receipt, lab, breakerVars, crashes, repairs, removals>>

Publish(r) ==
    /\ run[r].pc \in {"publish", "publishFailure"}
    /\ \/ /\ Works /\ latest' = marker[r]
          /\ run' = [run EXCEPT ![r].pc = "unlock",
                       ![r].result = IF run[r].pc = "publish" /\ marker[r].status = "completed"
                                     THEN "returned" ELSE "thrown"]
       \/ /\ Fails /\ UNCHANGED latest
          /\ run' = [run EXCEPT ![r].pc = IF run[r].pc = "publish" THEN "fail" ELSE "unlock",
                                ![r].result = "thrown"]
    /\ UNCHANGED <<lock, lost, up, repair, marker, history, receipt, lab, breakerVars,
                   crashes, repairs, removals>>

(* The release deletes the key only while it still holds the run's token.  *)
(* Its failure is logged, never the run's result.                          *)
Release(r) ==
    /\ run[r].pc = "unlock" /\ Goto(r, "settle")
    /\ \/ Works /\ lock' = IF lock = r THEN NoRun ELSE lock
       \/ Fails /\ UNCHANGED lock
    /\ UNCHANGED <<lost, up, repair, statusVars, receipt, lab, breakerVars, crashes, repairs, removals>>

(* The caller: wrapJob writes the receipt of a scheduled run, the server   *)
(* the outcome of a Lab request, both swallowing a failed write.           *)
Settle(r) ==
    /\ run[r].pc = "settle" /\ Goto(r, "done")
    /\ LET good == run[r].result = "returned" IN
       \/ /\ Works
          /\ receipt' = IF Kind[r] = "scheduled"
                        THEN [receipt EXCEPT ![r] = IF good THEN "ok" ELSE "failed"] ELSE receipt
          /\ lab' = IF r \in Scans THEN lab ELSE [lab EXCEPT ![r] = IF good THEN "done" ELSE "error"]
       \/ Fails /\ UNCHANGED <<receipt, lab>>
    /\ UNCHANGED <<lock, lost, up, repair, statusVars, breakerVars, crashes, repairs, removals>>

-------------------------------------------------------------------------------
(* The service dies with every run it hosts; the process manager starts it *)
(* again and the scheduler first repairs a status that still says running. *)
Crash ==
    /\ up /\ Room /\ crashes' = crashes + 1
    /\ up' = FALSE /\ repair' = NoStatus
    /\ run' = [r \in Runs |-> IF r \in Service /\ Alive(r) THEN [run[r] EXCEPT !.pc = "dead"] ELSE run[r]]
    /\ UNCHANGED <<lock, lost, statusVars, receipt, lab, breakerVars, faults, repairs, removals>>

(* A plausible slip: the scheduler starts without the repair.              *)
RestartAlone == ~ up /\ up' = TRUE /\ Works /\ repair' = NoStatus
    /\ UNCHANGED <<run, lock, lost, statusVars, receipt, lab, breakerVars, crashes, repairs, removals>>
Restart ==
    /\ ~ up /\ up' = TRUE
    /\ \/ Works /\ repair' = IF latest.status = "running" THEN [latest EXCEPT !.by = "reading"] ELSE NoStatus
       \/ Fails /\ repair' = NoStatus
    /\ UNCHANGED <<run, lock, lost, statusVars, receipt, lab, breakerVars, crashes, repairs, removals>>

RepairAppend ==
    /\ up /\ repair.by = "reading"
    /\ \/ Works /\ AppendTerminal(repair.run, "failed", "repair") /\ repair' = [repair EXCEPT !.by = "appended"]
       \/ /\ (Works /\ marker[repair.run] # NoStatus) \/ Fails
          /\ repair' = NoStatus /\ UNCHANGED <<marker, history>>
    /\ UNCHANGED <<run, lock, lost, up, latest, receipt, lab, breakerVars, crashes, repairs, removals>>

RepairPublish ==
    /\ up /\ repair.by = "appended" /\ repair' = NoStatus
    /\ \/ Works /\ latest' = marker[repair.run]
       \/ Fails /\ UNCHANGED latest
    /\ UNCHANGED <<run, lock, lost, up, marker, history, receipt, lab, breakerVars, crashes, repairs, removals>>

(* A command line scan may be killed; nothing of the program sees it.      *)
Kill(r) ==
    /\ Kind[r] = "cli" /\ Alive(r) /\ Room /\ crashes' = crashes + 1
    /\ Goto(r, "dead")
    /\ UNCHANGED <<lock, lost, up, repair, statusVars, receipt, lab, breakerVars, faults, repairs, removals>>

(* The time to live: of a holder that is gone, or of one that is still     *)
(* reviewing after the 45 minutes (15 for a Lab request).  The process     *)
(* manager restarts the service in seconds, well within them.              *)
LockExpires ==
    /\ lock # NoRun /\ lock' = NoRun
    /\ ~ Alive(lock) \/ run[lock].pc = "agents"
    /\ lock \in Service => up /\ repair = NoStatus
    /\ lost' = IF Alive(lock) THEN lost \cup {lock} ELSE lost
    /\ UNCHANGED <<run, up, repair, statusVars, receipt, lab, breakerVars, countVars>>

(* The record of a Lab request nobody will settle lasts an hour.           *)
LabExpires(r) ==
    /\ lab[r] = "running" /\ ~ Alive(r) /\ lab' = [lab EXCEPT ![r] = "expired"]
    /\ UNCHANGED <<run, lock, lost, up, repair, statusVars, receipt, breakerVars, countVars>>

-------------------------------------------------------------------------------
(* The ledger the breaker reads: a new signed row, a second row of the     *)
(* same day, or a valid row that is deleted.                               *)
AddRow ==
    /\ Len(rows) < MaxRows
    /\ \E n \in Navs, later \in BOOLEAN :
          rows' = Append(rows, [day |-> rows[Len(rows)].day + (IF later THEN 1 ELSE 0), nav |-> n])
    /\ UNCHANGED <<run, lock, lost, up, repair, statusVars, receipt, lab, stored, tier, applying, countVars>>
DeleteRow ==
    /\ Len(rows) > 1 /\ Room /\ removals' = removals + 1
    /\ \E i \in DOMAIN rows : rows' = SubSeq(rows, 1, i - 1) \o SubSeq(rows, i + 1, Len(rows))
    /\ UNCHANGED <<run, lock, lost, up, repair, statusVars, receipt, lab, stored, tier, applying,
                   faults, crashes, repairs>>

(* breaker:recompute --apply: read the ledger, then replace the record. It *)
(* takes no lock.                                                          *)
RecomputeRead ==
    /\ Room /\ repairs' = repairs + 1 /\ applying = Unseen
    /\ LET daily == DeriveDailyNavBreakerBasis(rows) IN
       /\ daily.rows >= 2
       /\ applying' = [value |-> daily.mark, basis |-> "navPerUnit", rows |-> daily.rows,
                       ledger |-> daily.mark, alert |-> <<daily.current>>]
    /\ UNCHANGED <<run, lock, lost, up, repair, statusVars, receipt, lab, rows, stored, tier,
                   faults, crashes, removals>>
RecomputeApply ==
    /\ applying # Unseen /\ applying' = Unseen
    /\ stored' = [applying EXCEPT !.alert = <<>>]
    /\ tier' = AssessCircuitBreaker(applying.alert[1], applying.value).tier
    /\ UNCHANGED <<run, lock, lost, up, repair, statusVars, receipt, lab, rows, countVars>>

-------------------------------------------------------------------------------
Step(r) == \/ Announce(r) \/ ReadBreaker(r) \/ Assess(r) \/ ReviewAgent(r) \/ AgentsDone(r)
           \/ Persist(r) \/ Publish(r) \/ Release(r) \/ Settle(r)
Recover == Restart \/ RepairAppend \/ RepairPublish
RunNext ==
    \/ \E r \in Runs : Start(r) \/ Step(r) \/ Kill(r) \/ LabExpires(r)
    \/ Recover \/ Crash \/ LockExpires \/ AddRow \/ DeleteRow \/ RecomputeRead \/ RecomputeApply
Fairness == /\ \A r \in Runs : WF_vars(Step(r)) /\ WF_vars(LabExpires(r))
            /\ WF_vars(Recover) /\ WF_vars(LockExpires)
RunSpec == Init /\ [][RunNext]_vars

-------------------------------------------------------------------------------
TypeOK ==
    /\ \A r \in Runs : run[r].pc \in Settled \cup {"announce", "breaker", "assess", "agents", "append",
                                                   "fail", "publish", "publishFailure", "unlock", "settle"}
    /\ lock \in Runs \cup {NoRun} /\ lost \subseteq Runs
    /\ latest.status \in {"none", "running", "completed", "failed"}
    /\ tier \in {"none", "NONE", "REDUCE", "NO_NEW_BUYS", "EXITS_ONLY", "HALT", "UNKNOWN"}

(* A run is reported to its caller as done, and a scheduled run to its     *)
(* receipt as ok, only when its own record says completed: every agent     *)
(* ran, no review failed, and no repair settled the run before it did.     *)
GreenIsClean ==
    \A r \in Scans : run[r].result = "returned" \/ receipt[r] = "ok" =>
        /\ marker[r] = [run |-> r, status |-> "completed", by |-> "run"]
        /\ run[r].visited = Agents /\ run[r].failed = 0 /\ ~ run[r].aborted

(* A run has one terminal record, it is the one in the history, and a      *)
(* terminal status is published only once its record is kept.              *)
OneTerminalRecord ==
    /\ \A r \in Runs : marker[r] # NoStatus =>
          Cardinality({i \in DOMAIN history : history[i].run = r}) = 1
    /\ \A i \in DOMAIN history : marker[history[i].run] = history[i]
    /\ latest.status \in {"completed", "failed"} => marker[latest.run] = latest

(* The high water mark on the NAV basis is never lowered and never traded  *)
(* for another basis, however the ledger shrinks and whichever run writes  *)
(* it, except by the operator's recomputation.  The code has two ways      *)
(* around it, and no other: a run that could not read the mark it stored   *)
(* earlier, and a run that read it before a recomputation replaced it,     *)
(* which takes no lock.                                                    *)
BlindWrite(r) ==
    /\ run[r].pc = "assess" /\ run'[r].pc = "agents"
    /\ run[r].seen.blind \/ (repairs > 0 /\ run[r].seen.stored # stored)
MarkRatchet ==
    [][ stored.basis = "navPerUnit" =>
            \/ stored'.basis = "navPerUnit" /\ stored'.value >= stored.value
            \/ applying # Unseen /\ applying' = Unseen
            \/ \E r \in Runs : BlindWrite(r) ]_vars

(* A scan that started is settled: it, or the repair after a restart,      *)
(* records its end, unless a call failed, a lock ran out under a live run  *)
(* (its status then hides the other's) or its process was a command line   *)
(* that was killed.                                                        *)
RunSettles ==
    \A r \in Scans : (run[r].pc = "breaker") ~>
        (marker[r] # NoStatus \/ faults > 0 \/ lost # {} \/ (Kind[r] = "cli" /\ run[r].pc = "dead"))
===============================================================================
