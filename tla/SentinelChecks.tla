---------------------------- MODULE SentinelChecks ----------------------------
(***************************************************************************)
(* The sentinel's view of the system (lib/sysloop): what it gathers, what  *)
(* becomes of a source it cannot read, and the anomalies its checks raise. *)
(* `w' is the state of the system, `down' the sources that cannot be read. *)
(***************************************************************************)
EXTENDS Integers, FiniteSets, Sequences

Unknown == -1
Severities == <<"P0", "P1", "P2", "P3">>
Rank(severity) == CHOOSE i \in DOMAIN Severities : Severities[i] = severity

(* The fingerprint of an anomaly is its check and its seed.                *)
Anomaly(check, severity, seed) == [check |-> check, severity |-> severity, seed |-> seed]
Fingerprint(a) == <<a.check, a.seed>>
When(condition, check, severity, seed) == IF condition THEN {Anomaly(check, severity, seed)} ELSE {}
Unavailable(check, severity) == {Anomaly(check, severity, <<"unavailable">>)}

-----------------------------------------------------------------------------
(* PM2: the first of these that holds.  `p' is what PM2 says of the        *)
(* process, with the counts the previous snapshot stored.                  *)
CheckRestarts(p) ==
    LET delta == p.restarts - p.prevRestarts
        unstable == IF Unknown \in {p.unstable, p.prevUnstable} THEN 0 ELSE p.unstable - p.prevUnstable
    IN  CASE p.restarts = Unknown -> {Anomaly("pm2", "P1", <<"metadata">>)}
          [] p.restarts # Unknown /\ p.prevRestarts = Unknown -> When(p.restarts > 0, "pm2", "P1", <<"baseline">>)
          [] Unknown \notin {p.restarts, p.prevRestarts} /\ delta < 0 -> {Anomaly("pm2", "P1", <<"reset">>)}
          [] OTHER -> IF delta = 0 THEN {}
                      ELSE IF unstable > 0 \/ p.exit \notin {0, Unknown} THEN {Anomaly("pm2", "P1", <<"flapping">>)}
                      ELSE When(~p.trusted, "pm2", "P1", <<"untrusted">>)
CheckPm2(p) ==
    CASE p.list = "unreadable" -> Unavailable("pm2", "P1")
      [] p.list = "missing" -> {Anomaly("pm2", "P1", <<"missing">>)}
      [] OTHER -> When(p.list # "online", "pm2", "P1", <<"status", p.list>>) \cup CheckRestarts(p)

CheckHealthDeps(h) ==
    IF ~h.read THEN Unavailable("health", "P1") ELSE When(h.down # {}, "health", "P1", h.down)

(* The advisory research-data workflow: one anomaly at most.               *)
ResearchDataSeed(r) ==
    CASE r.state = "not_configured" -> <<"not-configured">>
      [] r.state # "not_configured" /\ ~r.enabled -> <<>>
      [] r.enabled /\ r.state \in {"missing", "disabled", "failed", "unknown"} -> <<r.state>>
      [] r.enabled /\ r.state = "running" -> IF r.age = "fresh" THEN <<>> ELSE <<"running", r.age>>
      [] OTHER -> IF r.age # "fresh" THEN <<"completed", r.age>> ELSE IF r.plausible THEN <<>> ELSE <<"counts">>
CheckResearchDataHealth(r) == When(ResearchDataSeed(r) # <<>>, "research-data", "P2", ResearchDataSeed(r))

-----------------------------------------------------------------------------
(* Jobs: the minute of the ET day each must have run by.                   *)
MonToThu == {"Mon", "Tue", "Wed", "Thu"}
Weekdays == MonToThu \cup {"Fri"}
Expect(by, severity, days, outcomes) == [by |-> by, severity |-> severity, days |-> days, outcomes |-> outcomes]
JobExpectations ==
    [premarket |-> Expect(540, "P2", Weekdays, {}), holdingsSync |-> Expect(1050, "P1", Weekdays, {}),
     orderReconciliation |-> Expect(1020, "P1", Weekdays, {}), intraday |-> Expect(990, "P1", Weekdays, {}),
     exitMonitor |-> Expect(1035, "P1", MonToThu, {}),
     researchScan |-> Expect(1080, "P2", MonToThu, {"degraded", "not_configured"}),
     performanceReview |-> Expect(1092, "P2", Weekdays, {}), verifyLedgers |-> Expect(1095, "P1", Weekdays, {}),
     researchData |-> Expect(1200, "P2", Weekdays, {"degraded", "not_configured"})]
Due(w) == {j \in DOMAIN JobExpectations :
              w.trading /\ w.weekday \in JobExpectations[j].days /\ w.minute >= JobExpectations[j].by}
JobSeed(e, run) ==
    CASE run.ran = "never" -> <<"never">>
      [] run.ran = "earlier" -> <<"missed">>
      [] run.ran = "today" /\ run.outcome \in e.outcomes -> <<"outcome", run.outcome>>
      [] OTHER -> IF run.ok THEN <<>> ELSE <<"failed">>
StaleJobs(w) ==
    UNION {When(JobSeed(JobExpectations[j], w.jobs[j]) # <<>>, "cron", JobExpectations[j].severity,
                <<j>> \o JobSeed(JobExpectations[j], w.jobs[j])) : j \in Due(w)}
    \cup When(w.trading /\ w.weekly # "fresh", "cron", "P2", <<"weekly", w.weekly>>)
CheckJobFreshness(w) == IF "jobs" \in w.lost THEN Unavailable("cron", "P1") ELSE StaleJobs(w)

CheckPhase0ObservationContinuity(w) ==
    IF "index" \in w.lost THEN Unavailable("phase0-continuity", "P2")
    ELSE When(~w.priorObserved, "phase0-continuity", "P2", <<"missing">>)

(* What the exit monitor covered, when it ran today.                       *)
CheckExitMonitorCoverage(w) ==
    IF "exitMonitor" \notin Due(w) \/ "jobs" \in w.lost THEN {}
    ELSE IF w.jobs["exitMonitor"].ran # "today" \/ w.coverage = "full" THEN {}
    ELSE {Anomaly("holding-monitoring", IF w.coverage = "partial" THEN "P2" ELSE "P1", <<w.coverage>>)}

CheckDashboard(w) ==
    UNION {CASE w.probes[path] = "open" -> {Anomaly("dashboard", "P0", <<path, "open">>)}
             [] w.probes[path] \in {"unreachable", "status"} -> {Anomaly("dashboard", "P1", <<path, w.probes[path]>>)}
             [] w.probes[path] = "slow" -> {Anomaly("dashboard", "P3", <<path, "slow">>)}
             [] OTHER -> {} : path \in DOMAIN w.probes}

-----------------------------------------------------------------------------
(* Proposals: the flow of approvals, the queue, and the Trade Ledger.      *)
Approved(p) == p.status = "ApprovedForBrokerReview"
ApprovedWaiting(w) == \E p \in w.proposals : Approved(p) /\ ~p.fulfilled
CheckApprovalsFlow(w) ==
    IF "proposals" \in w.lost THEN Unavailable("approvals", "P1")
    ELSE UNION {When(p.status = "Pending" /\ p.aged, "approvals", "P2", <<"pending", p.id>>)
                \cup When(p.executing /\ p.aged, "approvals", "P1", <<"executing", p.id>>)
                \cup When(Approved(p) /\ ~p.fulfilled /\ ~p.executing /\ w.marketOpen /\ p.decided /\ p.aged,
                          "approvals", "P1", <<"unexecuted">>) : p \in w.proposals}
         \cup When(Cardinality({p \in w.proposals : p.status = "Expired" /\ ~p.decided}) >= 3,
                   "approvals", "P2", <<"expired-unseen">>)

CheckCompanionHeartbeat(w) ==
    IF w.companion = "never" THEN {Anomaly("companion", "P2", <<"never">>)}
    ELSE IF ApprovedWaiting(w) /\ w.marketOpen /\ w.companion # "fresh"
    THEN {Anomaly("companion", "P1", <<"offline-with-work">>)}
    ELSE When(w.companion = "stale", "companion", "P2", <<"offline-idle">>)

CheckRedisQueue(w) ==
    IF "ids" \in w.lost THEN Unavailable("redis", "P1")
    ELSE When(w.listed \ {p.id : p \in w.proposals} # {}, "redis", "P2", <<"orphans">>)
         \cup When(\E p \in w.proposals : ~p.schema, "redis", "P1", <<"schema-drift">>)
         \cup When(w.breaker = "unknown_tier", "redis", "P1", <<"breaker-tier">>)
         \cup When(w.hwm = "nan", "redis", "P1", <<"hwm-nan">>)

BrokenProposals(w) ==
    UNION {When(Approved(p) /\ ~p.signed, "lifecycle", "P1", <<"unsigned", p.id>>)
           \cup When(p.fulfilled /\ p.order = "none", "lifecycle", "P1", <<"no-orderid", p.id>>)
           \cup When(p.fulfilled /\ p.order = "unbooked" /\ "ledger" \notin w.lost,
                     "lifecycle", "P1", <<"no-ledger-row", p.id>>) : p \in w.proposals}
CheckProposalLifecycle(w) ==
    IF "proposals" \in w.lost THEN Unavailable("lifecycle", "P1")
    ELSE BrokenProposals(w) \cup (IF "ledger" \in w.lost THEN Unavailable("lifecycle", "P2") ELSE {})

(* A record that does not verify is reported, never dropped.               *)
CheckReconciliationQueue(w) ==
    IF "reconciliations" \in w.lost THEN Unavailable("reconciliation", "P1")
    ELSE {Anomaly("reconciliation", "P1", <<IF r.verified THEN "open" ELSE "integrity", r.order>>) :
             r \in w.reconciliations}

-----------------------------------------------------------------------------
CheckSheetsSchema(w) ==
    IF "headers" \in w.lost THEN Unavailable("sheets", "P1")
    ELSE UNION {When(w.headers[tab] # "ok", "sheets", "P1", <<tab, w.headers[tab]>>) : tab \in DOMAIN w.headers}
CheckSheetsFreshness(w) ==
    IF "performance" \in w.lost THEN Unavailable("sheets-freshness", "P2")
    ELSE When(w.performance # "fresh", "sheets-freshness", "P2", <<w.performance>>)

(* Log lines are told apart up to times, ids, numbers and tickers.         *)
ClusterLogLines(lines) ==
    {[line |-> l, count |-> Cardinality({i \in DOMAIN lines : lines[i] = l})] : l \in {lines[i] : i \in DOMAIN lines}}
NewClusterMin == 2
ClusterGrowthMin == 5
ClusterGrowthFactor == 3
CheckLogClusters(w) ==
    IF "logs" \in w.lost THEN Unavailable("logs", "P2")
    ELSE UNION {LET before == w.prevClusters[c.line]
                IN  IF before = Unknown
                    THEN When(c.count >= NewClusterMin, "logs", "P2", <<"cluster", c.line>>)
                    ELSE When(c.count >= ClusterGrowthMin /\ c.count >= before * ClusterGrowthFactor,
                              "logs", IF c.line \in w.providerNoise THEN "P2" ELSE "P1", <<"growth", c.line>>) :
                c \in ClusterLogLines(w.logs)}
CheckDocPaths(w) ==
    IF "docs" \in w.lost THEN Unavailable("docs", "P3") ELSE {Anomaly("docs", "P3", <<d>>) : d \in w.missingDocs}
(* A finding raised by hand keeps its own fingerprint.                     *)
CheckTrackedFindings(w) ==
    {[f.of EXCEPT !.severity = f.severity] : f \in {g \in w.tracked : g.severity \in {"P0", "P1"}}}

RunChecks(w) ==
    CheckPm2(w.pm2) \cup CheckHealthDeps(w.health) \cup CheckResearchDataHealth(w.researchData)
    \cup CheckJobFreshness(w) \cup CheckExitMonitorCoverage(w) \cup CheckPhase0ObservationContinuity(w)
    \cup CheckDashboard(w) \cup CheckApprovalsFlow(w) \cup CheckCompanionHeartbeat(w) \cup CheckRedisQueue(w)
    \cup CheckProposalLifecycle(w) \cup CheckReconciliationQueue(w) \cup CheckSheetsSchema(w)
    \cup CheckSheetsFreshness(w) \cup CheckLogClusters(w) \cup CheckDocPaths(w) \cup CheckTrackedFindings(w)

-----------------------------------------------------------------------------
(* Gathering.  A source that fails is handed on as missing, not judged;    *)
(* but the readers of the proposals, the breaker and the high-water mark   *)
(* answer a failed read with nothing, and a lost state has no baseline.    *)
Missing == {"jobs", "index", "ids", "reconciliations", "performance", "ledger", "logs", "docs"}
Sources == Missing \cup {"redis", "pm2", "health", "sheets", "companion", "proposals", "breaker", "hwm", "state"}
Silent == {"proposals", "breaker", "hwm", "state"}
(* Without a Redis client every slice is missing; without the sheet, its   *)
(* headers, NAV rows and trades.                                           *)
Failing(down) ==
    down \cup (IF "redis" \in down THEN {"jobs", "index", "ids", "reconciliations"} \cup Silent \cup {"companion"} ELSE {})
         \cup (IF "sheets" \in down THEN {"performance", "ledger"} ELSE {})
AssembleSnapshot(w, down) ==
    LET gone == Failing(down)
    IN  [w EXCEPT !.lost = (gone \cap Missing) \cup {x \in {"headers"} : "sheets" \in down}
                               \cup {x \in {"proposals"} : "redis" \in down},
                  !.pm2 = [@ EXCEPT !.list = IF "pm2" \in down THEN "unreadable" ELSE @,
                                    !.prevRestarts = IF "state" \in gone THEN Unknown ELSE @,
                                    !.prevUnstable = IF "state" \in gone THEN Unknown ELSE @],
                  !.health.read = @ /\ "health" \notin down,
                  !.researchData.state = IF "health" \in down THEN "missing" ELSE @,
                  !.researchData.enabled = @ /\ "health" \notin down,
                  !.companion = IF "companion" \in gone THEN "never" ELSE @,
                  !.proposals = IF "proposals" \in gone THEN {} ELSE @,
                  !.breaker = IF "breaker" \in gone THEN "absent" ELSE @,
                  !.hwm = IF "hwm" \in gone THEN "absent" ELSE @,
                  !.prevClusters = IF "state" \in gone THEN [l \in DOMAIN @ |-> Unknown] ELSE @]
Snapshot(w, down) == RunChecks(AssembleSnapshot(w, down))

(* The check that answers for each source.                                 *)
Answers == [redis |-> "approvals", jobs |-> "cron", index |-> "phase0-continuity", ids |-> "redis", reconciliations |-> "reconciliation",
            performance |-> "sheets-freshness", ledger |-> "lifecycle", logs |-> "logs", docs |-> "docs",
            pm2 |-> "pm2", health |-> "health", sheets |-> "sheets", companion |-> "companion"]
Worst(anomalies) == IF anomalies = {} THEN 5 ELSE LET ranks == {Rank(a.severity) : a \in anomalies} IN
                        CHOOSE r \in ranks : \A q \in ranks : r <= q
===============================================================================
