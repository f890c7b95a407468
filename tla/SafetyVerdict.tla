---------------------------- MODULE SafetyVerdict ----------------------------
(***************************************************************************)
(* The verdict on one trading day (lib/phase0-observer.js): a day counts   *)
(* toward the safety window only if no check of the TRUST domain fails or  *)
(* lacks its evidence.  `ev' is the evidence gatherPhase0Evidence          *)
(* assembles.                                                              *)
(***************************************************************************)
EXTENDS Integers, FiniteSets, Sequences, SequencesExt

CONSTANT Slots      \* [job -> the slots it must run in each day] of the four jobs with a history

ASSUME SlotAssumption == Slots \in [{"holdings-sync", "order-reconciliation", "intraday-monitor",
                                     "system-sentinel"} -> SUBSET Int]

HistoryJobs == DOMAIN Slots
NoSlot == 0         \* the slot of a receipt that names none
NoDay == 0
ResearchDays == {"Mon", "Tue", "Wed", "Thu"}

(* jobs/phase0-observer.js: what must have run by the evening of a weekday *)
DueObservedJobs(weekday) ==
    [TRUST |-> {"holdings-sync", "order-reconciliation", "intraday-monitor", "verify-ledgers",
                "system-sentinel", "shadow-positions-refresh", "db-parity"}
               \cup {j \in {"exit-monitor"} : weekday \in ResearchDays},
     SKILL |-> {"performance-review"} \cup {j \in {"research-scan"} : weekday \in ResearchDays}]

(* lib/holding-monitor-coverage.js: every held name was watched or its     *)
(* lack of evidence has a reason.                                          *)
Coverage(expected, monitored, degraded, failed, reasons) ==
    [expected |-> expected, monitored |-> monitored, degraded |-> degraded, failed |-> failed,
     reasons |-> reasons]
NoCoverage == Coverage(-1, 0, 0, 0, 0)      \* absent, or of another schema
HoldingMonitorCoveragePasses(c) ==
    /\ c.failed = 0 /\ c.expected = c.monitored + c.degraded
    /\ c.reasons = c.degraded

(* A receipt: `signed' and `account' speak of broker reads, `blocking' of  *)
(* the P0 and P1 findings of a sentinel, {Unread} when it has none.        *)
Unread == [severity |-> "none", failedJob |-> "unread"]
Receipt(slot, day, ok) ==
    [slot |-> slot, day |-> day, ok |-> ok, skipped |-> FALSE, signed |-> TRUE, account |-> TRUE,
     completed |-> day, blocking |-> {}, coverage |-> Coverage(1, 1, 0, 0, 0)]
NoReceipt == [Receipt(NoSlot, NoDay, FALSE) EXCEPT !.blocking = {Unread}, !.coverage = NoCoverage]

(* An approved exception names a job and a slot; a receipt without a slot  *)
(* is matched by any exception of its job.                                 *)
Excepted(ev, job, slot) ==
    \E x \in ev.exceptions : x.job = job /\ (slot = NoSlot \/ x.slot = slot)

(* A finding that a job failed is waived with the failure it reports.      *)
Waived(ev, anomaly) ==
    /\ anomaly.failedJob \in DOMAIN ev.lastRun
    /\ ev.lastRun[anomaly.failedJob].day = ev.day /\ ~ev.lastRun[anomaly.failedJob].ok
    /\ Excepted(ev, anomaly.failedJob, ev.lastRun[anomaly.failedJob].slot)
Active(ev, anomalies) == {a \in anomalies : ~Waived(ev, a)}

(* The retained receipts of a slot, and the last of them.                  *)
Attempts(ev, job, slot) ==
    {i \in DOMAIN ev.history[job] : ev.history[job][i].slot = slot /\ ev.history[job][i].day = ev.day}
Final(ev, job, slot) == ev.history[job][Max(Attempts(ev, job, slot))]
ValidMcpReceipt(r, day) == r.signed /\ r.ok /\ r.account /\ r.completed = day

SlotIssueIfRun(ev, job, slot) ==
    Attempts(ev, job, slot) # {} /\ ~Final(ev, job, slot).ok /\ ~Excepted(ev, job, slot)
(* The last retained attempt of a slot decides it.                         *)
SlotIssue(ev, job, slot) ==
    LET final == Final(ev, job, slot)
    IN  IF Attempts(ev, job, slot) = {} THEN ~Excepted(ev, job, slot)
        ELSE /\ final.ok \/ ~Excepted(ev, job, slot)
             /\ \/ ~final.ok
                \/ job \in {"holdings-sync", "order-reconciliation"} /\ ~ValidMcpReceipt(final, ev.day)
                \/ job = "system-sentinel" /\ (Unread \in final.blocking \/ Active(ev, final.blocking) # {})
                \/ job = "intraday-monitor" /\ ~HoldingMonitorCoveragePasses(final.coverage)

BadJob(ev, job) ==
    LET r == ev.lastRun[job]
    IN  r.day # ev.day \/ r.skipped \/ (~r.ok /\ ~Excepted(ev, job, r.slot))

(* The coverage of every due monitor, the exit monitor on research days.   *)
HoldingMonitoring(ev) ==
    {[of |-> s, coverage |-> IF Attempts(ev, "intraday-monitor", s) = {} THEN NoCoverage
                             ELSE Final(ev, "intraday-monitor", s).coverage] : s \in Slots["intraday-monitor"]}
    \cup {[of |-> NoSlot, coverage |-> ev.lastRun["exit-monitor"].coverage] : d \in {ev.weekday} \cap ResearchDays}

Check(name, domain, status) == [name |-> name, domain |-> domain, status |-> status]
If(passes, otherwise) == IF passes THEN "pass" ELSE otherwise

MonitoringStatus(ev) ==
    LET due == HoldingMonitoring(ev)
        watched == \E m \in due : m.coverage.monitored > 0
    IN  IF due = {} THEN "insufficient"
        ELSE IF \E m \in due : ~HoldingMonitorCoveragePasses(m.coverage) THEN "fail"
        ELSE If((\A m \in due : m.coverage.expected = 0) \/ watched, "insufficient")

(* Parity: the separate results when the comparison reports them, else     *)
(* what the divergences of the combined digest still prove.                *)
TransactionalAny(p) ==
    CASE ~p.fresh -> "insufficient"
      [] p.fresh /\ p.transactional \in {"pass", "fail"} -> p.transactional
      [] p.fresh /\ p.transactional = "absent"
            /\ (p.divergences = {} \/ "positions_valuation" \in p.divergences) -> "pass"
      [] p.fresh /\ p.transactional = "absent" /\ p.divergences = {"positions"} -> "insufficient"
      [] OTHER -> "fail"
TransactionalStatus(p) ==
    CASE ~p.fresh -> "insufficient"
      [] p.fresh /\ p.transactional \in {"pass", "fail"} -> p.transactional
      [] p.fresh /\ p.transactional = "absent" /\ p.divergences \in {{}, {"positions_valuation"}} -> "pass"
      [] p.fresh /\ p.transactional = "absent" /\ p.divergences = {"positions"} -> "insufficient"
      [] OTHER -> "fail"
ValuationStatus(p) ==
    CASE ~p.fresh -> "insufficient"
      [] p.fresh /\ p.valuation \in {"pass", "fail"} -> p.valuation
      [] p.fresh /\ p.valuation = "unreadable" -> IF p.monitoringBlocked THEN "fail" ELSE "warning"
      [] p.fresh /\ p.valuation = "not_comparable" -> "warning"
      [] OTHER -> IF "positions" \in p.divergences THEN "warning" ELSE "insufficient"

Configured == {"OK", "WARNING", "EXHAUSTED"}
(* mapAnthropicBudgetReadiness: a denial is today's only on its own day.   *)
ProtectedMonitoring(c, day) ==
    CASE c.denied = "no" -> "pass"
      [] c.denied = "yes" /\ c.deniedDay = day -> "fail"
      [] OTHER -> "warning"
ProviderStatus(provider) ==
    CASE provider = "AVAILABLE" -> "pass"
      [] provider \in {"EXHAUSTED", "THROTTLED", "UNPRICED_MODEL"} -> "fail"
      [] OTHER -> "warning"

(* The scheduled runs no earlier observation has counted.  A report is     *)
(* classified when its outcomes add up to its attempts.                    *)
Completed(ev) == SelectSeq(ev.reports, LAMBDA r : r.status = "completed")
ResearchStatus(ev) ==
    IF ev.reports = <<>>
    THEN CASE ev.required = "missing" -> "fail" [] ev.required = "present" -> "pass" [] OTHER -> "insufficient"
    ELSE IF \E i \in DOMAIN Completed(ev) : ~Completed(ev)[i].classified THEN "insufficient"
    ELSE If(/\ Len(Completed(ev)) = Len(ev.reports) /\ ev.required # "missing"
            /\ \A i \in DOMAIN Completed(ev) : Completed(ev)[i].failures = 0, "fail")
(* Proposals are counted only when the reports could be accounted for.     *)
ThroughputStatus(ev) ==
    IF ResearchStatus(ev) = "insufficient" \/ (ev.reports = <<>> /\ ev.required # "present") THEN "insufficient"
    ELSE If(\E i \in DOMAIN Completed(ev) : Completed(ev)[i].proposals > 0, "fail")

Checks(ev) ==
    LET due == DueObservedJobs(ev.weekday)
        trusted == ev.capacity.monthly \in Configured
        alarms == {a \in ev.anomalies : a.severity \in {"P0", "P1"}}
    IN  {Check("deployment_identity", "TRUST", If(ev.deployed, "insufficient")),
         Check("deployment_eligibility", "TRUST", If((ev.deployDay # NoDay /\ ev.deployDay < ev.day) \/ ev.policyRelease, "fail")),
         Check("critical_jobs", "TRUST", If(\A j \in due.TRUST : ~BadJob(ev, j), "fail")),
         Check("skill_jobs", "SKILL", If(\A j \in due.SKILL : ~BadJob(ev, j), "fail")),
         Check("scheduled_invocations", "TRUST",
               If(\A j \in HistoryJobs : \A s \in Slots[j] : ~SlotIssue(ev, j, s), "fail")),
         Check("holding_monitoring", "TRUST", MonitoringStatus(ev)),
         Check("proposal_counts", "SKILL", If(ev.queueReadable, "insufficient")),
         Check("open_p0_p1", "TRUST",
               IF ~ev.sentinelFresh THEN "insufficient" ELSE If(Active(ev, alarms) = {}, "fail")),
         Check("reconciliation", "TRUST",
               IF ev.reconciliations < 0 THEN "insufficient" ELSE If(ev.reconciliations = 0, "fail")),
         Check("transactional_parity", "TRUST", TransactionalStatus(ev.parity)),
         Check("valuation_status", "TRUST", ValuationStatus(ev.parity)),
         Check("capacity_readiness", "BOTH", If(trusted, "insufficient")),
         Check("monthly_capacity", "SKILL",
               IF ~trusted THEN "insufficient" ELSE If(ev.capacity.monthly # "EXHAUSTED", "fail")),
         Check("provider_capacity", "SKILL", ProviderStatus(ev.capacity.provider)),
         Check("protected_monitoring_capacity", "TRUST", ProtectedMonitoring(ev.capacity, ev.day)),
         Check("research_accounting", "SKILL", ResearchStatus(ev)),
         Check("proposal_throughput", "SKILL", ThroughputStatus(ev))}

Blocking(c) == c.status \in {"fail", "insufficient"}
Passes(checks, domain) == \A c \in checks : c.domain \in {domain, "BOTH"} => ~Blocking(c)
TrustPasses(ev) == ev.tradingDay /\ Passes(Checks(ev), "TRUST")

BuildPhase0Observation(ev) ==
    LET checks == Checks(ev)
    IN  IF ~ev.tradingDay THEN [trust |-> "SKIP", skill |-> "SKIP", runs |-> {}]
        ELSE [trust |-> IF Passes(checks, "TRUST") THEN "PASS" ELSE "FAIL",
              skill |-> IF Passes(checks, "SKILL") THEN "PASS" ELSE "FAIL",
              runs |-> {ev.reports[i].run : i \in DOMAIN ev.reports}]
===============================================================================
