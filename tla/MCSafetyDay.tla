----------------------------- MODULE MCSafetyDay -----------------------------
(* Three days of receipts and observers, or one day's evidence that gets   *)
(* worse one fact at a time.  The two share no state.                      *)
EXTENDS SafetyDay, TLC

VARIABLES ev, depth    \* the evidence, and how often it got worse

CONSTANTS o1, o2, r1
MCWeekday == <<"Sun", "Mon", "Tue">>
MCLongWeek == <<"Wed", "Thu", "Fri", "Sat", "Sun", "Mon">>
MCTries == "holdings-sync" :> 2 @@ "intraday-monitor" :> 1
MCNoTries == [j \in {"holdings-sync", "intraday-monitor"} |-> 0]
MCTrading == {2, 3}
MCLongTrading == {1, 2, 3, 6}
MCSlots == "holdings-sync" :> {1, 5} @@ "intraday-monitor" :> {2} @@ "system-sentinel" :> {3}
           @@ "order-reconciliation" :> {4}

Jobs == DueObservedJobs("Mon").TRUST \cup DueObservedJobs("Mon").SKILL
SlotOf(j) == IF j \in HistoryJobs THEN CHOOSE s \in MCSlots[j] : s # 5 ELSE NoSlot
Run(d, j) == Receipt(SlotOf(j), d, TRUE)
Quiet(d) ==
    [day |-> d, weekday |-> "Mon", tradingDay |-> TRUE, exceptions |-> {},
     deployed |-> TRUE, deployDay |-> -1, policyRelease |-> FALSE,
     lastRun |-> [j \in Jobs |-> Run(d, j)], history |-> [j \in HistoryJobs |-> IF j = "holdings-sync" THEN <<Run(d, j), Receipt(5, d, TRUE)>>
                                           ELSE <<Run(d, j)>>],
     sentinelFresh |-> TRUE, anomalies |-> {}, reconciliations |-> 0, queueReadable |-> TRUE,
     parity |-> [fresh |-> TRUE, transactional |-> "pass", valuation |-> "pass", divergences |-> {},
                 monitoringBlocked |-> FALSE],
     capacity |-> [monthly |-> "OK", provider |-> "AVAILABLE", denied |-> "no", deniedDay |-> NoDay],
     reports |-> <<>>, required |-> "present"]
MCBackdrop(d) == {Quiet(d)}

Finding(severity, job) == [severity |-> severity, failedJob |-> job]
Q == Quiet(2)
Legacy == [Q EXCEPT !.parity.transactional = "absent", !.parity.valuation = "absent",
                    !.parity.divergences = {"positions"}]
Starts == {Q, Legacy, [Legacy EXCEPT !.parity.divergences = {"positions_valuation"}],
           [Q EXCEPT !.parity.valuation = "unreadable"], [Q EXCEPT !.deployDay = 2],
           [Q EXCEPT !.capacity.denied = "yes", !.capacity.deniedDay = 1],
           [Q EXCEPT !.lastRun["exit-monitor"].coverage = Coverage(2, 1, 1, 0, 1)],
           [Q EXCEPT !.weekday = "Fri", !.history["intraday-monitor"][1].coverage = Coverage(2, 0, 2, 0, 2)],
           [Q EXCEPT !.reports = <<Report(r1)>>], [Q EXCEPT !.history["system-sentinel"] =
               <<[Run(2, "system-sentinel") EXCEPT !.blocking = {Unread}], Run(2, "system-sentinel")>>]}
Cut(r) == [expected |-> r.expected + 1, monitored |-> r.monitored, degraded |-> r.degraded,
           failed |-> r.failed, reasons |-> r.reasons]
(* One more thing goes wrong, or one piece of evidence is lost.            *)
Worse(e) ==
    {[e EXCEPT !.history[j] = Append(@, r)] : j \in HistoryJobs,
        r \in {[Receipt(s, 2, FALSE) EXCEPT !.blocking = {Unread}] : s \in 1..4}}
    \cup {[e EXCEPT !.history[j] = <<>>] : j \in HistoryJobs}
    \cup {[e EXCEPT !.history["system-sentinel"] =
             Append(@, [Run(2, "system-sentinel") EXCEPT !.blocking = {Finding("P1", "exit-monitor")}])]}
    \cup {[e EXCEPT !.history["intraday-monitor"] =
             Append(@, [Run(2, "intraday-monitor") EXCEPT !.coverage = Cut(Coverage(2, 1, 1, 0, 1))])],
          [e EXCEPT !.history["holdings-sync"] = Append(@, [Run(2, "holdings-sync") EXCEPT !.completed = 3])]}
    \cup {[e EXCEPT !.lastRun[j] = NoReceipt] : j \in Jobs}
    \cup {[e EXCEPT !.lastRun[j].ok = FALSE] : j \in Jobs}
    \cup {[e EXCEPT !.lastRun[j].skipped = TRUE] : j \in {"db-parity"}}
    \cup {[e EXCEPT !.anomalies = @ \cup {Finding(v, j)}] : v \in {"P0", "P2"}, j \in {"exit-monitor", "none"}}
    \cup {[e EXCEPT !.deployed = FALSE], [e EXCEPT !.sentinelFresh = FALSE], [e EXCEPT !.reconciliations = -1],
          [e EXCEPT !.reconciliations = IF @ < 0 THEN @ ELSE @ + 1], [e EXCEPT !.parity.fresh = FALSE],
          [e EXCEPT !.parity.monitoringBlocked = TRUE], [e EXCEPT !.queueReadable = FALSE],
          [e EXCEPT !.capacity.monthly = "UNREADY"], [e EXCEPT !.capacity.provider = "EXHAUSTED"],
          [e EXCEPT !.capacity.denied = "yes", !.capacity.deniedDay = 2],
          [e EXCEPT !.reports = <<>>, !.required = "unknown"]}
    \cup {[e EXCEPT !.parity.divergences = @ \cup {x}] :
             x \in {"positions", "positions_valuation", "investors"}}

DayStart == day = 1 /\ evening = FALSE /\ calls = 0 /\ tries = [j \in Live |-> [s \in Slots[j] |-> 0]]
            /\ scans = <<>>
Worsen == depth < 2 /\ depth' = depth + 1 /\ ev' \in Worse(ev)
NoEvidence == <<>>   \* of the days that run
MCInit == Init /\ ev \in Starts \cup {NoEvidence} /\ depth = 0
(* The order of events that do not meet is fixed: a research run ends (a   *)
(* failed one on the first day) before the jobs of its day or in the       *)
(* evening, the monitor runs before the broker is asked for slot 1, and    *)
(* then for slot 5 or for slot 1 again; the reader and the research runs   *)
(* move before an observer has gathered its evidence.  Observers are called*)
(* in the evening or, on an idle day, once too early, and the second one   *)
(* while the first runs; after the first call no broker request is open,   *)
(* and the last call is on the last day, which only answers what is left.  *)
Tried(j) == \E s \in Slots[j] : tries[j][s] > 0
NoneOpen == \A j \in BrokerReads : queue[j] = <<>> /\ reading[j].pc = "idle"
BothSlots == tries["holdings-sync"][5] > 0
InTurn ==
    /\ tries'["intraday-monitor"] # tries["intraday-monitor"] => ~Tried("holdings-sync")
    /\ tries' # tries => \A o \in Observers : ~Running(o)
    /\ BothSlots' /\ ~BothSlots => tries["holdings-sync"][1] = 1
    /\ tries'["holdings-sync"][1] > 1 => ~Tried("intraday-monitor") /\ ~BothSlots'
    /\ day = Len(Weekday) => tries' = tries
CalledInTurn ==
    /\ obs'[o1].pc \notin AtRest
    /\ evening \/ (calls = 0 /\ scans = <<>> /\ \A j \in Live : ~Tried(j))
    /\ NoneOpen \/ (calls = 0 /\ ~BothSlots)
    /\ calls > 0 => /\ \A j \in Live : \A s \in Slots[j] : tries[j][s] < 2
                    /\ lastRun["intraday-monitor"] \in {NoReceipt, Receipt(2, 2, TRUE)}
    /\ calls' = MaxCalls => day = Len(Weekday) /\ \A q \in Asked : q.slot # 5
Timely ==
    /\ calls' # calls => CalledInTurn
    /\ scans' # scans => evening \/ \A j \in Live : ~Tried(j)
    /\ scans' # scans => scans'[1].status = "completed" \/ day = 1
    /\ <<scans, queue, reading>>' # <<scans, queue, reading>> =>
          \A o \in Observers : obs[o].pc \in AtRest \cup {"consumed", "gather"}
    /\ marker' # marker => \A o \in Observers : ~Running(o)
    /\ day' = day => InTurn
MCNext == \/ ev = NoEvidence /\ SafetyNext /\ Timely /\ UNCHANGED <<ev, depth>>
          \/ ev # NoEvidence /\ DayStart /\ Worsen /\ UNCHANGED vars
MCSpec == MCInit /\ [][MCNext]_<<vars, ev, depth>>
MCLongSpec == Init /\ ev = NoEvidence /\ depth = 0 /\ [][SafetyNext /\ Timely /\ UNCHANGED <<ev, depth>>]_<<vars, ev, depth>>

(* More trouble or less evidence never turns a day that does not count     *)
(* toward the safety window into one that does, while no exception is      *)
(* approved (buildPhase0Observation: callers "must never turn absence into *)
(* a clean observation day").                                              *)
WorseNeverCleans == [][ev # NoEvidence /\ TrustPasses(ev') => TrustPasses(ev)]_ev
===============================================================================
