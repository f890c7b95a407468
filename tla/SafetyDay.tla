------------------------------ MODULE SafetyDay ------------------------------
(***************************************************************************)
(* From the receipts of a day's jobs to its immutable observation: the     *)
(* scheduler's receipts and its requests for broker reads, the reader that *)
(* performs them and the rows it adds, the research runs, and the observers*)
(* (jobs/phase0-observer.js) that gather the evidence, archive one record  *)
(* per day, publish and index it, and send it once.                        *)
(*                                                                         *)
(* An observer takes one step between two awaits.                          *)
(***************************************************************************)
EXTENDS SafetyVerdict

CONSTANTS
    Weekday,        \* the weekday of each day
    Trading,        \* the days the market is open
    Live,           \* the jobs with a history whose runs are modelled
    Backdrop(_),    \* the evidence of a day the other jobs leave
    ResearchRuns, Observers,
    Retention,      \* days a record, a marker and the index outlive their last write
    MaxDays,        \* entries the index keeps
    MaxTries, MaxCalls, MaxFaults   \* bounds: attempts at a slot of each job, observer calls, faults

Days == DOMAIN Weekday
(* The receipts of a monitor carry a coverage, those of a broker read an   *)
(* account; a backdrop is evidence of the day but for what is modelled.    *)
ASSUME DayAssumption ==
    /\ Weekday \in Seq({"Sun", "Mon", "Tue", "Wed", "Thu", "Fri", "Sat"}) /\ Weekday # <<>>
    /\ Live \subseteq {"holdings-sync", "order-reconciliation", "intraday-monitor"}
    /\ \A d \in Days : \A b \in Backdrop(d) :
          {"day", "weekday", "tradingDay", "history", "lastRun", "reports", "required", "exceptions"} \subseteq DOMAIN b

Weekend == {"Sat", "Sun"}
BrokerReads == Live \cap {"holdings-sync", "order-reconciliation"}
NoRecord == [day |-> NoDay, by |-> 0, trust |-> "none", skill |-> "none", runs |-> {}, unseen |-> {}]
Report(r) == [run |-> r, status |-> "completed", classified |-> TRUE, failures |-> 0, proposals |-> 1]

VARIABLES
    day, evening,   \* the ET date; it is past 20:20
    history,        \* pm:job:<name>:history:<day>, of the current day
    lastRun,        \* pm:job:<name>:last-run
    tries,          \* attempts at each slot of the day
    queue,          \* pm:mcp-read:<kind>:queue
    marker,         \* pm:mcp-read:<kind>:invocation:<id>, those not expired
    reading,        \* of each kind, the request being read and how far it is
    performance,           \* the Performance rows, each the request it was written for
    scans,          \* pm:research-scan:history, newest first
    archive,        \* ops/phase0-observations/<day>.json
    daily,          \* pm:phase0-observation:<day>
    index, indexed, \* pm:phase0-observation:index and the day of its last write
    sent, messages, \* pm:phase0-observation:<day>:telegram-sent and what was sent
    obs,            \* the observers
    calls, faults,
    worked, bad     \* the day's slots with a successful attempt; those whose last receipt is of a failure
brokerVars == <<queue, marker, reading, performance>>
jobVars == <<history, lastRun, tries, brokerVars, worked, bad>>
storeVars == <<archive, daily, index, indexed, sent, messages>>
vars == <<day, evening, jobVars, scans, storeVars, obs, calls, faults>>

NoRequest == [job |-> "none", day |-> NoDay, slot |-> NoSlot, id |-> 0]
NoRead == [pc |-> "idle", request |-> NoRequest, recorded |-> FALSE]
Idle == [pc |-> "idle", consumed |-> {}, unseen |-> {}, record |-> NoRecord, call |-> 0, hurt |-> FALSE]
AtRest == {"idle", "done", "threw"}
Running(o) == obs[o].pc \notin AtRest
Room == faults < MaxFaults
Fails == Room /\ faults' = faults + 1
Works == UNCHANGED faults

Init ==
    /\ day = 1 /\ evening = FALSE
    /\ history = [j \in Live |-> <<>>] /\ lastRun = [j \in Live |-> NoReceipt]
    /\ tries = [j \in Live |-> [s \in Slots[j] |-> 0]]
    /\ queue = [j \in BrokerReads |-> <<>>] /\ marker = {} /\ performance = <<>> /\ scans = <<>>
    /\ reading = [j \in BrokerReads |-> NoRead]
    /\ archive = [d \in Days |-> NoRecord] /\ daily = archive /\ index = <<>> /\ indexed = NoDay
    /\ sent = {} /\ messages = {} /\ obs = [o \in Observers |-> Idle]
    /\ calls = 0 /\ faults = 0 /\ worked = {} /\ bad = {}

-----------------------------------------------------------------------------
(* A receipt is set as the last run, then appended; the record is best     *)
(* effort, and a call that fails leaves the rest unwritten.                *)
AppendJobInvocationHistory(job, r) ==
    /\ history' = [history EXCEPT ![job] = Append(@, r)]
    /\ bad' = IF r.ok THEN bad \ {<<job, r.slot>>} ELSE bad \cup {<<job, r.slot>>}
RecordRun(job, r) ==
    \/ Works /\ lastRun' = [lastRun EXCEPT ![job] = r] /\ AppendJobInvocationHistory(job, r)
    \/ Fails /\ lastRun' = [lastRun EXCEPT ![job] = r] /\ UNCHANGED <<history, bad>>
    \/ Fails /\ UNCHANGED <<lastRun, history, bad>>
Try(job, slot) ==
    tries[job][slot] < MaxTries[job] /\ tries' = [tries EXCEPT ![job][slot] = @ + 1]
Succeed(job, slot, ok) == worked' = IF ok THEN worked \cup {<<job, slot>>} ELSE worked

CronDay == Weekday[day] \notin Weekend
WrapJob(job, slot) ==
    /\ job \in Live \ BrokerReads /\ CronDay /\ ~evening /\ Try(job, slot)
    /\ IF day \notin Trading
       THEN /\ lastRun' = [lastRun EXCEPT ![job] = [Receipt(slot, day, TRUE) EXCEPT !.skipped = TRUE]]
            /\ UNCHANGED <<history, bad, worked, faults>>
       ELSE \E r \in {Receipt(slot, day, TRUE), Receipt(slot, day, FALSE),
                      [Receipt(slot, day, TRUE) EXCEPT !.coverage = NoCoverage]} :
                RecordRun(job, r) /\ Succeed(job, slot, r.ok /\ r.coverage # NoCoverage)
    /\ UNCHANGED <<day, evening, brokerVars, scans, storeVars, obs, calls>>

(* jobs/mcp-read-requests.js: one request for each invocation, however     *)
(* often the scheduler asks; a call that fails may have queued it.         *)
Request(job, slot) == [job |-> job, day |-> day, slot |-> slot, id |-> tries[job][slot]]
Known(job, slot) == \E m \in marker : m.job = job /\ m.day = day /\ m.slot = slot
EnqueueMcpReadRequest(job, slot) ==
    IF Known(job, slot) THEN UNCHANGED <<queue, marker>>
    ELSE /\ queue' = [queue EXCEPT ![job] = Append(@, Request(job, slot))]
         /\ marker' = marker \cup {Request(job, slot)}
QueueMcpReadJob(job, slot) ==
    /\ job \in BrokerReads /\ CronDay /\ ~evening /\ Try(job, slot)
    /\ IF day \notin Trading
       THEN /\ lastRun' = [lastRun EXCEPT ![job] = [Receipt(NoSlot, day, TRUE) EXCEPT !.skipped = TRUE]]
            /\ UNCHANGED <<queue, marker, faults>>
       ELSE \/ Works /\ EnqueueMcpReadRequest(job, slot) /\ UNCHANGED lastRun
            \/ /\ Fails /\ (EnqueueMcpReadRequest(job, slot) \/ UNCHANGED <<queue, marker>>)
               /\ lastRun' = [lastRun EXCEPT ![job] = Receipt(NoSlot, day, FALSE)]
    /\ UNCHANGED <<day, evening, history, reading, performance, scans, storeVars, obs, calls, worked, bad>>

(* The reader takes the oldest request of a kind under a lease.  For       *)
(* holdings-sync it has to find the marker of that very request, and reads *)
(* whether the request has its Performance row; the rows are written by    *)
(* one script at a time (the holdings-sync lock).                          *)
AssertMcpReadRequestProvenance(q) ==
    \E m \in marker : m.job = q.job /\ m.day = q.day /\ m.slot = q.slot /\ m.id = q.id
RecordedNever(q) == FALSE
Recorded(q) == \E i \in DOMAIN performance : performance[i] = q
Get(job, pc) ==
    reading' = [reading EXCEPT ![job] = [pc |-> pc, request |-> Head(queue[job]),
                                         recorded |-> pc = "append" /\ Recorded(Head(queue[job]))]]
ReadBroker(job) ==
    /\ reading[job].pc = "idle" /\ queue[job] # <<>>
    /\ \/ Fails /\ Get(job, "failed")
       \/ Works /\ job = "order-reconciliation" /\ Get(job, "ok")
       \/ /\ Works /\ job = "holdings-sync"
          /\ Get(job, IF AssertMcpReadRequestProvenance(Head(queue[job])) THEN "append" ELSE "failed")
    /\ UNCHANGED <<day, evening, history, lastRun, tries, queue, marker, performance, worked, bad, scans, storeVars, obs, calls>>

(* A call that fails may have appended the row; so may one whose script    *)
(* fails later.                                                            *)
AppendPerformanceRow(job) ==
    /\ reading[job].pc = "append"
    /\ LET next == IF reading[job].recorded THEN performance ELSE Append(performance, reading[job].request)
       IN  \/ Works /\ performance' = next /\ reading' = [reading EXCEPT ![job].pc = "ok"]
           \/ Fails /\ performance' \in {performance, next} /\ reading' = [reading EXCEPT ![job].pc = "failed"]
    /\ UNCHANGED <<day, evening, history, lastRun, tries, queue, marker, worked, bad, scans, storeVars, obs, calls>>

(* The reader dies: no receipt, and the request is read again.             *)
ReaderStops(job) ==
    /\ reading[job].pc # "idle" /\ Fails /\ reading' = [reading EXCEPT ![job] = NoRead]
    /\ UNCHANGED <<day, evening, history, lastRun, tries, queue, marker, performance, worked, bad, scans, storeVars, obs, calls>>

(* The receipt, then the end of the request: a failed one may be tried     *)
(* again, and so is one the reader dies on after its receipt.              *)
Dequeue(job) ==
    queue' = [queue EXCEPT ![job] = IF @ # <<>> /\ Head(@) = reading[job].request THEN Tail(@) ELSE @]
Answer(job) ==
    /\ reading[job].pc \in {"ok", "failed"} /\ reading' = [reading EXCEPT ![job] = NoRead]
    /\ \/ Works /\ Dequeue(job)
       \/ Works /\ reading[job].pc = "failed" /\ UNCHANGED queue
       \/ Fails /\ UNCHANGED queue
    /\ LET q == reading[job].request
           ok == reading[job].pc = "ok"
       IN  \E r \in {[Receipt(q.slot, q.day, ok) EXCEPT !.completed = day, !.account = ok]} :
              IF q.day = day
              THEN /\ lastRun' = [lastRun EXCEPT ![job] = r] /\ AppendJobInvocationHistory(job, r)
                   /\ Succeed(job, q.slot, ok)
              ELSE /\ lastRun' = [lastRun EXCEPT ![job] = [r EXCEPT !.day = day]]
                   /\ UNCHANGED <<history, bad, worked>>
    /\ UNCHANGED <<day, evening, tries, marker, performance, scans, storeVars, obs, calls>>

(* A marker outlives the request by a day and a half, and the queue of a   *)
(* kind its last marker, as every request renews it.                       *)
Expired(m) == day > m.day + 1 \/ (day = m.day + 1 /\ evening)
ExpireMarker(m) ==
    /\ Expired(m) /\ marker' = marker \ {m}
    /\ queue' = IF \E n \in marker' : n.job = m.job THEN queue ELSE [queue EXCEPT ![m.job] = <<>>]
    /\ UNCHANGED <<day, evening, history, lastRun, tries, reading, performance, worked, bad, scans, storeVars, obs, calls, faults>>

(* A scheduled research run ends, on Sunday to Thursday.                   *)
FinishScan(r) ==
    /\ Weekday[day] \in ResearchDays \cup {"Sun"} /\ \A i \in DOMAIN scans : scans[i].run # r
    /\ \E status \in {"completed", "failed"} :
          scans' = <<[run |-> r, day |-> day, status |-> status]>> \o scans
    /\ UNCHANGED <<day, evening, jobVars, storeVars, obs, calls, faults>>

-----------------------------------------------------------------------------
(* Observers.                                                              *)
Call(o) ==
    /\ ~Running(o) /\ CronDay /\ calls < MaxCalls /\ calls' = calls + 1
    /\ obs' = [p \in Observers |->
                  IF p = o THEN [Idle EXCEPT !.pc = "consumed", !.call = calls + 1,
                                             !.hurt = \E q \in Observers \ {o} : Running(q)]
                  ELSE IF Running(p) THEN [obs[p] EXCEPT !.hurt = TRUE] ELSE obs[p]]
    /\ UNCHANGED <<day, evening, jobVars, scans, storeVars, faults>>

(* An observer that has ended forgets what it read; `hurt' says that a     *)
(* call of its failed, that it came too early or was not alone.            *)
To(o, pc) == obs' = [obs EXCEPT ![o] = IF pc \in AtRest THEN [Idle EXCEPT !.pc = pc, !.hurt = @ \/ obs[o].hurt]
                                       ELSE [@ EXCEPT !.pc = pc]]
Stops(o) == obs' = [obs EXCEPT ![o] = [Idle EXCEPT !.pc = "threw", !.hurt = TRUE]]
(* A call fails or the process dies; its effect may have been applied.     *)
Breaks(o) == Fails /\ Stops(o)
Steps(o, pc) == Works /\ To(o, pc)

(* Days whose record the index does not lead to.                           *)
Unindexed == {d \in Days : archive[d] # NoRecord /\ \A i \in DOMAIN index : index[i] # d}
ReadConsumed(o) ==
    /\ obs[o].pc = "consumed"
    /\ \/ Breaks(o)
       \/ /\ \E i \in DOMAIN index : daily[index[i]] = NoRecord
          /\ Steps(o, "threw")
       \/ /\ Works /\ \A i \in DOMAIN index : daily[index[i]] # NoRecord
          /\ obs' = [obs EXCEPT ![o].pc = "gather", ![o].unseen = Unindexed,
                                ![o].consumed = UNION {daily[index[i]].runs : i \in DOMAIN index}]
    /\ UNCHANGED <<day, evening, jobVars, scans, storeVars, calls>>

(* Scheduled runs of the last 72 hours no indexed observation consumed;    *)
(* a research day needs one of its own.                                    *)
SelectUnobservedScheduledResearch(consumed) ==
    SelectSeq(scans, LAMBDA s : s.run \notin consumed /\ day - s.day <= 3)
Required(rows) ==
    IF Weekday[day] \in ResearchDays /\ \A i \in DOMAIN rows : rows[i].day # day THEN "missing" ELSE "present"
Evidence(b, consumed, readable) ==
    LET rows == IF readable THEN SelectUnobservedScheduledResearch(consumed) ELSE <<>>
    IN  [b EXCEPT !.day = day, !.weekday = Weekday[day], !.tradingDay = day \in Trading,
                  !.history = [j \in HistoryJobs |-> IF j \in Live THEN history[j] ELSE @[j]],
                  !.lastRun = [j \in DOMAIN @ |-> IF j \in Live THEN lastRun[j] ELSE @[j]],
                  !.reports = [i \in DOMAIN rows |-> [Report(rows[i].run) EXCEPT !.status = rows[i].status]],
                  !.required = IF readable THEN Required(rows) ELSE "unknown"]
GatherPhase0Evidence(o) ==
    /\ obs[o].pc = "gather"
    /\ \/ Breaks(o)
       \/ \E b \in Backdrop(day), readable \in BOOLEAN :
            /\ IF readable THEN Works ELSE Fails
            /\ \E v \in {BuildPhase0Observation(Evidence(b, obs[o].consumed, readable))} :
                  obs' = [obs EXCEPT ![o].pc = "window",
                             ![o].record = [day |-> day, by |-> obs[o].call, trust |-> v.trust,
                                            skill |-> v.skill, runs |-> v.runs, unseen |-> obs[o].unseen]]
    /\ UNCHANGED <<day, evening, jobVars, scans, storeVars, calls>>

(* Nothing is persisted before 20:20, dry runs excepted.                   *)
ObservationPersistenceWindowIsOpen(o) ==
    /\ obs[o].pc = "window"
    /\ Works /\ IF evening THEN To(o, "get") ELSE Stops(o)
    /\ UNCHANGED <<day, evening, jobVars, scans, storeVars, calls>>

(* A record already published is the record of the day, else the archived  *)
(* one: an earlier observer may have stopped before publishing it.         *)
ReplayedRecord(rec) == IF archive[rec.day] # NoRecord THEN archive[rec.day] ELSE rec
Adopt(o, rec, pc) == obs' = [obs EXCEPT ![o].record = rec, ![o].pc = pc]
ReadCurrent(o) ==
    /\ obs[o].pc = "get"
    /\ \/ Breaks(o)
       \/ /\ Works
          /\ LET current == daily[obs[o].record.day]
             IN  IF current # NoRecord THEN Adopt(o, current, "confirm")
                 ELSE Adopt(o, ReplayedRecord(obs[o].record), "archive")
    /\ UNCHANGED <<day, evening, jobVars, scans, storeVars, calls>>

(* The archive of a day is written once; another record of it conflicts.   *)
ConflictNever(rec) == FALSE
Conflict(rec) == archive[rec.day] \notin {NoRecord, rec}
ArchivePhase0Observation(o) ==
    /\ obs[o].pc \in {"archive", "confirm"}
    /\ LET rec == obs[o].record
       IN  IF Conflict(rec) THEN Steps(o, "threw") /\ UNCHANGED archive
           ELSE /\ archive' = [archive EXCEPT ![rec.day] = rec]
                /\ Steps(o, IF obs[o].pc = "archive" THEN "set" ELSE "index")
    /\ UNCHANGED <<day, evening, jobVars, scans, daily, index, indexed, sent, messages, calls>>

SetOnce(o) ==
    /\ obs[o].pc = "set"
    /\ LET rec == obs[o].record
           written1 == [daily EXCEPT ![rec.day] = IF @ = NoRecord THEN rec ELSE @]
       IN  \/ Breaks(o) /\ daily' \in {daily, written1}
           \/ Steps(o, IF daily[rec.day] = NoRecord THEN "index" ELSE "raced") /\ daily' = written1
    /\ UNCHANGED <<day, evening, jobVars, scans, archive, index, indexed, sent, messages, calls>>

ReadRaced(o) ==
    /\ obs[o].pc = "raced"
    /\ Breaks(o) \/ (Works /\ Adopt(o, daily[obs[o].record.day], "confirm"))
    /\ UNCHANGED <<day, evening, jobVars, scans, storeVars, calls>>

EnsureObservationIndex(o) ==
    /\ obs[o].pc = "index"
    /\ LET d == obs[o].record.day
           others == SelectSeq(index, LAMBDA e : e # d)
           next == SubSeq(<<d>> \o others, 1, IF Len(others) < MaxDays THEN Len(others) + 1 ELSE MaxDays)
       IN  \/ Breaks(o) /\ (UNCHANGED <<index, indexed>> \/ (index' = next /\ indexed' = day))
           \/ Steps(o, "marker") /\ index' = next /\ indexed' = day
    /\ UNCHANGED <<day, evening, jobVars, scans, archive, daily, sent, messages, calls>>

ReadSentMarker(o) ==
    /\ obs[o].pc = "marker"
    /\ Breaks(o) \/ Steps(o, IF obs[o].record.day \in sent THEN "done" ELSE "send")
    /\ UNCHANGED <<day, evening, jobVars, scans, storeVars, calls>>
Send(o) ==
    /\ obs[o].pc = "send"
    /\ \/ Breaks(o) /\ messages' \in {messages, messages \cup {obs[o].record}}
       \/ Steps(o, "mark") /\ messages' = messages \cup {obs[o].record}
    /\ UNCHANGED <<day, evening, jobVars, scans, archive, daily, index, indexed, sent, calls>>
MarkSent(o) ==
    /\ obs[o].pc = "mark"
    /\ \/ Breaks(o) /\ sent' \in {sent, sent \cup {obs[o].record.day}}
       \/ Steps(o, "done") /\ sent' = sent \cup {obs[o].record.day}
    /\ UNCHANGED <<day, evening, jobVars, scans, archive, daily, index, indexed, messages, calls>>

Observe(o) ==
    \/ Call(o) \/ ReadConsumed(o) \/ GatherPhase0Evidence(o) \/ ObservationPersistenceWindowIsOpen(o)
    \/ ReadCurrent(o) \/ ArchivePhase0Observation(o) \/ SetOnce(o) \/ ReadRaced(o) \/ EnsureObservationIndex(o)
    \/ ReadSentMarker(o) \/ Send(o) \/ MarkSent(o)

-----------------------------------------------------------------------------
Evening ==
    /\ ~evening /\ evening' = TRUE /\ \A m \in marker : m.day + 1 >= day
    /\ UNCHANGED <<day, jobVars, scans, storeVars, obs, calls, faults>>
(* A record and the index expire Retention days after their last write.    *)
NextDay ==
    /\ evening /\ day + 1 \in Days /\ day' = day + 1 /\ evening' = FALSE
    /\ \A o \in Observers : ~Running(o)
    /\ history' = [j \in Live |-> <<>>] /\ tries' = [j \in Live |-> [s \in Slots[j] |-> 0]]
    /\ daily' = [d \in Days |-> IF day' - d < Retention THEN daily[d] ELSE NoRecord]
    /\ index' = IF day' - indexed < Retention THEN index ELSE <<>>
    /\ worked' = {} /\ bad' = {}
    /\ UNCHANGED <<lastRun, brokerVars, scans, archive, indexed, sent, messages, obs, calls, faults>>

Reader(job) == ReadBroker(job) \/ AppendPerformanceRow(job) \/ ReaderStops(job) \/ Answer(job)
RunSlot == \E j \in Live : \E s \in Slots[j] : WrapJob(j, s) \/ QueueMcpReadJob(j, s)
SafetyNext ==
    \/ RunSlot \/ (\E j \in BrokerReads : Reader(j)) \/ (\E m \in marker : ExpireMarker(m)) \/ (\E r \in ResearchRuns : FinishScan(r))
    \/ (\E o \in Observers : Observe(o)) \/ Evening \/ NextDay
Spec == Init /\ [][SafetyNext]_vars
-----------------------------------------------------------------------------
(* A signed daily record never changes: the archive keeps the first record *)
(* of a day, and what Redis publishes is that record or nothing            *)
(* (persistPhase0Observation, any number of observers and crashes).        *)
DayRecordImmutable ==
    [][\A d \in Days : /\ archive[d] # NoRecord => archive'[d] = archive[d]
                       /\ daily'[d] \in {NoRecord, archive'[d]}]_vars

(* A day passes the safety window only if each slot of its jobs had an     *)
(* attempt that really succeeded and no failure recorded after it, however *)
(* many receipts were lost (buildPhase0Observation).                       *)
CleanDayEarned ==
    [][\A o \in Observers :
          obs'[o].pc = "window" /\ obs[o].pc = "gather" /\ obs'[o].record.trust = "PASS"
             => \A j \in Live : \A s \in Slots[j] : <<j, s>> \in worked \ bad]_vars

(* An observer stops without a record only if one of its own calls failed, *)
(* it was called too early, or another observer worked at the same time.   *)
OnlyFaultsStopTheObserver == \A o \in Observers : obs[o].pc = "threw" => obs[o].hurt

(* A slot of a day is priced once: it has one request, asked, being read or*)
(* on record, and at most one Performance row, however often the scheduler *)
(* asks, replies are lost, and the reader dies between the row and its     *)
(* receipt and reads the request again ("making that retry a no-op rather  *)
(* than a second accounting observation", writePortfolioSnapshot).         *)
SameSlot(p, q) == p.job = q.job /\ p.day = q.day /\ p.slot = q.slot
Asked == (UNION {{queue[j][i] : i \in DOMAIN queue[j]} : j \in BrokerReads})
         \cup {reading[j].request : j \in {k \in BrokerReads : reading[k].pc # "idle"}}
         \cup {performance[i] : i \in DOMAIN performance}
SnapshotsHaveProvenance ==
    /\ \A p, q \in Asked : SameSlot(p, q) => p = q
    /\ \A i, k \in DOMAIN performance : SameSlot(performance[i], performance[k]) => i = k
===============================================================================
