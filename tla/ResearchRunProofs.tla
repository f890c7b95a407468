--------------------------- MODULE ResearchRunProofs ---------------------------
(***************************************************************************)
(* A run has one terminal record, a run reported as done or ok is one      *)
(* whose own record says completed, and the high water mark only rises,    *)
(* for any number of runs, agents, ledger rows and mishaps (ResearchRun);  *)
(* and the names an agent's scan narrows the universe to are sound on any  *)
(* day, for any budget, slate size and cohort (ResearchSlate).             *)
(***************************************************************************)
EXTENDS ResearchRun, ResearchSlate, TotalsProofs, TLAPS

-------------------------------------------------------------------------------
(* The greatest element of a finite set of naturals                        *)

\* The values of a function on 1 .. n have a bound: the least n without one is none.
LEMMA ImageBounded ==
  ASSUME NEW m \in Nat, NEW f \in [1 .. m -> Nat]
  PROVE  \E b \in Nat : \A i \in 1 .. m : f[i] <= b
  <1> DEFINE Bounded(n) == \E b \in Nat : \A i \in 1 .. n : f[i] <= b
             Bad == {n \in 0 .. m : ~ Bounded(n)}
  <1>1. SUFFICES ASSUME ~ Bounded(m) PROVE FALSE
    OBVIOUS
  <1>2. /\ Bad \in SUBSET Nat /\ m \in Bad
        /\ \A n \in 0 .. m : n \in Bad <=> ~ Bounded(n)
    <2> HIDE DEF Bounded
    <2> QED BY <1>1
  <1> HIDE DEF Bad, Bounded
  <1>3. PICK n \in Nat : n \in Bad /\ \A k \in Bad : n <= k
    BY <1>2, LeastNatural
  <1>4. Bounded(0)
    <2>1. \A i \in 1 .. 0 : f[i] <= 0
      OBVIOUS
    <2> QED BY <2>1 DEF Bounded
  <1>5. n \in 0 .. m /\ n # 0
    BY <1>2, <1>3, <1>4 DEF Bad
  <1>6. n \in 1 .. m /\ n - 1 \in 0 .. m /\ n - 1 \notin Bad
    BY <1>3, <1>5
  <1>7. PICK b \in Nat : \A i \in 1 .. n - 1 : f[i] <= b
    BY <1>2, <1>6 DEF Bounded
  <1> DEFINE c == b + f[n]
  <1>8. c \in Nat /\ b <= c /\ f[n] <= c /\ \A i \in 1 .. m : f[i] \in Nat
    BY <1>6
  <1> HIDE DEF c
  <1>9. \A i \in 1 .. n : f[i] <= c
    BY <1>6, <1>7, <1>8
  <1> QED BY <1>2, <1>3, <1>5, <1>8, <1>9 DEF Bounded

LEMMA MaxIsIn ==
  ASSUME NEW S \in SUBSET Nat, S # {}, IsFiniteSet(S)
  PROVE  Max(S) \in S /\ \A y \in S : Max(S) >= y
  <1>1. PICK m \in Nat : ExistsSurjection(1 .. m, S)
    BY FS_NatSurjection
  <1>2. PICK f \in [1 .. m -> S] : \A y \in S : \E i \in 1 .. m : f[i] = y
    BY <1>1 DEF ExistsSurjection, Surjection
  <1>3. PICK b \in Nat : \A i \in 1 .. m : f[i] <= b
    BY <1>2, ImageBounded
  <1>4. \A y \in S : y \in Nat /\ y <= b
    BY <1>2, <1>3
  <1> DEFINE T == {t \in Nat : b - t \in S}
  <1>5. T \in SUBSET Nat /\ \A y \in S : b - y \in T
    BY <1>4
  <1>6. \A t \in T : t \in Nat /\ b - t \in S
    OBVIOUS
  <1> HIDE DEF T
  <1>7. PICK t \in T : \A u \in T : t <= u
    BY <1>5, LeastNatural
  <1>8. \A y \in S : b - t >= y
    BY <1>4, <1>5, <1>6, <1>7
  <1> QED BY <1>6, <1>7, <1>8 DEF Max

-------------------------------------------------------------------------------
(* The invariant                                                           *)

Fields == {"pc", "seen", "visited", "ok", "failed", "aborted", "result"}
Statuses == {"none", "running", "completed", "failed"}
Authors == {"none", "run", "repair", "reading", "appended"}
Record == [run : Runs \cup {NoRun}, status : Statuses, by : Authors]
Ends == {"completed", "failed"}

(* What a run is about is read from records with these fields; what it saw *)
(* of the ledger may be anything.                                          *)
Types ==
  /\ run = [r \in Runs |-> run[r]] /\ \A r \in Runs : DOMAIN run[r] = Fields
  /\ marker \in [Runs -> Record] /\ history \in Seq(Record)
  /\ latest \in Record /\ repair \in Record
  /\ receipt = [r \in Runs |-> receipt[r]]

\* A kept record is the run's own and says how it ended.
MarkerIsOwn == \A r \in Runs : marker[r] # NoStatus =>
  marker[r].run = r /\ marker[r].status \in Ends /\ marker[r].by \in {"run", "repair"}

\* What is published, or about to be, is a kept record.
Published ==
  /\ latest.status \in Ends => latest.run \in Runs /\ marker[latest.run] = latest
  /\ latest.status = "running" => latest.run \in Runs
  /\ repair.by = "reading" => repair.run \in Runs
  /\ repair.by = "appended" => repair.run \in Runs /\ marker[repair.run] # NoStatus

\* The history holds the kept records, one of each run.
PlaceOf(r, h) == {i \in DOMAIN h : h[i].run = r}
HistoryIsKept ==
  /\ \A i \in DOMAIN history : history[i].run \in Runs /\ marker[history[i].run] = history[i]
  /\ \A r \in Runs : marker[r] # NoStatus => \E i \in DOMAIN history : PlaceOf(r, history) = {i}

(* A run that has a completed record wrote it itself, after every agent    *)
(* ran clean; only such a run comes back to its caller as done.            *)
Early == {"idle", "announce", "breaker", "assess", "agents"}
Closing == {"unlock", "settle", "done", "dead"}
RunIsHonest(r) ==
  /\ marker[r].status = "completed" =>
       /\ marker[r].by = "run" /\ run[r].pc \notin Early
       /\ run[r].visited = Agents /\ run[r].failed = 0 /\ ~ run[r].aborted
  /\ r \in Scans /\ run[r].result = "returned" =>
       run[r].pc \in Closing /\ marker[r].status = "completed"
  /\ run[r].pc = "append" => r \in Scans /\ run[r].visited = Agents
  /\ run[r].pc \in {"publish", "publishFailure"} => marker[r] # NoStatus
  /\ r \in Scans /\ receipt[r] = "ok" => run[r].pc = "done" /\ run[r].result = "returned"
Honest == \A r \in Runs : RunIsHonest(r)

RecordInv == Types /\ MarkerIsOwn /\ Published /\ HistoryIsKept
Inv == RecordInv /\ Honest

LEMMA NextRecordInv ==
  ASSUME Types', MarkerIsOwn', Published', HistoryIsKept' PROVE RecordInv'
  BY DEF RecordInv

-------------------------------------------------------------------------------
(* The terminal records                                                    *)

\* A record that is appended is the only one of its run, in both places.
LEMMA AppendKeeps ==
  ASSUME RecordInv, NEW r \in Runs, NEW status \in Ends, NEW by \in {"run", "repair"},
         AppendTerminal(r, status, by)
  PROVE  /\ marker' \in [Runs -> Record] /\ history' \in Seq(Record)
         /\ MarkerIsOwn' /\ HistoryIsKept'
         /\ marker[r] = NoStatus /\ marker'[r] # NoStatus
         /\ marker'[r].status = status /\ marker'[r].by = by
         /\ \A s \in Runs : s # r => marker'[s] = marker[s]
  <1> DEFINE rec == [run |-> r, status |-> status, by |-> by]
             n == Len(history) + 1
  <1>1. /\ rec \in Record /\ rec # NoStatus /\ rec.run = r
        /\ rec.status = status /\ rec.by = by
    BY RunAssumption DEF Record, NoStatus, Statuses, Authors, Ends, RunAssumption
  <1>2. /\ marker[r] = NoStatus /\ marker' = [marker EXCEPT ![r] = rec]
        /\ history' = Append(history, rec)
    BY DEF AppendTerminal
  <1> HIDE DEF rec
  <1>3. marker \in [Runs -> Record] /\ history \in Seq(Record)
    BY DEF RecordInv, Types
  <1>4. /\ marker' \in [Runs -> Record] /\ marker'[r] = rec
        /\ \A s \in Runs : s # r => marker'[s] = marker[s]
    BY <1>1, <1>2, <1>3
  <1>5. /\ history' \in Seq(Record) /\ Len(history) \in Nat /\ DOMAIN history = 1 .. Len(history)
        /\ DOMAIN history' = 1 .. n /\ history'[n] = rec
        /\ \A i \in DOMAIN history : history'[i] = history[i]
    BY <1>1, <1>2, <1>3
  <1>6. MarkerIsOwn'
    BY <1>1, <1>4 DEF RecordInv, MarkerIsOwn
  <1>7. \A i \in DOMAIN history : history[i].run \in Runs /\ history[i].run # r
    BY <1>1, <1>2, RunAssumption DEF RecordInv, HistoryIsKept, NoStatus, RunAssumption
  <1>8. HistoryIsKept'
    <2>1. \A i \in DOMAIN history' : history'[i].run \in Runs /\ marker'[history'[i].run] = history'[i]
      BY <1>1, <1>4, <1>5, <1>7 DEF RecordInv, HistoryIsKept
    <2>2. PlaceOf(r, history') = {n} /\ n \in DOMAIN history'
      BY <1>1, <1>5, <1>7 DEF PlaceOf
    <2>3. ASSUME NEW s \in Runs, s # r, marker'[s] # NoStatus
          PROVE  \E i \in DOMAIN history' : PlaceOf(s, history') = {i}
      <3>1. PICK i \in DOMAIN history : PlaceOf(s, history) = {i}
        BY <1>4, <2>3 DEF RecordInv, HistoryIsKept
      <3>2. PlaceOf(s, history') = PlaceOf(s, history)
        BY <1>1, <1>5, <2>3 DEF PlaceOf
      <3> QED BY <1>5, <3>1, <3>2
    <2> QED BY <2>1, <2>2, <2>3 DEF HistoryIsKept
  <1> QED BY <1>1, <1>2, <1>4, <1>5, <1>6, <1>8

\* A step that leaves the records and what leads to them alone.
LEMMA QuietRecords ==
  ASSUME RecordInv, UNCHANGED <<marker, history, latest, repair>>,
         run' = [s \in Runs |-> run'[s]], \A s \in Runs : DOMAIN run'[s] = Fields,
         receipt' = [s \in Runs |-> receipt'[s]]
  PROVE  RecordInv'
  BY DEF RecordInv, Types, MarkerIsOwn, Published, HistoryIsKept

-------------------------------------------------------------------------------
(* What a step does to the runs                                            *)

\* Only r moves, and it stays a run.
Moved(r) ==
  /\ run' = [s \in Runs |-> run'[s]] /\ \A s \in Runs : DOMAIN run'[s] = Fields
  /\ \A s \in Runs : s # r => run'[s] = run[s]
Quiet == UNCHANGED <<marker, history, latest, repair, receipt>>

\* Nothing a run answers for changes, unless another records that it failed.
Same(s) ==
  /\ run'[s] = run[s] /\ receipt'[s] = receipt[s]
  /\ marker'[s] = marker[s] \/ marker'[s].status = "failed"

LEMMA SameHonest ==
  ASSUME NEW s \in Runs, RunIsHonest(s), Same(s), marker[s] # NoStatus => marker'[s] = marker[s]
  PROVE  RunIsHonest(s)'
  <1>1. CASE marker'[s] = marker[s]
    BY <1>1 DEF RunIsHonest, Same
  <1>2. CASE marker'[s] # marker[s]
    <2>1. marker'[s].status = "failed" /\ marker[s] = NoStatus /\ marker[s].status = "none"
      BY <1>2 DEF Same, NoStatus
    <2> QED BY <2>1 DEF RunIsHonest, Same
  <1> QED BY <1>1, <1>2

LEMMA NextHonest == ASSUME \A s \in Runs : RunIsHonest(s)' PROVE Honest'
  BY DEF Honest

\* A quiet step of one run.
LEMMA QuietStep ==
  ASSUME Inv, Quiet, NEW r \in Runs, Moved(r), RunIsHonest(r)'
  PROVE  Inv'
  <1>1. RecordInv'
    BY QuietRecords DEF Inv, Quiet, Moved, RecordInv, Types
  <1>2. ASSUME NEW s \in Runs, s # r PROVE RunIsHonest(s)'
    BY <1>2, SameHonest DEF Same, Quiet, Moved, Inv, Honest
  <1> QED BY <1>1, <1>2, NextHonest DEF Inv

\* Before its agents have run, a run has nothing to answer for.
LEMMA EarlyStep ==
  ASSUME Inv, Quiet, NEW r \in Runs, Moved(r), run[r].pc \in Early,
         run'[r].pc \notin {"publish", "publishFailure"},
         run'[r].pc = "append" => r \in Scans /\ run'[r].visited = Agents,
         r \in Scans => run'[r].result \in {run[r].result, "thrown"}
  PROVE  Inv'
  <1>1. /\ marker[r].status # "completed"
        /\ r \in Scans => run[r].result # "returned" /\ receipt[r] # "ok"
    BY DEF Inv, Honest, RunIsHonest, Early, Closing
  <1>2. RunIsHonest(r)'
    BY <1>1 DEF RunIsHonest, Quiet
  <1> QED BY <1>2, QuietStep

\* A run that ends keeps what it did.
LEMMA ClosingStep ==
  ASSUME Inv, Quiet, NEW r \in Runs, Moved(r), run[r].pc # "done", run'[r].pc \in Closing,
         run'[r].visited = run[r].visited, run'[r].failed = run[r].failed,
         run'[r].aborted = run[r].aborted, run'[r].result = run[r].result
  PROVE  Inv'
  <1>1. RunIsHonest(r)'
    BY DEF Inv, Honest, RunIsHonest, Early, Closing, Quiet
  <1> QED BY <1>1, QuietStep

LEMMA Shape == ASSUME Inv
  PROVE run = [r \in Runs |-> run[r]] /\ \A r \in Runs : DOMAIN run[r] = Fields
  BY DEF Inv, RecordInv, Types

LEMMA StartStep == ASSUME Inv, NEW r \in Runs, Start(r) PROVE Inv'
  <1>1. /\ run[r].pc = "idle" /\ Quiet
        /\ \/ run' = [run EXCEPT ![r].pc = IF r \in Scans THEN "announce" ELSE "breaker"]
           \/ run' = [run EXCEPT ![r].pc = "settle", ![r].result = "thrown"]
    BY DEF Start, WithWorkflowLock, Goto, Quiet, statusVars
  <1>2. /\ Moved(r) /\ run'[r].pc \in {"announce", "breaker", "settle"}
        /\ run'[r].result \in {run[r].result, "thrown"}
    BY <1>1, Shape DEF Moved, Fields
  <1> QED BY <1>1, <1>2, EarlyStep DEF Early

LEMMA ReadBreakerStep == ASSUME Inv, NEW r \in Runs, ReadBreaker(r) PROVE Inv'
  <1>1. /\ run[r].pc = "breaker" /\ Quiet
        /\ \/ \E seen : run' = [run EXCEPT ![r].pc = "assess", ![r].seen = seen]
           \/ run' = [run EXCEPT ![r].pc = IF r \in Scans THEN "fail" ELSE "unlock",
                                 ![r].result = "thrown"]
    BY DEF ReadBreaker, Quiet, statusVars
  <1>2. /\ Moved(r) /\ run'[r].pc \in {"assess", "fail", "unlock"}
        /\ run'[r].result \in {run[r].result, "thrown"}
    BY <1>1, Shape DEF Moved, Fields
  <1> QED BY <1>1, <1>2, EarlyStep DEF Early

LEMMA AssessStep == ASSUME Inv, NEW r \in Runs, Assess(r) PROVE Inv'
  <1>1. /\ run[r].pc = "assess" /\ Quiet
        /\ run' = [run EXCEPT ![r].pc = "agents", ![r].seen = Idle.seen]
    BY DEF Assess, AfterAssess, Quiet, statusVars
  <1>2. Moved(r) /\ run'[r].pc = "agents" /\ run'[r].result = run[r].result
    BY <1>1, Shape DEF Moved, Fields
  <1> QED BY <1>1, <1>2, EarlyStep DEF Early

LEMMA ReviewAgentStep == ASSUME Inv, NEW r \in Runs, ReviewAgent(r) PROVE Inv'
  <1>1. run[r].pc = "agents" /\ Quiet
    BY DEF ReviewAgent, Quiet, statusVars
  <1>2. PICK good \in 0 .. 1, bad \in 0 .. 1, abort \in BOOLEAN :
          run' = [run EXCEPT ![r].visited = @ + 1, ![r].ok = Higher(@, good),
                             ![r].failed = Higher(@, bad), ![r].aborted = @ \/ abort]
    BY DEF ReviewAgent
  <1>3. Moved(r) /\ run'[r].pc = "agents" /\ run'[r].result = run[r].result
    BY <1>1, <1>2, Shape DEF Moved, Fields
  <1> QED BY <1>1, <1>3, EarlyStep DEF Early

LEMMA AgentsDoneStep == ASSUME Inv, NEW r \in Runs, AgentsDone(r) PROVE Inv'
  <1>1. /\ run[r].pc = "agents" /\ Quiet
        /\ \/ /\ r \in Scans /\ run[r].visited = Agents
              /\ run' = [run EXCEPT ![r].pc = "append"]
           \/ /\ r \notin Scans
              /\ \E x : run' = [run EXCEPT ![r].pc = "unlock", ![r].result = x]
    BY DEF AgentsDone, Goto, Quiet, statusVars
  <1>2. /\ Moved(r)
        /\ \/ /\ r \in Scans /\ run'[r].pc = "append" /\ run'[r].visited = Agents
              /\ run'[r].result = run[r].result
           \/ r \notin Scans /\ run'[r].pc = "unlock"
    BY <1>1, Shape DEF Moved, Fields
  <1> QED BY <1>1, <1>2, EarlyStep DEF Early

LEMMA ReleaseStep == ASSUME Inv, NEW r \in Runs, Release(r) \/ Kill(r) PROVE Inv'
  <1>1. /\ run[r].pc # "done" /\ Quiet
        /\ \E pc \in {"settle", "dead"} : run' = [run EXCEPT ![r].pc = pc]
    BY DEF Release, Kill, Alive, Settled, Goto, Quiet, statusVars
  <1>2. /\ Moved(r) /\ run'[r].pc \in {"settle", "dead"}
        /\ run'[r].visited = run[r].visited /\ run'[r].failed = run[r].failed
        /\ run'[r].aborted = run[r].aborted /\ run'[r].result = run[r].result
    BY <1>1, Shape DEF Moved, Fields
  <1> QED BY <1>1, <1>2, ClosingStep DEF Closing

-------------------------------------------------------------------------------
(* The steps that record and publish                                       *)

LEMMA AnnounceStep == ASSUME Inv, NEW r \in Runs, Announce(r) PROVE Inv'
  <1>1. /\ run[r].pc = "announce" /\ UNCHANGED <<marker, history, repair, receipt>>
        /\ \/ /\ run' = [run EXCEPT ![r].pc = "breaker"]
              /\ latest' = [run |-> r, status |-> "running", by |-> "run"]
           \/ /\ run' = [run EXCEPT ![r].pc = "unlock", ![r].result = "thrown"]
              /\ latest' = latest
    BY DEF Announce, Goto
  <1>2. /\ Moved(r) /\ run'[r].pc \in {"breaker", "unlock"}
        /\ run'[r].result \in {run[r].result, "thrown"}
    BY <1>1, Shape DEF Moved, Fields
  <1>3. RecordInv'
    <2>1. latest' \in Record
      BY <1>1 DEF Inv, RecordInv, Types, Record, Statuses, Authors
    <2>2. latest' = latest \/ (latest'.status = "running" /\ latest'.run \in Runs)
      BY <1>1
    <2>3. Types'
      BY <1>1, <1>2, <2>1 DEF Inv, RecordInv, Types, Moved
    <2>4. Published' /\ MarkerIsOwn' /\ HistoryIsKept'
      BY <1>1, <2>2 DEF Inv, RecordInv, MarkerIsOwn, Published, HistoryIsKept, Ends
    <2> QED BY <2>3, <2>4, NextRecordInv
  <1>4. RunIsHonest(r)'
    BY <1>1, <1>2 DEF Inv, Honest, RunIsHonest, Early, Closing
  <1>5. ASSUME NEW s \in Runs, s # r PROVE RunIsHonest(s)'
    BY <1>1, <1>2, <1>5, SameHonest DEF Same, Moved, Inv, Honest
  <1> QED BY <1>3, <1>4, <1>5, NextHonest DEF Inv

\* The record a run appends: completed only from the normal end of a clean run.
LEMMA PersistStep == ASSUME Inv, NEW r \in Runs, Persist(r) PROVE Inv'
  <1>1. /\ run[r].pc \in {"append", "fail"} /\ UNCHANGED <<latest, repair, receipt>>
        /\ \/ /\ AppendTerminal(r, RunStatus(r), "run")
              /\ run' = [run EXCEPT ![r].pc = IF run[r].pc = "append" THEN "publish"
                                              ELSE "publishFailure"]
           \/ /\ UNCHANGED <<marker, history>>
              /\ run' = [run EXCEPT ![r].pc = IF run[r].pc = "append" THEN "fail" ELSE "unlock",
                                    ![r].result = "thrown"]
    BY DEF Persist, statusVars
  <1>2. CASE UNCHANGED <<marker, history>> /\ run' = [run EXCEPT
                ![r].pc = IF run[r].pc = "append" THEN "fail" ELSE "unlock", ![r].result = "thrown"]
    <2>1. /\ Moved(r) /\ Quiet /\ run'[r].pc \in {"fail", "unlock"} /\ run'[r].result = "thrown"
          /\ run'[r].visited = run[r].visited /\ run'[r].failed = run[r].failed
          /\ run'[r].aborted = run[r].aborted
      BY <1>1, <1>2, Shape DEF Moved, Quiet, Fields
    <2>2. RunIsHonest(r)'
      BY <1>1, <2>1 DEF Inv, Honest, RunIsHonest, Early, Closing, Quiet
    <2> QED BY <2>1, <2>2, QuietStep
  <1>3. CASE /\ AppendTerminal(r, RunStatus(r), "run")
             /\ run' = [run EXCEPT ![r].pc = IF run[r].pc = "append" THEN "publish"
                                             ELSE "publishFailure"]
    <2>1. /\ Moved(r) /\ run'[r].pc \in {"publish", "publishFailure"}
          /\ run'[r].visited = run[r].visited /\ run'[r].failed = run[r].failed
          /\ run'[r].aborted = run[r].aborted /\ run'[r].result = run[r].result
      BY <1>3, Shape DEF Moved, Fields
    <2>2. /\ RunStatus(r) \in Ends
          /\ RunStatus(r) = "completed" =>
               run[r].pc = "append" /\ run[r].failed = 0 /\ ~ run[r].aborted
      <3>1. ClassifyResearchRunOutcome(r) = "ok" => run[r].failed = 0 /\ ~ run[r].aborted
        BY DEF ClassifyResearchRunOutcome
      <3> QED BY <3>1 DEF RunStatus, Ends
    <2>3. /\ marker' \in [Runs -> Record] /\ history' \in Seq(Record)
          /\ MarkerIsOwn' /\ HistoryIsKept'
          /\ marker[r] = NoStatus /\ marker'[r] # NoStatus
          /\ marker'[r].status = RunStatus(r) /\ marker'[r].by = "run"
          /\ \A s \in Runs : s # r => marker'[s] = marker[s]
      BY <1>3, <2>2, AppendKeeps DEF Inv
    <2>4. Types'
      BY <1>1, <2>1, <2>3 DEF Inv, RecordInv, Types, Moved
    <2>5. \A s \in Runs : marker[s] # NoStatus => marker'[s] = marker[s]
      BY <2>3
    <2>6. Published'
      <3>1. latest.status \in Ends => marker[latest.run] # NoStatus /\ latest.run \in Runs
        BY DEF Inv, RecordInv, Published, NoStatus, Ends
      <3> QED BY <1>1, <2>5, <3>1 DEF Inv, RecordInv, Published
    <2>7. RunIsHonest(r)'
      <3>1. run[r].pc = "append" => run[r].visited = Agents
        BY DEF Inv, Honest, RunIsHonest
      <3>2. /\ r \in Scans => run[r].result # "returned" /\ receipt[r] # "ok"
        BY <1>1 DEF Inv, Honest, RunIsHonest, Closing
      <3> QED BY <1>1, <2>1, <2>2, <2>3, <3>1, <3>2 DEF RunIsHonest, Early
    <2>8. ASSUME NEW s \in Runs, s # r PROVE RunIsHonest(s)'
      BY <1>1, <2>1, <2>3, <2>8, SameHonest DEF Same, Moved, Inv, Honest
    <2> QED BY <2>3, <2>4, <2>6, <2>7, <2>8, NextHonest, NextRecordInv DEF Inv
  <1> QED BY <1>1, <1>2, <1>3

\* A kept record is published as it is.
LEMMA PublishedRecord ==
  ASSUME Inv, NEW r \in Runs, marker[r] # NoStatus
  PROVE  /\ marker[r] \in Record /\ marker[r].run = r /\ marker[r].status \in Ends
         /\ marker[r].status # "running"
  BY DEF Inv, RecordInv, Types, MarkerIsOwn, Ends

LEMMA PublishStep == ASSUME Inv, NEW r \in Runs, Publish(r) PROVE Inv'
  <1>1. /\ run[r].pc \in {"publish", "publishFailure"}
        /\ UNCHANGED <<marker, history, repair, receipt>>
        /\ \/ /\ latest' = marker[r]
              /\ run' = [run EXCEPT ![r].pc = "unlock",
                       ![r].result = IF run[r].pc = "publish" /\ marker[r].status = "completed"
                                     THEN "returned" ELSE "thrown"]
           \/ /\ latest' = latest
              /\ run' = [run EXCEPT ![r].pc = IF run[r].pc = "publish" THEN "fail" ELSE "unlock",
                                    ![r].result = "thrown"]
    BY DEF Publish
  <1>2. /\ Moved(r) /\ run'[r].pc \in {"unlock", "fail"}
        /\ run'[r].visited = run[r].visited /\ run'[r].failed = run[r].failed
        /\ run'[r].aborted = run[r].aborted
        /\ run'[r].result = "returned" => run'[r].pc = "unlock" /\ marker[r].status = "completed"
    BY <1>1, Shape DEF Moved, Fields
  <1>3. marker[r] # NoStatus /\ (r \in Scans => receipt[r] # "ok")
    BY <1>1 DEF Inv, Honest, RunIsHonest
  <1>4. RecordInv'
    <2>1. latest' \in {latest, marker[r]}
      BY <1>1
    <2>2. Types'
      BY <1>1, <1>2, <1>3, <2>1, PublishedRecord DEF Inv, RecordInv, Types, Moved
    <2>3. Published'
      BY <1>1, <1>3, <2>1, PublishedRecord DEF Inv, RecordInv, Published
    <2>4. MarkerIsOwn' /\ HistoryIsKept'
      BY <1>1 DEF Inv, RecordInv, MarkerIsOwn, HistoryIsKept
    <2> QED BY <2>2, <2>3, <2>4, NextRecordInv
  <1>5. RunIsHonest(r)'
    BY <1>1, <1>2, <1>3 DEF Inv, Honest, RunIsHonest, Early, Closing
  <1>6. ASSUME NEW s \in Runs, s # r PROVE RunIsHonest(s)'
    BY <1>1, <1>2, <1>6, SameHonest DEF Same, Moved, Inv, Honest
  <1> QED BY <1>4, <1>5, <1>6, NextHonest DEF Inv

-------------------------------------------------------------------------------
(* The caller, the restart and the repair                                  *)

LEMMA SettleStep == ASSUME Inv, NEW r \in Runs, Settle(r) PROVE Inv'
  <1>1. /\ run[r].pc = "settle" /\ run' = [run EXCEPT ![r].pc = "done"]
        /\ UNCHANGED <<marker, history, latest, repair>>
        /\ \/ receipt' = receipt
           \/ receipt' = [receipt EXCEPT ![r] = IF run[r].result = "returned" THEN "ok" ELSE "failed"]
    BY DEF Settle, Goto, statusVars
  <1>2. /\ Moved(r) /\ run'[r].pc = "done" /\ run'[r].result = run[r].result
        /\ run'[r].visited = run[r].visited /\ run'[r].failed = run[r].failed
        /\ run'[r].aborted = run[r].aborted
    BY <1>1, Shape DEF Moved, Fields
  <1>3. /\ receipt' = [s \in Runs |-> receipt'[s]]
        /\ \A s \in Runs : s # r => receipt'[s] = receipt[s]
        /\ receipt'[r] = "ok" => receipt[r] = "ok" \/ run[r].result = "returned"
    BY <1>1 DEF Inv, RecordInv, Types
  <1>4. RecordInv'
    BY <1>1, <1>2, <1>3, QuietRecords DEF Inv, Moved
  <1>5. RunIsHonest(r)'
    BY <1>1, <1>2, <1>3 DEF Inv, Honest, RunIsHonest, Early, Closing
  <1>6. ASSUME NEW s \in Runs, s # r PROVE RunIsHonest(s)'
    BY <1>1, <1>2, <1>3, <1>6, SameHonest DEF Same, Moved, Inv, Honest
  <1> QED BY <1>4, <1>5, <1>6, NextHonest DEF Inv

\* A run that dies answers for what it did, and for nothing more.
LEMMA CrashStep == ASSUME Inv, Crash PROVE Inv'
  <1>1. /\ UNCHANGED <<marker, history, latest, receipt>> /\ repair' = NoStatus
        /\ run' = [s \in Runs |-> IF s \in Service /\ Alive(s)
                                  THEN [run[s] EXCEPT !.pc = "dead"] ELSE run[s]]
    BY DEF Crash, statusVars
  <1>2. ASSUME NEW s \in Runs
        PROVE  /\ DOMAIN run'[s] = Fields
               /\ \/ run'[s] = run[s]
                  \/ /\ run[s].pc # "done" /\ run'[s].pc = "dead"
                     /\ run'[s].visited = run[s].visited /\ run'[s].failed = run[s].failed
                     /\ run'[s].aborted = run[s].aborted /\ run'[s].result = run[s].result
    BY <1>1, Shape DEF Alive, Settled, Fields
  <1>3. RecordInv'
    <2>1. NoStatus \in Record
      BY DEF NoStatus, Record, Statuses, Authors
    <2>2. /\ run' = [s \in Runs |-> run'[s]] /\ \A s \in Runs : DOMAIN run'[s] = Fields
          /\ receipt' = [s \in Runs |-> receipt'[s]]
      <3>1. run' = [s \in Runs |-> run'[s]]
        BY <1>1
      <3> QED BY <1>1, <1>2, <3>1 DEF Inv, RecordInv, Types
    <2>3. Types'
      <3>1. marker' \in [Runs -> Record] /\ history' \in Seq(Record) /\ latest' \in Record
        BY <1>1 DEF Inv, RecordInv, Types
      <3> QED BY <1>1, <2>1, <2>2, <3>1 DEF Types
    <2>4. Published' /\ MarkerIsOwn' /\ HistoryIsKept'
      BY <1>1 DEF Inv, RecordInv, Published, MarkerIsOwn, HistoryIsKept, NoStatus
    <2> QED BY <2>3, <2>4, NextRecordInv
  <1>4. ASSUME NEW s \in Runs PROVE RunIsHonest(s)'
    <2>1. RunIsHonest(s) /\ marker'[s] = marker[s] /\ receipt'[s] = receipt[s]
      BY <1>1 DEF Inv, Honest
    <2>2. CASE run'[s] = run[s]
      BY <2>1, <2>2 DEF RunIsHonest
    <2>3. CASE run'[s] # run[s]
      <3>1. /\ run[s].pc # "done" /\ run'[s].pc = "dead"
            /\ run'[s].visited = run[s].visited /\ run'[s].failed = run[s].failed
            /\ run'[s].aborted = run[s].aborted /\ run'[s].result = run[s].result
        BY <1>2, <2>3
      <3> QED BY <2>1, <3>1 DEF RunIsHonest, Early, Closing
    <2> QED BY <2>2, <2>3
  <1> QED BY <1>3, <1>4, NextHonest DEF Inv

\* Steps that touch no run.
LEMMA OthersHonest ==
  ASSUME Inv, UNCHANGED <<run, receipt>>,
         \A s \in Runs : \/ marker'[s] = marker[s]
                         \/ marker[s] = NoStatus /\ marker'[s].status = "failed"
  PROVE  Honest'
  <1>1. ASSUME NEW s \in Runs PROVE RunIsHonest(s)'
    BY SameHonest DEF Same, Inv, Honest
  <1> QED BY <1>1, NextHonest

LEMMA RestartStep == ASSUME Inv, Restart PROVE Inv'
  <1>1. /\ UNCHANGED <<run, marker, history, latest, receipt>>
        /\ \/ latest.status = "running" /\ repair' = [latest EXCEPT !.by = "reading"]
           \/ repair' = NoStatus
    BY DEF Restart, statusVars
  <1>2. /\ repair' \in Record /\ repair'.by # "appended"
        /\ repair'.by = "reading" => repair'.run \in Runs
    <2>1. CASE repair' = NoStatus
      BY <2>1 DEF NoStatus, Record, Statuses, Authors
    <2>2. CASE latest.status = "running" /\ repair' = [latest EXCEPT !.by = "reading"]
      BY <2>2 DEF Inv, RecordInv, Types, Published, Record, Authors
    <2> QED BY <1>1, <2>1, <2>2
  <1>3. RecordInv'
    BY <1>1, <1>2 DEF Inv, RecordInv, Types, Published, MarkerIsOwn, HistoryIsKept
  <1> QED BY <1>1, <1>3, OthersHonest DEF Inv

LEMMA RepairAppendStep == ASSUME Inv, RepairAppend PROVE Inv'
  <1>1. /\ repair.by = "reading" /\ UNCHANGED <<run, latest, receipt>>
        /\ \/ /\ AppendTerminal(repair.run, "failed", "repair")
              /\ repair' = [repair EXCEPT !.by = "appended"]
           \/ repair' = NoStatus /\ UNCHANGED <<marker, history>>
    BY DEF RepairAppend
  <1>2. repair.run \in Runs
    BY <1>1 DEF Inv, RecordInv, Published
  <1>3. CASE repair' = NoStatus /\ UNCHANGED <<marker, history>>
    <2>1. repair' \in Record
      BY <1>3 DEF NoStatus, Record, Statuses, Authors
    <2>2. RecordInv'
      BY <1>1, <1>3, <2>1
         DEF Inv, RecordInv, Types, Published, MarkerIsOwn, HistoryIsKept, NoStatus
    <2> QED BY <1>1, <1>3, <2>2, OthersHonest DEF Inv
  <1>4. CASE /\ AppendTerminal(repair.run, "failed", "repair")
             /\ repair' = [repair EXCEPT !.by = "appended"]
    <2>1. /\ marker' \in [Runs -> Record] /\ history' \in Seq(Record)
          /\ MarkerIsOwn' /\ HistoryIsKept'
          /\ marker[repair.run] = NoStatus /\ marker'[repair.run] # NoStatus
          /\ marker'[repair.run].status = "failed"
          /\ \A s \in Runs : s # repair.run => marker'[s] = marker[s]
      BY <1>2, <1>4, AppendKeeps DEF Inv, Ends
    <2>2. repair' \in Record /\ repair'.by = "appended" /\ repair'.run = repair.run
      BY <1>4 DEF Inv, RecordInv, Types, Record, Authors
    <2>3. Types'
      BY <1>1, <2>1, <2>2 DEF Inv, RecordInv, Types
    <2>4. Published'
      <3>1. latest.status \in Ends => marker[latest.run] # NoStatus /\ latest.run \in Runs
        BY DEF Inv, RecordInv, Published, NoStatus, Ends
      <3> QED BY <1>1, <1>2, <2>1, <2>2, <3>1 DEF Inv, RecordInv, Published
    <2>5. Honest'
      BY <1>1, <2>1, OthersHonest
    <2> QED BY <2>1, <2>3, <2>4, <2>5, NextRecordInv DEF Inv
  <1> QED BY <1>1, <1>3, <1>4

LEMMA RepairPublishStep == ASSUME Inv, RepairPublish PROVE Inv'
  <1>1. /\ repair.by = "appended" /\ repair' = NoStatus
        /\ UNCHANGED <<run, marker, history, receipt>>
        /\ latest' \in {latest, marker[repair.run]}
    BY DEF RepairPublish
  <1>2. repair.run \in Runs /\ marker[repair.run] # NoStatus
    BY <1>1 DEF Inv, RecordInv, Published
  <1>3. /\ latest' \in Record
        /\ latest'.status \in Ends => latest'.run \in Runs /\ marker[latest'.run] = latest'
        /\ latest'.status = "running" => latest'.run \in Runs
    BY <1>1, <1>2, PublishedRecord DEF Inv, RecordInv, Types, Published
  <1>4. repair' \in Record /\ repair'.by = "none"
    BY <1>1 DEF NoStatus, Record, Statuses, Authors
  <1>5. RecordInv'
    BY <1>1, <1>3, <1>4 DEF Inv, RecordInv, Types, Published, MarkerIsOwn, HistoryIsKept
  <1> QED BY <1>1, <1>5, OthersHonest DEF Inv

\* Steps that touch neither the runs nor their records.
LEMMA OtherStep ==
  ASSUME Inv, UNCHANGED <<run, marker, history, latest, repair, receipt>> PROVE Inv'
  BY DEF Inv, RecordInv, Types, MarkerIsOwn, Published, HistoryIsKept, Honest, RunIsHonest

-------------------------------------------------------------------------------
(* The theorems                                                            *)

LEMMA InvInit == ASSUME Init PROVE Inv
  <1>1. /\ run = [r \in Runs |-> Idle] /\ repair = NoStatus /\ latest = NoStatus
        /\ marker = [r \in Runs |-> NoStatus] /\ history = <<>>
        /\ receipt = [r \in Runs |-> "none"]
    BY DEF Init
  <1>2. NoStatus \in Record /\ DOMAIN Idle = Fields
    BY DEF NoStatus, Record, Statuses, Authors, Idle, Fields
  <1>3. Types
    BY <1>1, <1>2 DEF Types
  <1>4. MarkerIsOwn /\ Published /\ HistoryIsKept
    BY <1>1 DEF MarkerIsOwn, Published, HistoryIsKept, NoStatus, Ends
  <1>5. Honest
    BY <1>1 DEF Honest, RunIsHonest, Idle, NoStatus, Early, Closing
  <1> QED BY <1>3, <1>4, <1>5 DEF Inv, RecordInv

LEMMA InvStep == ASSUME Inv, [RunNext]_vars PROVE Inv'
  <1>1. ASSUME NEW r \in Runs, Start(r) \/ Step(r) \/ Kill(r) \/ LabExpires(r) PROVE Inv'
    <2>1. CASE LabExpires(r)
      BY <2>1, OtherStep DEF LabExpires, statusVars
    <2>2. CASE Step(r)
      BY <2>2, AnnounceStep, ReadBreakerStep, AssessStep, ReviewAgentStep, AgentsDoneStep,
         PersistStep, PublishStep, ReleaseStep, SettleStep, Zenon DEF Step
    <2> QED BY <1>1, <2>1, <2>2, StartStep, ReleaseStep
  <1>2. ASSUME Recover PROVE Inv'
    BY <1>2, RestartStep, RepairAppendStep, RepairPublishStep DEF Recover
  <1>3. ASSUME LockExpires \/ AddRow \/ DeleteRow \/ RecomputeRead \/ RecomputeApply PROVE Inv'
    BY <1>3, OtherStep DEF LockExpires, AddRow, DeleteRow, RecomputeRead, RecomputeApply, statusVars
  <1>4. ASSUME UNCHANGED vars PROVE Inv'
    BY <1>4, OtherStep DEF vars, statusVars
  <1>5. RunNext \/ UNCHANGED vars
    OBVIOUS
  <1> QED BY <1>1, <1>2, <1>3, <1>4, <1>5, CrashStep, Zenon DEF RunNext

(* The invariant the theorems below rest on.                               *)
THEOREM RecordsHold == RunSpec => []Inv
  <1> QED BY InvInit, InvStep, PTL DEF RunSpec

(* Every run has at most one terminal record, and it is the one in the     *)
(* history: the append script keeps the first of a run, whether the run or *)
(* the repair wrote it; a terminal status is published from a kept record. *)
THEOREM OneRecordEach == RunSpec => []OneTerminalRecord
  <1>1. ASSUME Inv PROVE OneTerminalRecord
    <2>1. ASSUME NEW r \in Runs, marker[r] # NoStatus
          PROVE  Cardinality({i \in DOMAIN history : history[i].run = r}) = 1
      <3>1. PICK i \in DOMAIN history : PlaceOf(r, history) = {i}
        BY <1>1, <2>1 DEF Inv, RecordInv, HistoryIsKept
      <3>2. Cardinality({i}) = 1
        BY FS_Singleton
      <3> QED BY <3>1, <3>2 DEF PlaceOf
    <2>2. \A i \in DOMAIN history : marker[history[i].run] = history[i]
      BY <1>1 DEF Inv, RecordInv, HistoryIsKept
    <2>3. latest.status \in {"completed", "failed"} => marker[latest.run] = latest
      BY <1>1 DEF Inv, RecordInv, Published, Ends
    <2> QED BY <2>1, <2>2, <2>3 DEF OneTerminalRecord
  <1> QED BY <1>1, RecordsHold, PTL

(* A scan comes back as done, and a scheduled run's receipt says ok, only  *)
(* when its own record says completed after every agent ran and no review  *)
(* failed, whatever call fails and whenever the service dies or repairs.   *)
THEOREM GreenHolds == RunSpec => []GreenIsClean
  <1>1. ASSUME Inv PROVE GreenIsClean
    <2>1. ASSUME NEW r \in Scans, run[r].result = "returned" \/ receipt[r] = "ok"
          PROVE  /\ marker[r] = [run |-> r, status |-> "completed", by |-> "run"]
                 /\ run[r].visited = Agents /\ run[r].failed = 0 /\ ~ run[r].aborted
      <3>1. r \in Runs
        BY DEF Scans
      <3>2. /\ marker[r].status = "completed" /\ marker[r].by = "run"
            /\ run[r].visited = Agents /\ run[r].failed = 0 /\ ~ run[r].aborted
        BY <1>1, <2>1, <3>1 DEF Inv, Honest, RunIsHonest
      <3>3. marker[r].run = r /\ marker[r] \in Record
        BY <1>1, <3>1, <3>2, PublishedRecord DEF NoStatus
      <3> QED BY <3>2, <3>3 DEF Record
    <2> QED BY <2>1 DEF GreenIsClean
  <1> QED BY <1>1, RecordsHold, PTL

-------------------------------------------------------------------------------
(* The high water mark                                                     *)

(* Amounts are numbers, and there is a row; only the holder of the lock is *)
(* between its start and its agents, so what it read of the mark is still  *)
(* the mark, unless an operator's recomputation is counted.                *)
Row == [day : Nat, nav : Nat]
First == {"announce", "breaker", "assess"}
MarkTypes ==
  /\ rows \in Seq(Row) /\ Len(rows) >= 1 /\ stored.value \in Int /\ applying.value \in Int
  /\ "value" \in DOMAIN applying /\ repairs \in Nat /\ (applying # Unseen => repairs > 0)
MarkOfRun(r) ==
  /\ run[r].pc \in First => lock = r
  /\ run[r].pc = "assess" =>
       /\ run[r].seen.rows \in Seq(Row) /\ run[r].seen.stored.value \in Int
       /\ run[r].seen.blind \/ repairs > 0 \/ run[r].seen.stored = stored
MarkInv == MarkTypes /\ \A r \in Runs : MarkOfRun(r)

LEMMA ImageIsFinite ==
  ASSUME NEW S, NEW f, IsFiniteSet(S) PROVE IsFiniteSet({f[x] : x \in S})
  <1> DEFINE T == {f[x] : x \in S}
             g == [x \in S |-> f[x]]
  <1>1. g \in Surjection(S, T)
    BY DEF Surjection
  <1> QED BY <1>1, FS_Surjection

\* The basis of a ledger is made of its rows' amounts.
LEMMA BasisIsNumber ==
  ASSUME NEW s \in Seq(Row)
  PROVE  /\ DeriveDailyNavBreakerBasis(s).current \in Int
         /\ DeriveDailyNavBreakerBasis(s).mark \in Int
  <1> DEFINE days == {s[i].day : i \in DOMAIN s}
             of(d) == {i \in DOMAIN s : s[i].day = d}
             last(d) == s[Max(of(d))].nav
             marks == {last(d) : d \in days}
  <1>1. CASE s = <<>>
    BY <1>1 DEF DeriveDailyNavBreakerBasis, None
  <1>2. CASE s # <<>>
    <2>1. /\ DOMAIN s = 1 .. Len(s) /\ Len(s) \in Nat /\ 1 \in DOMAIN s
          /\ IsFiniteSet(DOMAIN s) /\ \A i \in DOMAIN s : s[i].day \in Nat /\ s[i].nav \in Nat
      <3>1. DOMAIN s = 1 .. Len(s) /\ Len(s) \in Nat /\ 1 \in DOMAIN s
        BY <1>2
      <3>2. IsFiniteSet(1 .. Len(s))
        BY <3>1, FS_Interval
      <3>3. \A i \in DOMAIN s : s[i] \in Row
        BY <3>1
      <3>4. IsFiniteSet(DOMAIN s)
        BY <3>1, <3>2, Zenon
      <3> QED BY <3>1, <3>3, <3>4 DEF Row
    <2>2. IsFiniteSet(days) /\ days \in SUBSET Nat /\ days # {}
      <3> DEFINE f == [i \in DOMAIN s |-> s[i].day]
      <3>1. days = {f[i] : i \in DOMAIN s}
        OBVIOUS
      <3> HIDE DEF f
      <3>2. IsFiniteSet({f[i] : i \in DOMAIN s})
        BY <2>1, ImageIsFinite
      <3>3. days \in SUBSET Nat /\ days # {}
        BY <2>1
      <3> HIDE DEF days
      <3> QED BY <3>1, <3>2, <3>3
    <2>3. ASSUME NEW d \in days PROVE last(d) \in Nat
      <3>1. of(d) \in SUBSET Nat /\ of(d) # {} /\ of(d) \in SUBSET (DOMAIN s)
        BY <2>1
      <3>2. IsFiniteSet(of(d))
        BY <2>1, <3>1, FS_Subset
      <3>3. Max(of(d)) \in of(d)
        <4> HIDE DEF of
        <4> QED BY <3>1, <3>2, MaxIsIn
      <3> QED BY <2>1, <3>1, <3>3
    <2>4. IsFiniteSet(marks)
      <3> DEFINE f == [d \in days |-> last(d)]
      <3> HIDE DEF days, last
      <3>1. marks = {f[d] : d \in days}
        OBVIOUS
      <3> HIDE DEF f
      <3>2. IsFiniteSet({f[d] : d \in days})
        BY <2>2, ImageIsFinite
      <3> QED BY <3>1, <3>2
    <2> HIDE DEF days, last
    <2>5. marks \in SUBSET Nat /\ marks # {} /\ Max(days) \in days
      BY <2>2, <2>3, MaxIsIn
    <2>6. Max(marks) \in Nat /\ last(Max(days)) \in Nat
      <3> HIDE DEF marks
      <3> QED BY <2>3, <2>4, <2>5, MaxIsIn
    <2>7. /\ DeriveDailyNavBreakerBasis(s).current = last(Max(days))
          /\ DeriveDailyNavBreakerBasis(s).mark = Max(marks)
      BY <1>2 DEF DeriveDailyNavBreakerBasis, days, last, of
    <2> QED BY <2>6, <2>7
  <1> QED BY <1>1, <1>2

\* One run moves, and what the mark rests on stays.
LEMMA MarkMove ==
  ASSUME Inv, MarkInv, NEW r \in Runs, Moved(r), UNCHANGED <<rows, stored, applying, repairs>>,
         lock' = lock \/ lock \in {r, NoRun}, run'[r].pc \in First => lock' = r,
         run'[r].pc # "assess"
  PROVE  MarkInv'
  <1>1. MarkTypes'
    BY DEF MarkInv, MarkTypes
  <1>2. MarkOfRun(r)'
    BY DEF MarkOfRun
  <1>3. ASSUME NEW s \in Runs, s # r PROVE MarkOfRun(s)'
    <2>1. run'[s] = run[s] /\ MarkOfRun(s)
      BY <1>3 DEF Moved, MarkInv
    <2>2. run[s].pc \in First => lock' = s
      BY <1>3, <2>1, RunAssumption DEF MarkOfRun, RunAssumption
    <2> QED BY <2>1, <2>2 DEF MarkOfRun
  <1> QED BY <1>1, <1>2, <1>3 DEF MarkInv

\* No run moves, and neither does the mark.
LEMMA MarkStays ==
  ASSUME MarkInv, MarkTypes', UNCHANGED <<run, stored, lock>>, repairs' >= repairs
  PROVE  MarkInv'
  <1>1. ASSUME NEW s \in Runs PROVE MarkOfRun(s)'
    BY DEF MarkInv, MarkOfRun, MarkTypes
  <1> QED BY <1>1 DEF MarkInv

LEMMA MarkStart == ASSUME Inv, MarkInv, NEW r \in Runs, Start(r) PROVE MarkInv'
  <1>1. /\ UNCHANGED <<rows, stored, applying, repairs>>
        /\ \/ /\ lock = NoRun /\ lock' = r
              /\ run' = [run EXCEPT ![r].pc = IF r \in Scans THEN "announce" ELSE "breaker"]
           \/ lock' = lock /\ run' = [run EXCEPT ![r].pc = "settle", ![r].result = "thrown"]
    BY DEF Start, WithWorkflowLock, Goto, breakerVars, countVars
  <1>2. Moved(r) /\ run'[r].pc # "assess" /\ (run'[r].pc \in First => lock' = r)
    BY <1>1, Shape DEF Moved, Fields, First
  <1> QED BY <1>1, <1>2, MarkMove

LEMMA MarkAnnounce == ASSUME Inv, MarkInv, NEW r \in Runs, Announce(r) PROVE MarkInv'
  <1>1. /\ UNCHANGED <<rows, stored, applying, repairs, lock>> /\ run[r].pc = "announce"
        /\ \/ run' = [run EXCEPT ![r].pc = "breaker"]
           \/ run' = [run EXCEPT ![r].pc = "unlock", ![r].result = "thrown"]
    BY DEF Announce, Goto, breakerVars
  <1>2. Moved(r) /\ run'[r].pc # "assess" /\ lock = r
    BY <1>1, Shape DEF Moved, Fields, First, MarkInv, MarkOfRun
  <1> QED BY <1>1, <1>2, MarkMove

\* What a run reads of the mark is the mark.
LEMMA MarkRead == ASSUME Inv, MarkInv, NEW r \in Runs, ReadBreaker(r) PROVE MarkInv'
  <1>1. /\ UNCHANGED <<rows, stored, applying, repairs, lock>> /\ run[r].pc = "breaker"
        /\ \/ \E seen \in [rows : {rows, <<>>}, stored : {stored}, blind : {FALSE}]
                          \cup [rows : {rows, <<>>}, stored : {Unseen}, blind : {TRUE}] :
                run' = [run EXCEPT ![r].pc = "assess", ![r].seen = seen]
           \/ run' = [run EXCEPT ![r].pc = IF r \in Scans THEN "fail" ELSE "unlock",
                                 ![r].result = "thrown"]
    BY DEF ReadBreaker, breakerVars
  <1>2. CASE run' = [run EXCEPT ![r].pc = IF r \in Scans THEN "fail" ELSE "unlock",
                                ![r].result = "thrown"]
    <2>1. Moved(r) /\ run'[r].pc \in {"fail", "unlock"}
      BY <1>2, Shape DEF Moved, Fields
    <2> QED BY <1>1, <2>1, MarkMove DEF First
  <1>3. ASSUME NEW seen \in [rows : {rows, <<>>}, stored : {stored}, blind : {FALSE}]
                            \cup [rows : {rows, <<>>}, stored : {Unseen}, blind : {TRUE}],
               run' = [run EXCEPT ![r].pc = "assess", ![r].seen = seen]
        PROVE  MarkInv'
    <2>1. Moved(r) /\ run'[r].pc = "assess" /\ run'[r].seen = seen
      BY <1>3, Shape DEF Moved, Fields
    <2>2. MarkTypes'
      BY <1>1 DEF MarkInv, MarkTypes
    <2>3. seen.rows \in Seq(Row) /\ seen.stored.value \in Int /\ (seen.blind \/ seen.stored = stored)
      <3>1. rows \in Seq(Row) /\ <<>> \in Seq(Row) /\ stored.value \in Int /\ Unseen.value \in Int
        BY DEF MarkInv, MarkTypes, Unseen, None
      <3>2. /\ seen.rows \in {rows, <<>>}
            /\ seen.stored = stored \/ (seen.stored = Unseen /\ seen.blind)
        OBVIOUS
      <3> QED BY <3>1, <3>2
    <2>4. lock = r
      BY <1>1 DEF MarkInv, MarkOfRun, First
    <2>5. MarkOfRun(r)'
      BY <1>1, <2>1, <2>3, <2>4 DEF MarkOfRun
    <2>6. ASSUME NEW s \in Runs, s # r PROVE MarkOfRun(s)'
      BY <1>1, <2>1, <2>6 DEF MarkInv, MarkOfRun, Moved
    <2> QED BY <2>2, <2>5, <2>6 DEF MarkInv
  <1> QED BY <1>1, <1>2, <1>3

\* The record an assessment leaves: one of its own, or the one that was there.
LEMMA AssessWrites ==
  ASSUME MarkInv, NEW r \in Runs, Assess(r)
  PROVE  \E total \in Totals :
           LET seen == run[r].seen
               daily == DeriveDailyNavBreakerBasis(seen.rows)
               nav == ReconcileNavHighWaterMark(daily, seen.stored)
               verdict == ResolveCircuitBreaker(daily, nav, seen.stored, total)
           IN  \/ stored' = stored
               \/ /\ stored'.value = verdict.record.value
                  /\ stored'.basis = verdict.record.basis
  <1>1. PICK total \in Totals, daily \in {DeriveDailyNavBreakerBasis(run[r].seen.rows)} :
          \E nav \in {ReconcileNavHighWaterMark(daily, run[r].seen.stored)} :
          \E verdict \in {ResolveCircuitBreaker(daily, nav, run[r].seen.stored, total)} :
             stored' \in Marks(verdict, nav.key) \cup {stored}
    <2>1. PICK total \in Totals, daily \in {DeriveDailyNavBreakerBasis(run[r].seen.rows)} :
            \E nav \in {ReconcileNavHighWaterMark(daily, run[r].seen.stored)} :
            \E verdict \in {ResolveCircuitBreaker(daily, nav, run[r].seen.stored, total)} :
               stored' \in Marks(verdict, nav.key) \/ stored' = stored
      BY Zenon DEF Assess
    <2> QED BY <2>1, Zenon
  <1>2. PICK nav \in {ReconcileNavHighWaterMark(daily, run[r].seen.stored)} :
          \E verdict \in {ResolveCircuitBreaker(daily, nav, run[r].seen.stored, total)} :
             stored' \in Marks(verdict, nav.key) \cup {stored}
    BY <1>1, Zenon
  <1>3. PICK verdict \in {ResolveCircuitBreaker(daily, nav, run[r].seen.stored, total)} :
             stored' \in Marks(verdict, nav.key) \cup {stored}
    BY <1>2, Zenon
  <1>4. {"value", "basis", "alert"} \subseteq DOMAIN verdict.record
    <2>1. verdict = ResolveCircuitBreaker(daily, nav, run[r].seen.stored, total)
      BY <1>3, Zenon
    <2> DEFINE old == run[r].seen.stored
               onNav == OnNavBasis(daily, old)
               basis == IF onNav THEN "navPerUnit" ELSE IF total # None THEN "totalValue" ELSE "none"
               prior == IF onNav THEN nav.mark ELSE IF old.basis = basis THEN old.value ELSE None
               judged == AssessCircuitBreaker(IF onNav THEN daily.current ELSE total, prior)
               record == [value |-> judged.mark, basis |-> basis,
                          rows |-> IF onNav THEN nav.rows ELSE None,
                          ledger |-> IF onNav THEN nav.ledger ELSE None,
                          alert |-> IF onNav /\ nav.key # <<>> THEN old.alert ELSE <<>>]
    <2>2. ResolveCircuitBreaker(daily, nav, old, total) =
            [tier |-> judged.tier, writes |-> judged.mark # None /\ basis # "none",
             alerts |-> onNav /\ nav.shouldAlert, record |-> record]
      BY DEF ResolveCircuitBreaker
    <2> HIDE DEF onNav, basis, judged
    <2>3. {"value", "basis", "alert"} \subseteq DOMAIN record
      OBVIOUS
    <2> HIDE DEF record
    <2>4. verdict.record = record
      BY <2>1, <2>2
    <2> QED
      BY <2>3, <2>4
  <1>5. \/ stored' = stored
        \/ stored'.value = verdict.record.value /\ stored'.basis = verdict.record.basis
    <2>1. \/ stored' = stored \/ stored' = verdict.record
          \/ stored' = [verdict.record EXCEPT !.alert = nav.key]
      BY <1>3 DEF Marks
    <2> QED BY <1>4, <2>1
  <1>6. /\ total \in Totals /\ daily = DeriveDailyNavBreakerBasis(run[r].seen.rows)
        /\ nav = ReconcileNavHighWaterMark(daily, run[r].seen.stored)
        /\ verdict = ResolveCircuitBreaker(daily, nav, run[r].seen.stored, total)
    <2>1. /\ total \in Totals /\ daily \in {DeriveDailyNavBreakerBasis(run[r].seen.rows)}
          /\ nav \in {ReconcileNavHighWaterMark(daily, run[r].seen.stored)}
          /\ verdict \in {ResolveCircuitBreaker(daily, nav, run[r].seen.stored, total)}
      BY <1>1, <1>2, <1>3, Zenon
    <2> QED BY <2>1, Zenon
  <1> QED BY <1>5, <1>6, Zenon
\* What an assessment makes of the amounts it read.
LEMMA VerdictIsNumber ==
  ASSUME NEW daily, NEW seen, NEW total \in Int,
         daily.current \in Int, daily.mark \in Int, seen.value \in Int
  PROVE  LET record == ResolveCircuitBreaker(daily, ReconcileNavHighWaterMark(daily, seen), seen, total).record
         IN  /\ record.value \in Int
             /\ seen.basis = "navPerUnit" =>
                  record.basis = "navPerUnit" /\ record.value >= seen.value
  <1> DEFINE nav == ReconcileNavHighWaterMark(daily, seen)
             onNav == OnNavBasis(daily, seen)
             basis == IF onNav THEN "navPerUnit" ELSE IF total # None THEN "totalValue" ELSE "none"
             prior == IF onNav THEN nav.mark ELSE IF seen.basis = basis THEN seen.value ELSE None
             current == IF onNav THEN daily.current ELSE total
             verdict == AssessCircuitBreaker(current, prior)
  <1>1. \A a, b \in Int : Higher(a, b) \in Int /\ Higher(a, b) >= a /\ Higher(a, b) >= b
    BY DEF Higher
  <1>2. None \in Int
    BY DEF None
  <1>3. /\ nav.mark = Higher(OnNav(seen, seen.value), daily.mark)
        /\ OnNav(seen, seen.value) \in Int
        /\ seen.basis = "navPerUnit" => OnNav(seen, seen.value) = seen.value
    BY <1>2 DEF ReconcileNavHighWaterMark, OnNav
  <1> HIDE DEF nav
  <1>4. nav.mark \in Int /\ (seen.basis = "navPerUnit" => nav.mark >= seen.value)
    BY <1>1, <1>3
  <1>5. prior \in Int /\ current \in Int
    BY <1>2, <1>4
  <1>6. seen.basis = "navPerUnit" => onNav /\ basis = "navPerUnit" /\ prior >= seen.value
    BY <1>4 DEF OnNavBasis
  <1> HIDE DEF onNav, prior, current
  <1>7. verdict.mark \in Int /\ verdict.mark >= prior
    BY <1>1, <1>2, <1>5 DEF AssessCircuitBreaker
  <1>8. LET record == ResolveCircuitBreaker(daily, nav, seen, total).record
        IN  record.value = verdict.mark /\ record.basis = basis
    BY DEF ResolveCircuitBreaker, onNav, prior, current
  <1> HIDE DEF verdict, basis
  <1> QED BY <1>5, <1>6, <1>7, <1>8 DEF nav

\* An assessment that was not blind and meets the mark it read never lowers it.
LEMMA AssessRatchets ==
  ASSUME MarkInv, NEW r \in Runs, Assess(r)
  PROVE  /\ stored'.value \in Int
         /\ run[r].seen.stored = stored /\ stored.basis = "navPerUnit" =>
              stored'.basis = "navPerUnit" /\ stored'.value >= stored.value
  <1>1. /\ run[r].seen.rows \in Seq(Row) /\ run[r].seen.stored.value \in Int
        /\ stored.value \in Int
    BY DEF Assess, MarkInv, MarkTypes, MarkOfRun
  <1>2. PICK total \in Totals :
          LET daily == DeriveDailyNavBreakerBasis(run[r].seen.rows)
              nav == ReconcileNavHighWaterMark(daily, run[r].seen.stored)
              verdict == ResolveCircuitBreaker(daily, nav, run[r].seen.stored, total)
          IN  \/ stored' = stored
              \/ /\ stored'.value = verdict.record.value
                 /\ stored'.basis = verdict.record.basis
    BY AssessWrites, Zenon
  <1>3. total \in Int
    BY RunAssumption DEF RunAssumption, None
  <1>4. PICK seen : seen = run[r].seen.stored
    OBVIOUS
  <1>5. PICK daily : daily = DeriveDailyNavBreakerBasis(run[r].seen.rows)
    OBVIOUS
  <1>6. daily.current \in Int /\ daily.mark \in Int
    BY <1>1, <1>5, BasisIsNumber
  <1>7. PICK record :
          record = ResolveCircuitBreaker(daily, ReconcileNavHighWaterMark(daily, seen), seen, total).record
    OBVIOUS
  <1>8. /\ record.value \in Int
        /\ seen.basis = "navPerUnit" => record.basis = "navPerUnit" /\ record.value >= seen.value
    BY <1>1, <1>3, <1>4, <1>6, <1>7, VerdictIsNumber
  <1>9. \/ stored' = stored
        \/ stored'.value = record.value /\ stored'.basis = record.basis
    BY <1>2, <1>4, <1>5, <1>7
  <1> QED BY <1>1, <1>4, <1>8, <1>9

LEMMA MarkAssess == ASSUME Inv, MarkInv, NEW r \in Runs, Assess(r) PROVE MarkInv'
  <1>1. /\ UNCHANGED <<rows, applying, repairs, lock>> /\ run[r].pc = "assess"
        /\ run' = [run EXCEPT ![r].pc = "agents", ![r].seen = Idle.seen]
    BY DEF Assess, AfterAssess, countVars
  <1>2. Moved(r) /\ run'[r].pc = "agents"
    BY <1>1, Shape DEF Moved, Fields
  <1>3. MarkTypes'
    BY <1>1, AssessRatchets DEF MarkInv, MarkTypes
  <1>4. lock = r
    BY <1>1 DEF MarkInv, MarkOfRun, First
  <1>5. ASSUME NEW s \in Runs, s # r PROVE MarkOfRun(s)'
    BY <1>1, <1>2, <1>4, <1>5 DEF MarkInv, MarkOfRun, Moved, First
  <1>6. MarkOfRun(r)'
    BY <1>2 DEF MarkOfRun, First
  <1> QED BY <1>3, <1>5, <1>6 DEF MarkInv

\* After its assessment a run never comes near the mark again.
Late == {"append", "fail", "publish", "publishFailure", "unlock", "settle", "done", "dead"}

LEMMA MarkReview == ASSUME Inv, MarkInv, NEW r \in Runs, ReviewAgent(r)
  PROVE MarkInv' /\ stored' = stored
  <1>1. UNCHANGED <<rows, stored, applying, repairs, lock>> /\ run[r].pc = "agents"
    BY DEF ReviewAgent, breakerVars, countVars
  <1>2. PICK good \in 0 .. 1, bad \in 0 .. 1, abort \in BOOLEAN :
          run' = [run EXCEPT ![r].visited = @ + 1, ![r].ok = Higher(@, good),
                             ![r].failed = Higher(@, bad), ![r].aborted = @ \/ abort]
    BY DEF ReviewAgent
  <1>3. Moved(r) /\ run'[r].pc = "agents"
    BY <1>1, <1>2, Shape DEF Moved, Fields
  <1> QED BY <1>1, <1>3, MarkMove DEF First

LEMMA MarkLater ==
  ASSUME Inv, MarkInv, NEW r \in Runs,
         \/ AgentsDone(r) \/ Persist(r) \/ Publish(r)
         \/ Release(r) \/ Settle(r) \/ Kill(r)
  PROVE  MarkInv' /\ stored' = stored
  <1>1. CASE AgentsDone(r)
    <2>1. /\ UNCHANGED <<rows, stored, applying, repairs, lock>>
          /\ \/ run' = [run EXCEPT ![r].pc = "append"]
             \/ \E x : run' = [run EXCEPT ![r].pc = "unlock", ![r].result = x]
      BY <1>1 DEF AgentsDone, Goto, breakerVars, countVars
    <2>2. Moved(r) /\ run'[r].pc \in {"append", "unlock"}
      BY <2>1, Shape DEF Moved, Fields
    <2> QED BY <2>1, <2>2, MarkMove DEF First
  <1>2. CASE Persist(r) \/ Publish(r)
    <2>1. UNCHANGED <<rows, stored, applying, repairs, lock>>
      BY <1>2 DEF Persist, Publish, breakerVars
    <2>2. CASE Persist(r)
      <3>1. \/ run' = [run EXCEPT ![r].pc = IF run[r].pc = "append" THEN "publish" ELSE "publishFailure"]
            \/ run' = [run EXCEPT ![r].pc = IF run[r].pc = "append" THEN "fail" ELSE "unlock",
                                  ![r].result = "thrown"]
        BY <2>2 DEF Persist
      <3>2. Moved(r) /\ run'[r].pc \in {"publish", "publishFailure", "fail", "unlock"}
        BY <3>1, Shape DEF Moved, Fields
      <3> QED BY <2>1, <3>2, MarkMove DEF First
    <2>3. CASE Publish(r)
      <3>1. \/ run' = [run EXCEPT ![r].pc = "unlock",
                         ![r].result = IF run[r].pc = "publish" /\ marker[r].status = "completed"
                                       THEN "returned" ELSE "thrown"]
            \/ run' = [run EXCEPT ![r].pc = IF run[r].pc = "publish" THEN "fail" ELSE "unlock",
                                  ![r].result = "thrown"]
        BY <2>3 DEF Publish
      <3>2. Moved(r) /\ run'[r].pc \in {"unlock", "fail"}
        BY <3>1, Shape DEF Moved, Fields
      <3> QED BY <2>1, <3>2, MarkMove DEF First
    <2> QED BY <1>2, <2>2, <2>3
  <1>3. CASE Release(r) \/ Settle(r) \/ Kill(r)
    <2>1. /\ UNCHANGED <<rows, stored, applying, repairs>>
          /\ lock' = lock \/ (lock = r /\ lock' = NoRun)
          /\ \E pc \in Late : run' = [run EXCEPT ![r].pc = pc]
      BY <1>3 DEF Release, Settle, Kill, Goto, Late, breakerVars, countVars
    <2>2. Moved(r) /\ run'[r].pc \in Late
      BY <2>1, Shape DEF Moved, Fields
    <2> QED BY <2>1, <2>2, MarkMove DEF First, Late
  <1> QED BY <1>1, <1>2, <1>3

\* A crash leaves no run before its agents that was not there already.
LEMMA MarkCrash == ASSUME Inv, MarkInv, Crash PROVE MarkInv' /\ stored' = stored
  <1>1. /\ UNCHANGED <<rows, stored, applying, repairs, lock>>
        /\ run' = [s \in Runs |-> IF s \in Service /\ Alive(s)
                                  THEN [run[s] EXCEPT !.pc = "dead"] ELSE run[s]]
    BY DEF Crash, breakerVars
  <1>2. ASSUME NEW s \in Runs PROVE MarkOfRun(s)'
    <2>1. MarkOfRun(s) /\ DOMAIN run[s] = Fields
      BY Shape DEF MarkInv
    <2>2. run'[s] = run[s] \/ run'[s].pc = "dead"
      BY <1>1, <2>1 DEF Fields
    <2> QED BY <1>1, <2>1, <2>2 DEF MarkOfRun, First
  <1>3. MarkTypes'
    BY <1>1 DEF MarkInv, MarkTypes
  <1> QED BY <1>1, <1>2, <1>3 DEF MarkInv

\* The lock runs out under a run that is past its assessment, or gone.
LEMMA MarkLock == ASSUME MarkInv, LockExpires PROVE MarkInv' /\ stored' = stored
  <1>1. /\ UNCHANGED <<rows, stored, applying, repairs, run>> /\ lock' = NoRun
        /\ ~ Alive(lock) \/ run[lock].pc = "agents"
    BY DEF LockExpires, breakerVars, countVars
  <1>2. ASSUME NEW s \in Runs PROVE MarkOfRun(s)'
    <2>1. MarkOfRun(s)
      BY DEF MarkInv
    <2>2. run[s].pc \notin First
      BY <1>1, <2>1 DEF MarkOfRun, First, Alive, Settled
    <2> QED BY <1>1, <2>1, <2>2 DEF MarkOfRun, First
  <1>3. MarkTypes'
    BY <1>1 DEF MarkInv, MarkTypes
  <1> QED BY <1>1, <1>2, <1>3 DEF MarkInv

\* Rows come and go, and there is always one.
LEMMA MarkRows == ASSUME MarkInv, AddRow \/ DeleteRow PROVE MarkInv' /\ stored' = stored
  <1>1. UNCHANGED <<run, lock, stored, applying, repairs>>
    BY DEF AddRow, DeleteRow, countVars
  <1>2. rows' \in Seq(Row) /\ Len(rows') >= 1
    <2>1. rows \in Seq(Row) /\ Len(rows) >= 1 /\ Len(rows) \in Nat /\ DOMAIN rows = 1 .. Len(rows)
      BY DEF MarkInv, MarkTypes
    <2>2. CASE AddRow
      <3>1. PICK n \in Navs, later \in BOOLEAN :
              rows' = Append(rows, [day |-> rows[Len(rows)].day + (IF later THEN 1 ELSE 0), nav |-> n])
        BY <2>2 DEF AddRow
      <3> DEFINE row == [day |-> rows[Len(rows)].day + (IF later THEN 1 ELSE 0), nav |-> n]
      <3>2. rows[Len(rows)] \in Row /\ n \in Nat
        BY <2>1, RunAssumption DEF RunAssumption
      <3>3. row \in Row
        BY <3>2 DEF Row
      <3> HIDE DEF row
      <3>4. rows' = Append(rows, row)
        BY <3>1 DEF row
      <3> QED BY <2>1, <3>3, <3>4
    <2>3. CASE DeleteRow
      <3>1. PICK i \in DOMAIN rows : rows' = SubSeq(rows, 1, i - 1) \o SubSeq(rows, i + 1, Len(rows))
        BY <2>3 DEF DeleteRow
      <3>2. Len(rows) > 1 /\ i \in 1 .. Len(rows)
        BY <2>1, <2>3 DEF DeleteRow
      <3>3. /\ SubSeq(rows, 1, i - 1) \in Seq(Row) /\ Len(SubSeq(rows, 1, i - 1)) = i - 1
            /\ SubSeq(rows, i + 1, Len(rows)) \in Seq(Row)
            /\ Len(SubSeq(rows, i + 1, Len(rows))) = Len(rows) - i
        BY <2>1, <3>2
      <3> QED BY <2>1, <3>1, <3>2, <3>3
    <2> QED BY <2>2, <2>3
  <1>3. MarkTypes'
    BY <1>1, <1>2 DEF MarkInv, MarkTypes
  <1>4. repairs' >= repairs
    BY <1>1 DEF MarkInv, MarkTypes
  <1> QED BY <1>1, <1>3, <1>4, MarkStays

\* An operator's recomputation is counted before it applies what it read.
LEMMA MarkRecomputeRead == ASSUME MarkInv, RecomputeRead PROVE MarkInv' /\ stored' = stored
  <1>1. /\ UNCHANGED <<run, lock, stored, rows>> /\ repairs' = repairs + 1
        /\ applying'.value = DeriveDailyNavBreakerBasis(rows).mark /\ "value" \in DOMAIN applying'
    BY DEF RecomputeRead
  <1>2. rows \in Seq(Row) /\ repairs \in Nat
    BY DEF MarkInv, MarkTypes
  <1>3. applying'.value \in Int
    BY <1>1, <1>2, BasisIsNumber
  <1>4. MarkTypes'
    BY <1>1, <1>2, <1>3 DEF MarkInv, MarkTypes
  <1> QED BY <1>1, <1>2, <1>4, MarkStays

LEMMA MarkRecomputeApply == ASSUME MarkInv, RecomputeApply PROVE MarkInv'
  <1>1. /\ UNCHANGED <<run, lock, rows, repairs>> /\ applying # Unseen /\ applying' = Unseen
        /\ stored' = [applying EXCEPT !.alert = <<>>]
    BY DEF RecomputeApply, countVars
  <1>2. repairs > 0 /\ repairs' > 0 /\ repairs' \in Nat
    BY <1>1 DEF MarkInv, MarkTypes
  <1>3. stored'.value \in Int
    BY <1>1 DEF MarkInv, MarkTypes
  <1>4. MarkTypes'
    BY <1>1, <1>2, <1>3 DEF MarkInv, MarkTypes, Unseen, None
  <1>5. ASSUME NEW s \in Runs PROVE MarkOfRun(s)'
    BY <1>1, <1>2 DEF MarkInv, MarkOfRun
  <1> QED BY <1>4, <1>5 DEF MarkInv

LEMMA MarkInit == ASSUME Init PROVE MarkInv
  <1>1. /\ run = [r \in Runs |-> Idle] /\ stored = Unseen /\ applying = Unseen /\ repairs = 0
        /\ \E n \in Navs : rows = <<[day |-> 1, nav |-> n]>>
    BY DEF Init
  <1>2. rows \in Seq(Row) /\ Len(rows) = 1
    <2>1. PICK n \in Navs : rows = <<[day |-> 1, nav |-> n]>>
      BY <1>1
    <2>2. [day |-> 1, nav |-> n] \in Row
      BY RunAssumption DEF RunAssumption, Row
    <2> QED BY <2>1, <2>2
  <1>3. MarkTypes
    BY <1>1, <1>2 DEF MarkTypes, Unseen, None
  <1>4. \A r \in Runs : run[r].pc = "idle"
    BY <1>1 DEF Idle
  <1> QED BY <1>3, <1>4 DEF MarkInv, MarkOfRun, First

\* What the property says of one step.
Ratchets ==
  stored.basis = "navPerUnit" =>
    \/ stored'.basis = "navPerUnit" /\ stored'.value >= stored.value
    \/ applying # Unseen /\ applying' = Unseen
    \/ \E r \in Runs : BlindWrite(r)

LEMMA MarkKept == ASSUME MarkInv, stored' = stored PROVE Ratchets
  BY DEF MarkInv, MarkTypes, Ratchets

LEMMA AssessIsRatchet == ASSUME Inv, MarkInv, NEW r \in Runs, Assess(r) PROVE Ratchets
  <1>1. run[r].pc = "assess" /\ run' = [run EXCEPT ![r].pc = "agents", ![r].seen = Idle.seen]
    BY DEF Assess, AfterAssess
  <1>2. run'[r].pc = "agents"
    BY <1>1, Shape DEF Fields
  <1>3. run[r].seen.blind \/ repairs > 0 \/ run[r].seen.stored = stored
    BY <1>1 DEF MarkInv, MarkOfRun
  <1>4. CASE run[r].seen.stored = stored
    BY <1>4, AssessRatchets DEF Ratchets
  <1>5. CASE run[r].seen.stored # stored
    BY <1>1, <1>2, <1>3, <1>5 DEF Ratchets, BlindWrite
  <1> QED BY <1>4, <1>5

LEMMA MarkStep == ASSUME Inv, MarkInv, [RunNext]_vars PROVE MarkInv' /\ Ratchets
  <1>1. ASSUME NEW r \in Runs, Start(r) \/ LabExpires(r) \/ Announce(r) \/ ReadBreaker(r)
        PROVE  stored' = stored
    BY <1>1 DEF Start, LabExpires, Announce, ReadBreaker, breakerVars
  <1>2. ASSUME NEW r \in Runs, Start(r) \/ Step(r) \/ Kill(r) \/ LabExpires(r)
        PROVE  MarkInv' /\ Ratchets
    <2>1. CASE LabExpires(r)
      <3>1. UNCHANGED <<run, lock, rows, stored, applying, repairs>>
        BY <2>1 DEF LabExpires, breakerVars, countVars
      <3>2. MarkTypes' /\ repairs' >= repairs
        BY <3>1 DEF MarkInv, MarkTypes
      <3> QED BY <3>1, <3>2, MarkStays, MarkKept
    <2>2. CASE Assess(r)
      BY <2>2, MarkAssess, AssessIsRatchet
    <2>3. CASE Start(r) \/ Announce(r) \/ ReadBreaker(r)
      BY <1>1, <2>3, MarkStart, MarkAnnounce, MarkRead, MarkKept
    <2>4. CASE ReviewAgent(r) \/ AgentsDone(r) \/ Persist(r) \/ Publish(r)
               \/ Release(r) \/ Settle(r) \/ Kill(r)
      BY <2>4, MarkReview, MarkLater, MarkKept
    <2> QED BY <1>2, <2>1, <2>2, <2>3, <2>4, Zenon DEF Step
  <1>3. ASSUME Recover \/ UNCHANGED vars PROVE MarkInv' /\ Ratchets
    <2>1. UNCHANGED <<run, lock, rows, stored, applying, repairs>>
      BY <1>3 DEF Recover, Restart, RepairAppend, RepairPublish, vars, breakerVars, countVars
    <2>2. MarkTypes' /\ repairs' >= repairs
      BY <2>1 DEF MarkInv, MarkTypes
    <2> QED BY <2>1, <2>2, MarkStays, MarkKept
  <1>4. ASSUME RecomputeApply PROVE MarkInv' /\ Ratchets
    <2>1. applying # Unseen /\ applying' = Unseen
      BY <1>4 DEF RecomputeApply
    <2> QED BY <1>4, <2>1, MarkRecomputeApply DEF Ratchets
  <1>5. ASSUME Crash \/ LockExpires \/ AddRow \/ DeleteRow \/ RecomputeRead PROVE MarkInv' /\ Ratchets
    BY <1>5, MarkCrash, MarkLock, MarkRows, MarkRecomputeRead, MarkKept
  <1>6. RunNext \/ UNCHANGED vars
    OBVIOUS
  <1> QED BY <1>2, <1>3, <1>4, <1>5, <1>6, Zenon DEF RunNext

(* The high water mark on the NAV basis never falls and never changes its  *)
(* basis, whatever rows are added or deleted and however runs overlap with *)
(* crashes, except by an operator's recomputation, a run that could not    *)
(* read the mark, or one that read it before a recomputation: the lock     *)
(* outlives the first steps of its holder, and both ratchets take the      *)
(* higher of what they read and what they compute.                         *)
THEOREM MarkOnlyRises == RunSpec => MarkRatchet
  <1>1. Inv /\ MarkInv /\ [RunNext]_vars => MarkInv' /\ Ratchets
    BY MarkStep
  <1>2. Inv /\ MarkInv /\ [RunNext]_vars =>
          [ stored.basis = "navPerUnit" =>
            \/ stored'.basis = "navPerUnit" /\ stored'.value >= stored.value
            \/ applying # Unseen /\ applying' = Unseen
            \/ \E r \in Runs : BlindWrite(r) ]_vars
    BY <1>1 DEF Ratchets
  <1> QED BY <1>1, <1>2, MarkInit, RecordsHold, PTL DEF RunSpec, MarkRatchet

-------------------------------------------------------------------------------
(* Orders, filters and the first of a sequence (ResearchSlate)             *)

\* before[t] is what comes ahead of t in a strict total order of S.
Orders(S, before) ==
    /\ DOMAIN before = S
    /\ \A t \in S : before[t] \subseteq S /\ t \notin before[t]
    /\ \A t, u \in S : u \in before[t] => before[u] \subseteq before[t]
    /\ \A t, u \in S : t # u => t \in before[u] \/ u \in before[t]

\* An ordered finite set has a place for each of its elements and an element at each place.
LEMMA InOrderIs ==
  ASSUME NEW S, IsFiniteSet(S), NEW before, Orders(S, before)
  PROVE  /\ InOrder(S, before) \in [1 .. Cardinality(S) -> S]
         /\ Cardinality(S) \in Nat
         /\ \A t \in S : \E i \in 1 .. Cardinality(S) : InOrder(S, before)[i] = t
         /\ \A i, j \in 1 .. Cardinality(S) : InOrder(S, before)[i] = InOrder(S, before)[j] => i = j
  <1> DEFINE n == Cardinality(S)
             place == [t \in S |-> Cardinality(before[t])]
  <1>1. n \in Nat
    BY FS_CardinalityType
  <1>2. ASSUME NEW t \in S PROVE place[t] \in 0 .. n - 1
    <2>1. before[t] \subseteq S /\ before[t] # S
      BY DEF Orders
    <2>2. IsFiniteSet(before[t]) /\ Cardinality(before[t]) <= n /\ Cardinality(before[t]) # n
      BY <2>1, FS_Subset
    <2>3. Cardinality(before[t]) \in Nat
      BY <2>2, FS_CardinalityType
    <2> QED BY <1>1, <2>2, <2>3
  <1>3. ASSUME NEW t \in S, NEW u \in S, u \in before[t] PROVE place[u] # place[t]
    <2>1. before[u] \subseteq before[t] /\ before[u] # before[t] /\ before[t] \subseteq S
      BY <1>3 DEF Orders
    <2>2. IsFiniteSet(before[t])
      BY <2>1, FS_Subset
    <2>3. Cardinality(before[u]) # Cardinality(before[t])
      BY <2>1, <2>2, FS_Subset
    <2> QED BY <2>3
  <1>4. ASSUME NEW t \in S, NEW u \in S, t # u PROVE place[t] # place[u]
    <2>1. t \in before[u] \/ u \in before[t]
      BY <1>4 DEF Orders
    <2> QED BY <1>3, <2>1
  <1>5. place \in Injection(S, 0 .. n - 1)
    BY <1>2, <1>4 DEF Injection, IsInjective
  <1>6. IsFiniteSet(0 .. n - 1) /\ Cardinality(0 .. n - 1) = n
    BY <1>1, FS_Interval
  <1>7. place \in Surjection(S, 0 .. n - 1)
    BY <1>5, <1>6, FS_Injection
  <1>8. \A k \in 0 .. n - 1 : \E t \in S : Cardinality(before[t]) = k
    BY <1>7 DEF Surjection
  <1> DEFINE row == InOrder(S, before)
  <1>9. DOMAIN row = 1 .. n /\ \A i \in 1 .. n : row[i] = CHOOSE t \in S : Cardinality(before[t]) = i - 1
    BY DEF InOrder
  <1>10. row = [i \in 1 .. n |-> row[i]]
    BY DEF InOrder
  <1> HIDE DEF row
  <1>11. ASSUME NEW i \in 1 .. n PROVE row[i] \in S /\ Cardinality(before[row[i]]) = i - 1
    <2>1. i - 1 \in 0 .. n - 1
      BY <1>1
    <2> QED BY <1>8, <1>9, <2>1
  <1>12. row \in [1 .. n -> S]
    BY <1>10, <1>11
  <1>13. ASSUME NEW t \in S PROVE \E i \in 1 .. n : row[i] = t
    <2>1. place[t] \in 0 .. n - 1 /\ place[t] + 1 \in 1 .. n
      BY <1>1, <1>2
    <2>2. place[row[place[t] + 1]] = place[t] /\ row[place[t] + 1] \in S
      BY <1>11, <2>1
    <2>3. row[place[t] + 1] = t
      BY <1>4, <2>2
    <2> QED BY <2>1, <2>3
  <1>14. ASSUME NEW i \in 1 .. n, NEW j \in 1 .. n, row[i] = row[j] PROVE i = j
    BY <1>1, <1>11, <1>14
  <1> QED BY <1>1, <1>12, <1>13, <1>14 DEF row

\* The same, of a sequence.
LEMMA RowIs ==
  ASSUME NEW S, IsFiniteSet(S), NEW before, Orders(S, before)
  PROVE  /\ InOrder(S, before) \in Seq(S) /\ ToSet(InOrder(S, before)) = S
         /\ Len(InOrder(S, before)) = Cardinality(S) /\ Cardinality(S) \in Nat
         /\ \A i, j \in 1 .. Cardinality(S) : InOrder(S, before)[i] = InOrder(S, before)[j] => i = j
  <1> DEFINE row == InOrder(S, before)
  <1>1. /\ row \in [1 .. Cardinality(S) -> S] /\ Cardinality(S) \in Nat
        /\ \A t \in S : \E i \in 1 .. Cardinality(S) : row[i] = t
        /\ \A i, j \in 1 .. Cardinality(S) : row[i] = row[j] => i = j
    BY InOrderIs
  <1> HIDE DEF row
  <1>2. row \in Seq(S) /\ Len(row) = Cardinality(S) /\ DOMAIN row = 1 .. Cardinality(S)
    BY <1>1
  <1>3. (\A i \in DOMAIN row : row[i] \in S) /\ \A t \in S : \E i \in DOMAIN row : row[i] = t
    BY <1>1, <1>2
  <1>4. ToSet(row) = S
    BY <1>3 DEF ToSet
  <1> QED BY <1>1, <1>2, <1>4 DEF row

\* t is ahead of u by a first figure, a second, or its place in the alphabet.
Ahead(f, g, t, u) == f[t] > f[u] \/ (f[t] = f[u] /\ (g[t] > g[u] \/ (g[t] = g[u] /\ t < u)))

\* That is a strict total order, so it gives each ticker a place.
LEMMA AheadOrders ==
  ASSUME NEW S \in SUBSET Nat, NEW f \in [S -> Int], NEW g \in [S -> Int], NEW before,
         before = [t \in S |-> {u \in S : Ahead(f, g, u, t)}]
  PROVE  Orders(S, before)
  <1>1. \A t \in S : t \in Nat /\ f[t] \in Int /\ g[t] \in Int
    OBVIOUS
  <1>2. DOMAIN before = S /\ \A t \in S : before[t] = {u \in S : Ahead(f, g, u, t)}
    OBVIOUS
  <1>3. ASSUME NEW t \in S PROVE ~ Ahead(f, g, t, t)
    BY <1>1 DEF Ahead
  <1>4. ASSUME NEW t \in S, NEW u \in S, t # u PROVE Ahead(f, g, t, u) \/ Ahead(f, g, u, t)
    <2>1. /\ f[t] \in Int /\ f[u] \in Int /\ g[t] \in Int /\ g[u] \in Int
          /\ t \in Nat /\ u \in Nat
      BY <1>1
    <2>2. f[t] > f[u] \/ f[u] > f[t] \/ f[t] = f[u]
      BY <2>1
    <2>3. g[t] > g[u] \/ g[u] > g[t] \/ g[t] = g[u]
      BY <2>1
    <2>4. t < u \/ u < t
      BY <1>4, <2>1
    <2> QED BY <2>2, <2>3, <2>4 DEF Ahead
  <1>5. ASSUME NEW t \in S, NEW u \in S, NEW x \in S, Ahead(f, g, x, u), Ahead(f, g, u, t)
        PROVE  Ahead(f, g, x, t)
    <2>1. /\ f[t] \in Int /\ f[u] \in Int /\ f[x] \in Int /\ g[t] \in Int /\ g[u] \in Int /\ g[x] \in Int
          /\ t \in Nat /\ u \in Nat /\ x \in Nat
      BY <1>1
    <2> QED BY <1>5, <2>1 DEF Ahead
  <1>6. \A t, u \in S : u \in before[t] => before[u] \subseteq before[t]
    BY <1>2, <1>5
  <1>7. \A t \in S : before[t] \subseteq S /\ t \notin before[t]
    BY <1>2, <1>3
  <1>8. \A t, u \in S : t # u => t \in before[u] \/ u \in before[t]
    BY <1>2, <1>4
  <1> QED BY <1>2, <1>6, <1>7, <1>8 DEF Orders

\* A finite set of tickers put in ascending order has each of them once.
LEMMA AscendingIs ==
  ASSUME NEW S \in SUBSET Nat, IsFiniteSet(S)
  PROVE  /\ Ascending(S) \in Seq(S) /\ ToSet(Ascending(S)) = S
         /\ Len(Ascending(S)) = Cardinality(S) /\ Cardinality(S) \in Nat
         /\ \A i, j \in 1 .. Cardinality(S) : Ascending(S)[i] = Ascending(S)[j] => i = j
  <1> DEFINE before == [t \in S |-> {u \in S : u < t}]
             same == [t \in S |-> 0]
  <1>1. same \in [S -> Int] /\ \A t, u \in S : Ahead(same, same, u, t) <=> u < t
    BY DEF Ahead
  <1> HIDE DEF same
  <1>2. before = [t \in S |-> {u \in S : Ahead(same, same, u, t)}]
    BY <1>1
  <1>3. Ascending(S) = InOrder(S, before)
    BY DEF Ascending
  <1> HIDE DEF before
  <1>4. Orders(S, before)
    BY <1>1, <1>2, AheadOrders
  <1> QED BY <1>3, <1>4, RowIs

\* The screened names in the order of attention: each of the set, and no other.
LEMMA RankedIs ==
  ASSUME NEW c, CaseFits(c), NEW S \in SUBSET DOMAIN c.catalog
  PROVE  RankScreenedCandidates(c, S) \in Seq(S) /\ ToSet(RankScreenedCandidates(c, S)) = S
  <1> DEFINE before == [t \in S |-> {u \in S : Outranks(c, u, t)}]
             f == [t \in S |-> Attention(c, t)[1]]
             g == [t \in S |-> Attention(c, t)[2]]
  <1>1. /\ S \in SUBSET Nat /\ IsFiniteSet(DOMAIN c.catalog)
        /\ \A t \in S : /\ c.catalog[t].cap \in Int /\ c.catalog[t].volume \in Int
                        /\ c.catalog[t].change \in Int
    BY DEF CaseFits
  <1>2. IsFiniteSet(S)
    BY <1>1, FS_Subset
  <1>3. ASSUME NEW t \in S PROVE Attention(c, t)[1] \in Int /\ Attention(c, t)[2] \in Int
    BY <1>1 DEF Attention
  <1>4. f \in [S -> Int] /\ g \in [S -> Int]
    BY <1>3
  <1>5. \A t \in S : f[t] = Attention(c, t)[1] /\ g[t] = Attention(c, t)[2]
    OBVIOUS
  <1> HIDE DEF f, g
  <1>6. ASSUME NEW t \in S, NEW u \in S PROVE Ahead(f, g, u, t) <=> Outranks(c, u, t)
    BY <1>5, Zenon DEF Ahead, Outranks
  <1>7. before = [t \in S |-> {u \in S : Ahead(f, g, u, t)}]
    BY <1>6
  <1>8. RankScreenedCandidates(c, S) = InOrder(S, before)
    BY DEF RankScreenedCandidates
  <1> HIDE DEF before
  <1>9. Orders(S, before)
    BY <1>1, <1>4, <1>7, AheadOrders
  <1> QED BY <1>2, <1>8, <1>9, RowIs

\* What is kept of a sequence: the elements in S, no more of them than there were.
LEMMA OnlyIs ==
  ASSUME NEW T, NEW s \in Seq(T), NEW S
  PROVE  /\ Only(s, S) \in Seq(T) /\ ToSet(Only(s, S)) = ToSet(s) \cap S
         /\ Len(Only(s, S)) <= Len(s)
  <1> DEFINE I == {i \in DOMAIN s : s[i] \in S}
             at == Ascending(I)
             o == [k \in DOMAIN at |-> s[at[k]]]
  <1>1. DOMAIN s = 1 .. Len(s) /\ Len(s) \in Nat /\ \A i \in 1 .. Len(s) : s[i] \in T
    OBVIOUS
  <1>2. I \in SUBSET (1 .. Len(s)) /\ I \in SUBSET Nat
    BY <1>1
  <1>3. IsFiniteSet(1 .. Len(s)) /\ Cardinality(1 .. Len(s)) = Len(s)
    <2>1. Len(s) \in Nat /\ Len(s) \in Int /\ 1 \in Int
      BY <1>1
    <2> HIDE DEF I
    <2> QED BY <2>1, FS_Interval
  <1>4. IsFiniteSet(I) /\ Cardinality(I) <= Len(s)
    BY <1>2, <1>3, FS_Subset
  <1>5. at \in Seq(I) /\ ToSet(at) = I /\ Len(at) = Cardinality(I) /\ Cardinality(I) \in Nat
    <2> HIDE DEF I
    <2> QED BY <1>2, <1>4, AscendingIs
  <1>6. Only(s, S) = o
    BY DEF Only
  <1> HIDE DEF at
  <1>7. DOMAIN at = 1 .. Len(at) /\ \A k \in 1 .. Len(at) : at[k] \in I
    <2> HIDE DEF I
    <2> QED BY <1>5
  <1>8. \A k \in 1 .. Len(at) : s[at[k]] \in T /\ s[at[k]] \in S /\ at[k] \in DOMAIN s
    BY <1>1, <1>2, <1>7
  <1>9. o \in Seq(T) /\ Len(o) = Len(at) /\ DOMAIN o = 1 .. Len(at) /\ \A k \in 1 .. Len(at) : o[k] = s[at[k]]
    <2> HIDE DEF I
    <2> QED BY <1>5, <1>7, <1>8
  <1> HIDE DEF o
  <1>10. ToSet(o) \subseteq ToSet(s) \cap S
    BY <1>8, <1>9 DEF ToSet
  <1>11. ASSUME NEW x \in ToSet(s) \cap S PROVE x \in ToSet(o)
    <2>1. PICK i \in DOMAIN s : s[i] = x
      BY <1>11 DEF ToSet
    <2>2. i \in ToSet(at)
      BY <1>5, <1>11, <2>1
    <2>3. PICK k \in 1 .. Len(at) : at[k] = i
      BY <1>7, <2>2 DEF ToSet
    <2> QED BY <1>9, <2>1, <2>3 DEF ToSet
  <1> QED BY <1>4, <1>5, <1>6, <1>9, <1>10, <1>11

\* What is left of a sequence: the elements outside S.
LEMMA WithoutIs ==
  ASSUME NEW T, NEW s \in Seq(T), NEW S
  PROVE  /\ Without(s, S) \in Seq(T) /\ ToSet(Without(s, S)) = ToSet(s) \ S
         /\ Len(Without(s, S)) <= Len(s)
  <1>1. ToSet(s) \cap (ToSet(s) \ S) = ToSet(s) \ S
    OBVIOUS
  <1> QED BY <1>1, OnlyIs DEF Without

\* The first n of a sequence.
LEMMA FirstIs ==
  ASSUME NEW T, NEW s \in Seq(T), NEW n \in Nat
  PROVE  /\ FirstOf(s, n) \in Seq(T) /\ ToSet(FirstOf(s, n)) \subseteq ToSet(s)
         /\ Len(FirstOf(s, n)) <= n /\ Len(FirstOf(s, n)) <= Len(s)
         /\ n >= Len(s) => FirstOf(s, n) = s
         /\ \A i \in 1 .. Len(s) : i <= n => s[i] \in ToSet(FirstOf(s, n))
  <1> DEFINE m == IF n < Len(s) THEN n ELSE Len(s)
             f == SubSeq(s, 1, m)
  <1>1. m \in Nat /\ m <= n /\ m <= Len(s) /\ Len(s) \in Nat /\ FirstOf(s, n) = f
    BY DEF FirstOf
  <1>2. n >= Len(s) => m = Len(s)
    BY <1>1
  <1>3. \A i \in 1 .. Len(s) : i <= n => i \in 1 .. m
    BY <1>1
  <1> HIDE DEF m
  <1>4. /\ f \in Seq(T) /\ Len(f) = m /\ DOMAIN f = 1 .. m
        /\ \A i \in 1 .. m : f[i] = s[i] /\ i \in DOMAIN s
    BY <1>1
  <1>5. m = Len(s) => f = s
    BY <1>1, <1>4
  <1> HIDE DEF f
  <1>6. ToSet(f) \subseteq ToSet(s)
    BY <1>4 DEF ToSet
  <1>7. \A i \in 1 .. m : s[i] \in ToSet(f)
    BY <1>4 DEF ToSet
  <1> QED BY <1>1, <1>2, <1>3, <1>4, <1>5, <1>6, <1>7

\* One sequence after another: the elements of both, the first ones in place.
LEMMA JoinIs ==
  ASSUME NEW T, NEW s \in Seq(T), NEW t \in Seq(T)
  PROVE  /\ s \o t \in Seq(T) /\ Len(s \o t) = Len(s) + Len(t)
         /\ ToSet(s \o t) = ToSet(s) \cup ToSet(t)
         /\ \A i \in 1 .. Len(s) : (s \o t)[i] = s[i]
  <1>1. /\ s \o t \in Seq(T) /\ Len(s \o t) = Len(s) + Len(t) /\ Len(s) \in Nat /\ Len(t) \in Nat
        /\ DOMAIN (s \o t) = 1 .. Len(s) + Len(t)
        /\ \A i \in 1 .. Len(s) : (s \o t)[i] = s[i]
        /\ \A i \in 1 .. Len(s) + Len(t) : i > Len(s) => (s \o t)[i] = t[i - Len(s)]
    OBVIOUS
  <1> DEFINE j == s \o t
  <1> HIDE DEF j
  <1>2. ASSUME NEW i \in DOMAIN s PROVE s[i] \in ToSet(j)
    <2>1. i \in 1 .. Len(s) + Len(t) /\ i \in 1 .. Len(s)
      BY <1>1
    <2> QED BY <1>1, <2>1 DEF j, ToSet
  <1>3. ASSUME NEW i \in DOMAIN t PROVE t[i] \in ToSet(j)
    <2>1. i + Len(s) \in 1 .. Len(s) + Len(t) /\ i + Len(s) > Len(s) /\ (i + Len(s)) - Len(s) = i
      BY <1>1
    <2> QED BY <1>1, <2>1 DEF j, ToSet
  <1>4. ASSUME NEW i \in 1 .. Len(s) + Len(t) PROVE j[i] \in ToSet(s) \cup ToSet(t)
    <2>1. CASE i \in 1 .. Len(s)
      BY <1>1, <2>1 DEF j, ToSet
    <2>2. CASE i > Len(s)
      <3>1. i - Len(s) \in 1 .. Len(t)
        BY <1>1, <2>2
      <3> QED BY <1>1, <2>2, <3>1 DEF j, ToSet
    <2> QED BY <1>1, <2>1, <2>2
  <1>5. ToSet(j) = ToSet(s) \cup ToSet(t)
    <2>1. ToSet(s) \cup ToSet(t) \subseteq ToSet(j)
      BY <1>2, <1>3 DEF ToSet
    <2>2. DOMAIN j = 1 .. Len(s) + Len(t)
      BY <1>1 DEF j
    <2> QED BY <1>4, <2>1, <2>2 DEF ToSet
  <1> QED BY <1>1, <1>5 DEF j

\* The best scores first: each name of the sequence, and no other.
LEMMA ByScoreIs ==
  ASSUME NEW c, NEW s \in Seq(Nat), \A t \in ToSet(s) : c.score[t] \in Int
  PROVE  ByScore(c, s) \in Seq(Nat) /\ ToSet(ByScore(c, s)) = ToSet(s)
  <1> DEFINE I == DOMAIN s
             ahead(i, j) == c.score[s[i]] > c.score[s[j]] \/ (c.score[s[i]] = c.score[s[j]] /\ i < j)
             before == [j \in I |-> {i \in I : ahead(i, j)}]
             at == InOrder(I, before)
             row == [k \in DOMAIN at |-> s[at[k]]]
             same == [t \in I |-> 0]
             score == [t \in I |-> c.score[s[t]]]
  <1>1. /\ I = 1 .. Len(s) /\ Len(s) \in Nat /\ I \in SUBSET Nat
        /\ \A i \in I : s[i] \in Nat /\ s[i] \in ToSet(s)
    BY DEF ToSet
  <1>2. IsFiniteSet(I)
    BY <1>1, FS_Interval
  <1>3. ByScore(c, s) = row
    BY DEF ByScore
  <1> HIDE DEF I
  <1>4. same \in [I -> Int] /\ score \in [I -> Int]
    BY <1>1
  <1>5. \A i \in I : same[i] = 0 /\ score[i] = c.score[s[i]]
    OBVIOUS
  <1> HIDE DEF same, score
  <1>6. ASSUME NEW i \in I, NEW j \in I PROVE Ahead(score, same, i, j) <=> ahead(i, j)
    <2>1. /\ same[i] = 0 /\ same[j] = 0 /\ score[i] = c.score[s[i]] /\ score[j] = c.score[s[j]]
          /\ ~ (0 > 0)
      BY <1>5
    <2> QED BY <2>1, Zenon DEF Ahead
  <1> HIDE DEF ahead
  <1>7. before = [j \in I |-> {i \in I : Ahead(score, same, i, j)}]
    BY <1>6
  <1> HIDE DEF before
  <1>8. Orders(I, before)
    BY <1>1, <1>4, <1>7, AheadOrders
  <1>9. at \in Seq(I) /\ ToSet(at) = I
    BY <1>2, <1>8, RowIs
  <1> HIDE DEF at
  <1>10. /\ DOMAIN at = 1 .. Len(at) /\ Len(at) \in Nat
         /\ \A k \in 1 .. Len(at) : at[k] \in I
    BY <1>9
  <1>11. row \in Seq(Nat) /\ DOMAIN row = 1 .. Len(at) /\ \A k \in 1 .. Len(at) : row[k] = s[at[k]]
    BY <1>1, <1>10
  <1> HIDE DEF row
  <1>12. ToSet(row) \subseteq ToSet(s)
    BY <1>1, <1>10, <1>11 DEF ToSet
  <1>13. ASSUME NEW x \in ToSet(s) PROVE x \in ToSet(row)
    <2>1. PICK i \in I : s[i] = x
      BY DEF ToSet, I
    <2>2. PICK k \in 1 .. Len(at) : at[k] = i
      BY <1>9, <1>10 DEF ToSet
    <2> QED BY <1>11, <2>1, <2>2 DEF ToSet
  <1> QED BY <1>3, <1>11, <1>12, <1>13

\* A sequence over a set is one over any wider set.
LEMMA Widened ==
  ASSUME NEW S, NEW T, S \subseteq T, NEW s \in Seq(S)
  PROVE  s \in Seq(T)
  <1>1. s \in [1 .. Len(s) -> T] /\ Len(s) \in Nat
    OBVIOUS
  <1> QED BY <1>1

\* A sequence has finitely many elements, all of its type.
LEMMA ToSetFinite ==
  ASSUME NEW T, NEW s \in Seq(T)
  PROVE  IsFiniteSet(ToSet(s)) /\ ToSet(s) \subseteq T
  <1>1. DOMAIN s = 1 .. Len(s) /\ Len(s) \in Nat /\ s \in [1 .. Len(s) -> T]
    OBVIOUS
  <1>2. IsFiniteSet(1 .. Len(s))
    BY <1>1, FS_Interval
  <1>3. s \in [1 .. Len(s) -> ToSet(s)]
    BY <1>1 DEF ToSet
  <1>4. \A x \in ToSet(s) : \E i \in 1 .. Len(s) : s[i] = x
    BY <1>1 DEF ToSet
  <1>5. s \in Surjection(1 .. Len(s), ToSet(s))
    BY <1>3, <1>4 DEF Surjection
  <1>6. IsFiniteSet(ToSet(s))
    BY <1>2, <1>5, FS_Surjection
  <1> QED BY <1>1, <1>6 DEF ToSet

-------------------------------------------------------------------------------
(* The review slots                                                        *)

\* Names are added to the slots, all of them or while the budget lasts.
LEMMA AddIs ==
  ASSUME NEW slots \in Seq(Nat), NEW S \in Seq(Nat), NEW exempt \in BOOLEAN
  PROVE  LET more == AddToReview(slots, S, exempt) IN
         /\ more \in Seq(Nat) /\ Len(slots) <= Len(more)
         /\ ToSet(slots) \subseteq ToSet(more) /\ ToSet(more) \subseteq ToSet(slots) \cup ToSet(S)
         /\ exempt => ToSet(S) \subseteq ToSet(more) /\ Len(more) <= Len(slots) + Len(S)
         /\ ~ exempt => Len(more) <= Larger(ReviewBudget, Len(slots))
  <1> DEFINE fresh == Without(S, ToSet(slots))
             room == Larger(ReviewBudget - Len(slots), 0)
             few == FirstOf(fresh, room)
             added == IF exempt THEN fresh ELSE few
             more == slots \o added
  <1>1. /\ fresh \in Seq(Nat) /\ ToSet(fresh) = ToSet(S) \ ToSet(slots) /\ Len(fresh) <= Len(S)
        /\ Len(slots) \in Nat /\ Len(S) \in Nat /\ Len(fresh) \in Nat
    BY WithoutIs
  <1>2. ReviewBudget \in Nat /\ room \in Nat /\ Len(slots) + room = Larger(ReviewBudget, Len(slots))
    BY <1>1, SlateAssumption DEF Larger
  <1> HIDE DEF fresh, room
  <1>3. few \in Seq(Nat) /\ ToSet(few) \subseteq ToSet(fresh) /\ Len(few) <= room /\ Len(few) \in Nat
    BY <1>1, <1>2, FirstIs
  <1> HIDE DEF few
  <1>4. /\ added \in Seq(Nat) /\ ToSet(added) \subseteq ToSet(fresh) /\ Len(added) \in Nat
        /\ exempt => added = fresh
        /\ ~ exempt => added = few
    BY <1>1, <1>3
  <1> HIDE DEF added
  <1>5. /\ more \in Seq(Nat) /\ Len(more) = Len(slots) + Len(added)
        /\ ToSet(more) = ToSet(slots) \cup ToSet(added)
    BY <1>4, JoinIs
  <1>6. AddToReview(slots, S, exempt) = more
    BY DEF AddToReview, added, fresh, few, room
  <1> HIDE DEF more
  <1>7. Len(slots) <= Len(more)
    BY <1>1, <1>4, <1>5
  <1>8. exempt => ToSet(S) \subseteq ToSet(more) /\ Len(more) <= Len(slots) + Len(S)
    <2>1. SUFFICES ASSUME exempt PROVE ToSet(S) \subseteq ToSet(more) /\ Len(more) <= Len(slots) + Len(S)
      OBVIOUS
    <2>2. added = fresh
      BY <1>4, <2>1
    <2>3. ToSet(S) \subseteq ToSet(more)
      BY <1>1, <1>5, <2>2
    <2> QED BY <1>1, <1>5, <2>2, <2>3
  <1>9. ~ exempt => Len(more) <= Larger(ReviewBudget, Len(slots))
    BY <1>1, <1>2, <1>3, <1>4, <1>5
  <1> QED BY <1>1, <1>4, <1>5, <1>6, <1>7, <1>8, <1>9

\* Holdings first and without a limit: the slots hold every eligible holding,
\* eligible names only, and no more than the budget unless the holdings are.
LEMMA ToReviewIs ==
  ASSUME NEW c, CaseFits(c), NEW p, p.held \in SUBSET Nat, IsFiniteSet(p.held),
         p.explore \in Seq(Nat), p.movers \in Seq(Nat), p.eligible \in Seq(Nat),
         ToSet(p.eligible) \subseteq DOMAIN c.catalog
  PROVE  LET slots == ToReview(c, p) IN
         /\ slots \in Seq(Nat) /\ ToSet(slots) \subseteq ToSet(p.eligible)
         /\ p.held \cap ToSet(p.eligible) \subseteq ToSet(slots)
         /\ Len(slots) <= Larger(ReviewBudget, Cardinality(p.held))
  <1> DEFINE held == p.held
             eligible == ToSet(p.eligible)
             mine == Only(Ascending(held), eligible)
             owned == AddToReview(<<>>, mine, TRUE)
             others == Only(p.explore, eligible)
             tried == AddToReview(owned, others, FALSE)
             moving == Only(p.movers, eligible)
             moved == AddToReview(tried, moving, FALSE)
             best == ByScore(c, p.eligible)
             slots == AddToReview(moved, best, FALSE)
  <1>1. \A t \in ToSet(p.eligible) : c.score[t] \in Int
    BY DEF CaseFits
  <1>2. ToReview(c, p) = slots
    BY DEF ToReview
  <1>3. held \in SUBSET Nat /\ IsFiniteSet(held)
    OBVIOUS
  <1>4. best \in Seq(Nat) /\ ToSet(best) = eligible
    BY <1>1, ByScoreIs
  <1>5. others \in Seq(Nat) /\ ToSet(others) \subseteq eligible
    BY OnlyIs
  <1>6. moving \in Seq(Nat) /\ ToSet(moving) \subseteq eligible
    BY OnlyIs
  <1> HIDE DEF held, eligible
  <1>7. Ascending(held) \in Seq(Nat) /\ ToSet(Ascending(held)) = held /\ Len(Ascending(held)) = Cardinality(held)
        /\ Cardinality(held) \in Nat
    <2>1. /\ Ascending(held) \in Seq(held) /\ ToSet(Ascending(held)) = held
          /\ Len(Ascending(held)) = Cardinality(held) /\ Cardinality(held) \in Nat
      BY <1>3, AscendingIs
    <2> QED BY <1>3, <2>1, Widened
  <1>8. mine \in Seq(Nat) /\ ToSet(mine) = held \cap eligible /\ Len(mine) <= Cardinality(held)
    BY <1>7, OnlyIs
  <1>9. <<>> \in Seq(Nat) /\ ToSet(<<>>) = {} /\ Len(<<>>) = 0
    BY DEF ToSet
  <1> HIDE DEF mine, others, moving, best
  <1>10. /\ owned \in Seq(Nat) /\ ToSet(owned) \subseteq eligible /\ held \cap eligible \subseteq ToSet(owned)
         /\ Len(owned) <= Len(mine)
    <2>1. /\ owned \in Seq(Nat) /\ ToSet(owned) \subseteq ToSet(<<>>) \cup ToSet(mine)
          /\ ToSet(mine) \subseteq ToSet(owned) /\ Len(owned) <= Len(<<>>) + Len(mine)
      BY <1>8, <1>9, AddIs
    <2>2. Len(mine) \in Nat
      BY <1>8
    <2>3. Len(owned) <= Len(mine)
      <3>1. Len(<<>>) + Len(mine) = Len(mine)
        BY <2>2
      <3> QED BY <2>1, <3>1, Zenon
    <2>4. ToSet(owned) = ToSet(mine)
      BY <1>9, <2>1, Zenon
    <2> QED BY <1>8, <2>1, <2>3, <2>4
  <1> HIDE DEF owned
  <1>11. /\ tried \in Seq(Nat) /\ ToSet(tried) \subseteq eligible /\ ToSet(owned) \subseteq ToSet(tried)
         /\ Len(tried) <= Larger(ReviewBudget, Len(owned))
    BY <1>5, <1>10, AddIs
  <1> HIDE DEF tried
  <1>12. /\ moved \in Seq(Nat) /\ ToSet(moved) \subseteq eligible /\ ToSet(tried) \subseteq ToSet(moved)
         /\ Len(moved) <= Larger(ReviewBudget, Len(tried))
    BY <1>6, <1>11, AddIs
  <1> HIDE DEF moved
  <1>13. /\ slots \in Seq(Nat) /\ ToSet(slots) \subseteq eligible /\ ToSet(moved) \subseteq ToSet(slots)
         /\ Len(slots) <= Larger(ReviewBudget, Len(moved))
    BY <1>4, <1>12, AddIs
  <1> HIDE DEF slots
  <1>14. Len(slots) <= Larger(ReviewBudget, Cardinality(held))
    <2>1. /\ Len(mine) \in Nat /\ Len(owned) \in Nat /\ Len(tried) \in Nat /\ Len(moved) \in Nat
          /\ Len(slots) \in Nat /\ ReviewBudget \in Nat
      BY <1>8, <1>10, <1>11, <1>12, <1>13, SlateAssumption
    <2>2. \A a, b, d, n \in Nat : a <= Larger(d, b) /\ b <= Larger(d, n) => a <= Larger(d, n)
      BY DEF Larger
    <2>3. Len(owned) <= Cardinality(held)
      BY <1>7, <1>8, <1>10, <2>1
    <2>4. Len(tried) <= Larger(ReviewBudget, Cardinality(held))
      BY <1>7, <1>11, <2>1, <2>3 DEF Larger
    <2>5. Len(moved) <= Larger(ReviewBudget, Cardinality(held))
      BY <1>7, <1>12, <2>1, <2>2, <2>4
    <2> QED BY <1>7, <1>13, <2>1, <2>2, <2>5
  <1>15. held \cap eligible \subseteq ToSet(slots)
    BY <1>10, <1>11, <1>12, <1>13
  <1> QED BY <1>2, <1>13, <1>14, <1>15 DEF held, eligible

\* Every slot with a cohort is reviewed, the others make room for names with one.
LEMMA SelectIs ==
  ASSUME NEW c, CaseFits(c), NEW eligible \in Seq(Nat), ToSet(eligible) \subseteq DOMAIN c.catalog,
         NEW slots \in Seq(Nat), ToSet(slots) \subseteq ToSet(eligible)
  PROVE  LET chosen == SelectPeerReadyCandidates(c, slots, eligible) IN
         /\ chosen \in Seq(Nat) /\ ToSet(chosen) \subseteq ToSet(eligible) /\ Len(chosen) <= Len(slots)
         /\ \A t \in ToSet(chosen) : Usable(c, t)
         /\ \A t \in ToSet(slots) : Usable(c, t) => t \in ToSet(chosen)
  <1> DEFINE best == ByScore(c, eligible)
             primary == Only(slots, {t \in ToSet(slots) : Usable(c, t)})
             readyBest == Only(best, {t \in ToSet(best) : Usable(c, t)})
             backfill == Without(readyBest, ToSet(slots))
             both == primary \o backfill
             chosen == FirstOf(both, Len(slots))
  <1>1. \A t \in ToSet(eligible) : c.score[t] \in Int
    BY DEF CaseFits
  <1>2. best \in Seq(Nat) /\ ToSet(best) = ToSet(eligible)
    BY <1>1, ByScoreIs
  <1>3. SelectPeerReadyCandidates(c, slots, eligible) = chosen
    BY DEF SelectPeerReadyCandidates
  <1> HIDE DEF best
  <1>4. /\ primary \in Seq(Nat) /\ Len(primary) <= Len(slots) /\ Len(primary) \in Nat /\ Len(slots) \in Nat
        /\ ToSet(primary) = {t \in ToSet(slots) : Usable(c, t)}
    BY OnlyIs
  <1>5. readyBest \in Seq(Nat) /\ ToSet(readyBest) = {t \in ToSet(best) : Usable(c, t)}
    BY <1>2, OnlyIs
  <1> HIDE DEF primary, readyBest
  <1>6. backfill \in Seq(Nat) /\ ToSet(backfill) \subseteq ToSet(readyBest)
    BY <1>5, WithoutIs
  <1> HIDE DEF backfill
  <1>7. /\ both \in Seq(Nat) /\ ToSet(both) = ToSet(primary) \cup ToSet(backfill)
        /\ Len(both) = Len(primary) + Len(backfill) /\ Len(backfill) \in Nat
        /\ \A i \in 1 .. Len(primary) : both[i] = primary[i]
    BY <1>4, <1>6, JoinIs
  <1> HIDE DEF both
  <1>8. /\ chosen \in Seq(Nat) /\ ToSet(chosen) \subseteq ToSet(both) /\ Len(chosen) <= Len(slots)
        /\ \A i \in 1 .. Len(both) : i <= Len(slots) => both[i] \in ToSet(chosen)
    BY <1>4, <1>7, FirstIs
  <1> HIDE DEF chosen
  <1>9. \A t \in ToSet(both) : t \in ToSet(eligible) /\ Usable(c, t)
    BY <1>2, <1>4, <1>5, <1>6, <1>7
  <1>10. ASSUME NEW t \in ToSet(slots), Usable(c, t) PROVE t \in ToSet(chosen)
    <2>1. t \in ToSet(primary) /\ DOMAIN primary = 1 .. Len(primary)
      BY <1>4, <1>10
    <2>2. PICK i \in 1 .. Len(primary) : primary[i] = t
      BY <2>1 DEF ToSet
    <2>3. i \in 1 .. Len(both) /\ i <= Len(slots)
      BY <1>4, <1>7
    <2> QED BY <1>7, <1>8, <2>2, <2>3
  <1> QED BY <1>3, <1>8, <1>9, <1>10

-------------------------------------------------------------------------------
(* The day's slate                                                         *)

Buckets == {"holdings", "movers", "ranked", "exploration"}
SlateRow == [ticker : Nat, bucket : Buckets]

\* A bucket of the slate has the tickers it was made from.
LEMMA BucketIs ==
  ASSUME NEW s \in Seq(Nat), NEW b \in Buckets
  PROVE  /\ Bucket(s, b) \in Seq(SlateRow) /\ Len(Bucket(s, b)) = Len(s)
         /\ Tickers(Bucket(s, b)) = ToSet(s)
  <1> DEFINE r == Bucket(s, b)
  <1>1. /\ DOMAIN s = 1 .. Len(s) /\ Len(s) \in Nat
        /\ \A i \in 1 .. Len(s) : s[i] \in Nat
    OBVIOUS
  <1>2. r = [i \in 1 .. Len(s) |-> [ticker |-> s[i], bucket |-> b]]
    BY DEF Bucket
  <1> HIDE DEF r
  <1>3. r \in Seq(SlateRow) /\ Len(r) = Len(s) /\ \A i \in 1 .. Len(s) : r[i].ticker = s[i]
    BY <1>1, <1>2 DEF SlateRow
  <1>4. Tickers(r) = ToSet(s)
    BY <1>1, <1>3 DEF Tickers, ToSet
  <1> QED BY <1>3, <1>4 DEF r

\* A bucket appended to the slate drops none of its tickers.
LEMMA JoinKeepsTickers ==
  ASSUME NEW a \in Seq(SlateRow), NEW b \in Seq(SlateRow)
  PROVE  a \o b \in Seq(SlateRow) /\ Tickers(a) \subseteq Tickers(a \o b)
  <1> DEFINE j == a \o b
  <1>1. /\ j \in Seq(SlateRow) /\ Len(j) = Len(a) + Len(b) /\ Len(a) \in Nat /\ Len(b) \in Nat
        /\ \A i \in 1 .. Len(a) : j[i] = a[i]
    BY JoinIs
  <1> HIDE DEF j
  <1>2. \A i \in 1 .. Len(a) : i \in 1 .. Len(j)
    BY <1>1
  <1> QED BY <1>1, <1>2 DEF Tickers, j

\* The rotation takes names nobody has researched.
LEMMA RotationIs ==
  ASSUME NEW c, CaseFits(c), NEW fresh \in SUBSET Nat, IsFiniteSet(fresh)
  PROVE  Rotation(c, fresh) \in Seq(Nat)
  <1> DEFINE order == Ascending(fresh)
             n == Len(order)
             many == IF Exploration < n THEN Exploration ELSE n
             r == [i \in 1 .. many |-> order[((c.day + i - 1) % n) + 1]]
  <1>1. order \in Seq(fresh) /\ n \in Nat
    BY AscendingIs
  <1>2. many \in Nat /\ many <= n /\ c.day \in Nat
    BY <1>1, SlateAssumption DEF CaseFits
  <1>3. Rotation(c, fresh) = r
    BY DEF Rotation
  <1>4. \A i \in 1 .. n : order[i] \in Nat
    <2> HIDE DEF order
    <2>1. \A i \in 1 .. n : order[i] \in fresh
      BY <1>1
    <2> QED BY <2>1
  <1> HIDE DEF order, many
  <1>5. ASSUME NEW i \in 1 .. many PROVE order[((c.day + i - 1) % n) + 1] \in Nat
    <2> DEFINE d == c.day + i - 1
    <2>1. d \in Nat /\ n > 0
      BY <1>1, <1>2
    <2> HIDE DEF d
    <2>2. d % n \in 0 .. n - 1
      BY <1>1, <2>1
    <2>3. (d % n) + 1 \in 1 .. n
      BY <1>1, <2>2
    <2> QED BY <1>4, <2>3 DEF d
  <1> HIDE DEF n
  <1>6. r \in Seq(Nat)
    BY <1>2, <1>5
  <1> QED BY <1>3, <1>6

\* The slate begins with the holdings, all of them, whatever its size.
LEMMA SlateIs ==
  ASSUME NEW c, CaseFits(c), NEW held \in SUBSET Nat, IsFiniteSet(held), NEW movers \in Seq(Nat)
  PROVE  /\ BuildSlate(c, held, movers) \in Seq(SlateRow)
         /\ held \subseteq Tickers(BuildSlate(c, held, movers))
  <1> DEFINE first   == Bucket(Ascending(held), "holdings")
             room    == Larger(SlateSize - Len(first), 0)
             some    == FirstOf(Without(movers, held), room)
             start   == first \o Bucket(some, "movers")
             open    == ScreenCatalog(c) \ Tickers(start)
             new     == {t \in open : t \notin DOMAIN c.ledger}
             explore == Rotation(c, new)
             cool    == {t \in open : t \in DOMAIN c.ledger /\ c.day - c.ledger[t] < Cooldown}
             rest    == (open \ ToSet(explore)) \ cool
             ranked  == RankScreenedCandidates(c, rest)
             budget  == Larger(SlateSize - Len(start) - Len(explore), 0)
             best    == FirstOf(ranked, budget)
             filled  == start \o Bucket(best, "ranked")
             left    == Larger(SlateSize - Len(filled), 0)
             tail    == FirstOf(explore, left)
             slate   == filled \o Bucket(tail, "exploration")
  <1>0. /\ "holdings" \in Buckets /\ "movers" \in Buckets
        /\ "ranked" \in Buckets /\ "exploration" \in Buckets
    BY DEF Buckets
  <1>1. \A x \in Int : Larger(x, 0) \in Nat
    BY DEF Larger
  <1>2. SlateSize \in Nat /\ \A s \in Seq(SlateRow) : Len(s) \in Nat
    BY SlateAssumption
  <1>3. ScreenCatalog(c) \subseteq DOMAIN c.catalog /\ DOMAIN c.catalog \subseteq Nat /\ IsFiniteSet(DOMAIN c.catalog)
    BY DEF ScreenCatalog, CaseFits
  <1>4. Ascending(held) \in Seq(Nat) /\ ToSet(Ascending(held)) = held
    BY AscendingIs, Widened
  <1>5. first \in Seq(SlateRow) /\ Tickers(first) = held
    BY <1>0, <1>4, BucketIs
  <1>6. BuildSlate(c, held, movers) = slate
    BY DEF BuildSlate
  <1> HIDE DEF first
  <1>7. room \in Nat
    <2>1. SlateSize - Len(first) \in Int
      BY <1>2, <1>5
    <2> QED BY <1>1, <2>1
  <1> HIDE DEF room
  <1>8. some \in Seq(Nat)
    <2>1. Without(movers, held) \in Seq(Nat)
      BY WithoutIs
    <2> QED BY <1>7, <2>1, FirstIs
  <1> HIDE DEF some
  <1>9. Bucket(some, "movers") \in Seq(SlateRow)
    BY <1>0, <1>8, BucketIs
  <1>10. start \in Seq(SlateRow) /\ held \subseteq Tickers(start)
    BY <1>5, <1>9, JoinKeepsTickers
  <1> HIDE DEF start
  <1>11. open \subseteq DOMAIN c.catalog
    BY <1>3
  <1> HIDE DEF open
  <1>12. new \in SUBSET Nat /\ IsFiniteSet(new)
    <2>1. new \in SUBSET DOMAIN c.catalog
      BY <1>11
    <2> HIDE DEF new
    <2> QED BY <1>3, <2>1, FS_Subset
  <1> HIDE DEF new
  <1>13. explore \in Seq(Nat) /\ Len(explore) \in Nat
    BY <1>12, RotationIs
  <1> HIDE DEF explore
  <1>14. rest \in SUBSET DOMAIN c.catalog
    BY <1>11
  <1> HIDE DEF rest
  <1>15. ranked \in Seq(Nat)
    <2>1. ranked \in Seq(rest) /\ rest \subseteq Nat
      BY <1>3, <1>14, RankedIs
    <2> QED BY <2>1, Widened
  <1> HIDE DEF ranked
  <1>16. budget \in Nat
    <2>1. Len(start) \in Nat
      BY <1>2, <1>10
    <2>2. SlateSize - Len(start) - Len(explore) \in Int
      BY <1>2, <1>13, <2>1
    <2> QED BY <1>1, <2>2
  <1> HIDE DEF budget
  <1>17. best \in Seq(Nat)
    BY <1>15, <1>16, FirstIs
  <1> HIDE DEF best
  <1>18. Bucket(best, "ranked") \in Seq(SlateRow)
    BY <1>0, <1>17, BucketIs
  <1>19. filled \in Seq(SlateRow) /\ held \subseteq Tickers(filled)
    BY <1>10, <1>18, JoinKeepsTickers
  <1> HIDE DEF filled
  <1>20. left \in Nat
    <2>1. SlateSize - Len(filled) \in Int
      BY <1>2, <1>19
    <2> QED BY <1>1, <2>1
  <1> HIDE DEF left
  <1>21. tail \in Seq(Nat)
    BY <1>13, <1>20, FirstIs
  <1> HIDE DEF tail
  <1>22. Bucket(tail, "exploration") \in Seq(SlateRow)
    BY <1>0, <1>21, BucketIs
  <1>23. slate \in Seq(SlateRow) /\ held \subseteq Tickers(slate)
    BY <1>19, <1>22, JoinKeepsTickers
  <1> QED BY <1>6, <1>23

-------------------------------------------------------------------------------
(* The invariant of the narrowing                                          *)

Phases == {"owned", "slate", "fresh", "review", "done"}
Verdicts == {"none", "failed", "complete", "degraded", "legacy"}
Picks == [pc : Phases, held : SUBSET Nat, movers : Seq(Nat), universe : Seq(Nat), explore : Seq(Nat),
          eligible : Seq(Nat), slots : Seq(Nat), reviewed : Seq(Nat), deferred : Nat, verdict : Verdicts]
SlateTypes ==
    /\ case \in Cases /\ pick \in Picks
    /\ IsFiniteSet(pick.held) /\ ToSet(pick.eligible) \subseteq DOMAIN case.catalog

\* A holding is in the universe, and then eligible unless it has no market data.
HeldAreKept ==
    /\ pick.pc = "fresh" => pick.held \subseteq ToSet(pick.universe)
    /\ pick.pc = "review" =>
           \A t \in pick.held : \/ t \in ToSet(pick.eligible)
                                \/ t \in case.noData \/ t \notin DOMAIN case.catalog

\* What is eligible is held or passes the screen on fresh facts.
EligibleAreScreened ==
    pick.pc = "review" =>
        \A t \in ToSet(pick.eligible) : t \in pick.held \/ Passes(case.agent, FreshFacts(case, t))

SlateInv == SlateTypes /\ HeldAreKept /\ EligibleAreScreened /\ SlateIsSound

\* An agent owns finitely many names.
LEMMA OwnedIs ==
  ASSUME NEW c, CaseFits(c)
  PROVE  ProjectAgentOwnedHoldings(c) \in SUBSET Nat /\ IsFiniteSet(ProjectAgentOwnedHoldings(c))
  <1> DEFINE mine == {k \in c.lots : k.agent = c.agent /\ k.shares > 0}
             owned == {l.ticker : l \in mine}
             name == [l \in mine |-> l.ticker]
  <1>1. mine \subseteq c.lots /\ IsFiniteSet(c.lots) /\ \A l \in c.lots : l.ticker \in Nat
    BY DEF CaseFits
  <1>2. ProjectAgentOwnedHoldings(c) = owned
    BY DEF ProjectAgentOwnedHoldings
  <1> HIDE DEF mine
  <1>3. IsFiniteSet(mine)
    BY <1>1, FS_Subset
  <1>4. name \in Surjection(mine, owned)
    BY DEF Surjection
  <1>5. IsFiniteSet(owned)
    BY <1>3, <1>4, FS_Surjection
  <1>6. owned \in SUBSET Nat
    BY <1>1
  <1> QED BY <1>2, <1>5, <1>6

LEMMA SlateInvInit == ASSUME SlateInit PROVE SlateInv
  <1>1. case \in Cases /\ pick = Nothing
    BY DEF SlateInit
  <1>2. IsFiniteSet({})
    BY FS_EmptySet
  <1>3. SlateTypes
    <2>1. Nothing \in Picks
      BY DEF Nothing, Picks, Phases, Verdicts
    <2>2. Nothing.held = {} /\ ToSet(Nothing.eligible) = {}
      BY DEF Nothing, ToSet
    <2> QED BY <1>1, <1>2, <2>1, <2>2 DEF SlateTypes
  <1>4. pick.pc = "owned"
    BY <1>1 DEF Nothing
  <1>5. HeldAreKept /\ EligibleAreScreened /\ SlateIsSound
    BY <1>4 DEF HeldAreKept, EligibleAreScreened, SlateIsSound, HoldingsWatched, NoReviewWithoutCohort,
                DiscoveryIsScreened, Decided
  <1> QED BY <1>3, <1>5 DEF SlateInv

LEMMA ReadOwnedStep == ASSUME SlateInv, ReadOwned, UNCHANGED case PROVE SlateInv'
  <1> DEFINE owned == ProjectAgentOwnedHoldings(case)
  <1>1. SlateTypes /\ CaseFits(case) /\ case' = case
    BY CaseAssumption DEF SlateInv, SlateTypes
  <1>2. owned \in SUBSET Nat /\ IsFiniteSet(owned)
    BY <1>1, OwnedIs
  <1> HIDE DEF owned
  <1>3. \/ pick' = [pick EXCEPT !.pc = "done", !.verdict = "failed"]
        \/ pick' = [pick EXCEPT !.pc = "slate", !.held = owned]
    BY DEF ReadOwned, owned
  <1>4. SlateTypes'
    <2>1. pick \in Picks
      BY <1>1 DEF SlateTypes
    <2>2. pick' \in Picks
      BY <1>2, <1>3, <2>1 DEF Picks, Phases, Verdicts
    <2>3. pick'.held \in {pick.held, owned} /\ pick'.eligible = pick.eligible
      BY <1>3, <2>1 DEF Picks
    <2> QED BY <1>1, <1>2, <2>2, <2>3 DEF SlateTypes
  <1>5. pick'.pc \in {"done", "slate"} /\ (pick'.pc = "done" => pick'.verdict = "failed")
    BY <1>1, <1>3 DEF SlateTypes, Picks
  <1>6. (HeldAreKept /\ EligibleAreScreened /\ SlateIsSound)'
    BY <1>5 DEF HeldAreKept, EligibleAreScreened, SlateIsSound, HoldingsWatched, NoReviewWithoutCohort,
                DiscoveryIsScreened, Decided
  <1> QED BY <1>4, <1>6 DEF SlateInv

\* Whatever the universe is made from, the holdings are in it.
LEMMA UniverseIs ==
  ASSUME SlateInv, ChooseUniverse
  PROVE  \E u \in Seq(Nat), m \in Seq(Nat), e \in Seq(Nat), v \in Verdicts :
            /\ pick' = [pick EXCEPT !.pc = "fresh", !.movers = m, !.universe = u, !.verdict = v, !.explore = e]
            /\ pick.held \subseteq ToSet(u)
  <1> DEFINE known  == IF case.mode = "catalog" THEN pick.held ELSE ToSet(case.watchlist)
             movers == SelectMarketScanTickers(case, known)
             slate  == BuildSlate(case, pick.held, movers)
             names  == [i \in DOMAIN slate |-> slate[i].ticker]
             tried  == {s.ticker : s \in {x \in ToSet(slate) : x.bucket = "exploration"}}
             explore == Only(names, tried)
             own    == Ascending(pick.held)
             listed == own \o Without(case.watchlist, pick.held)
             seed   == listed \o Without(movers, ToSet(listed))
             Goal(u, e, v) ==
                /\ u \in Seq(Nat) /\ e \in Seq(Nat) /\ v \in Verdicts
                /\ pick' = [pick EXCEPT !.pc = "fresh", !.movers = movers, !.universe = u, !.verdict = v,
                                        !.explore = e]
                /\ pick.held \subseteq ToSet(u)
  <1>1. SlateTypes /\ CaseFits(case)
    BY CaseAssumption DEF SlateInv, SlateTypes
  <1>2. /\ case.movers \in Seq(Nat) /\ case.watchlist \in Seq(Nat) /\ ScanLimit \in Nat
        /\ pick.held \in SUBSET Nat /\ IsFiniteSet(pick.held) /\ pick.explore \in Seq(Nat)
    BY <1>1, SlateAssumption DEF CaseFits, SlateTypes, Picks
  <1>3. movers \in Seq(Nat)
    <2>1. Without(case.movers, known) \in Seq(Nat)
      BY <1>2, WithoutIs
    <2> QED BY <1>2, <2>1, FirstIs DEF SelectMarketScanTickers
  <1> DEFINE Goes(u, v) == [pick EXCEPT !.pc = "fresh", !.movers = movers, !.universe = u, !.verdict = v]
  <1>4. \/ pick' = [Goes(names, "complete") EXCEPT !.explore = explore]
        \/ pick' = Goes(own, "degraded")
        \/ pick' = Goes(seed, "legacy")
        \/ pick' = Goes(seed, "degraded")
    <2>1. CASE case.mode = "catalog" /\ case.bus /\ ScreenCatalog(case) # {}
      BY <2>1 DEF ChooseUniverse
    <2>2. CASE case.mode = "catalog" /\ case.bus /\ ScreenCatalog(case) = {}
      BY <2>2 DEF ChooseUniverse
    <2>3. CASE ~ (case.mode = "catalog" /\ case.bus)
      BY <2>3 DEF ChooseUniverse
    <2> QED BY <2>1, <2>2, <2>3
  <1> HIDE DEF movers
  <1>5. slate \in Seq(SlateRow) /\ pick.held \subseteq Tickers(slate)
    BY <1>1, <1>2, <1>3, SlateIs
  <1> HIDE DEF slate
  <1>6. /\ DOMAIN slate = 1 .. Len(slate) /\ Len(slate) \in Nat
        /\ \A i \in 1 .. Len(slate) : slate[i] \in SlateRow
    BY <1>5
  <1>7. /\ names \in Seq(Nat) /\ DOMAIN names = 1 .. Len(slate)
        /\ \A i \in 1 .. Len(slate) : names[i] = slate[i].ticker
    BY <1>6 DEF SlateRow
  <1> HIDE DEF names, tried
  <1>8. ToSet(names) = Tickers(slate)
    BY <1>7 DEF ToSet, Tickers
  <1>9. explore \in Seq(Nat)
    BY <1>7, OnlyIs
  <1> HIDE DEF explore
  <1>10. own \in Seq(Nat) /\ ToSet(own) = pick.held
    BY <1>2, AscendingIs, Widened
  <1> HIDE DEF own
  <1>11. listed \in Seq(Nat) /\ ToSet(own) \subseteq ToSet(listed)
    <2>1. Without(case.watchlist, pick.held) \in Seq(Nat)
      BY <1>2, WithoutIs
    <2> QED BY <1>10, <2>1, JoinIs
  <1> HIDE DEF listed
  <1>12. seed \in Seq(Nat) /\ ToSet(listed) \subseteq ToSet(seed)
    <2>1. Without(movers, ToSet(listed)) \in Seq(Nat)
      BY <1>3, WithoutIs
    <2> QED BY <1>11, <2>1, JoinIs
  <1> HIDE DEF seed
  <1>13. ASSUME NEW u \in Seq(Nat), NEW v \in Verdicts
         PROVE  Goes(u, v) = [pick EXCEPT !.pc = "fresh", !.movers = movers, !.universe = u, !.verdict = v,
                                          !.explore = pick.explore]
    BY <1>1 DEF SlateTypes, Picks
  <1>14. Goal(names, explore, "complete") \/ \E u, v : Goal(u, pick.explore, v)
    <2>1. CASE pick' = [Goes(names, "complete") EXCEPT !.explore = explore]
      <3>1. Goal(names, explore, "complete")
        BY <1>5, <1>7, <1>8, <1>9, <2>1 DEF Verdicts
      <3> QED BY <3>1
    <2>2. ASSUME NEW u \in Seq(Nat), NEW v \in Verdicts, pick' = Goes(u, v), pick.held \subseteq ToSet(u)
          PROVE  Goal(u, pick.explore, v)
      <3>1. pick' = [pick EXCEPT !.pc = "fresh", !.movers = movers, !.universe = u, !.verdict = v,
                                 !.explore = pick.explore]
        BY <1>13, <2>2
      <3> QED BY <1>2, <2>2, <3>1
    <2>3. "degraded" \in Verdicts /\ "legacy" \in Verdicts
      BY DEF Verdicts
    <2>4. pick.held \subseteq ToSet(own) /\ pick.held \subseteq ToSet(seed)
      BY <1>10, <1>11, <1>12
    <2> HIDE DEF Goal, Goes
    <2> QED BY <1>4, <1>10, <1>12, <2>1, <2>2, <2>3, <2>4
  <1>15. \E u, e, v : Goal(u, e, v)
    <2> HIDE DEF Goal
    <2> QED BY <1>14
  <1> QED BY <1>3, <1>15

LEMMA ChooseUniverseStep == ASSUME SlateInv, ChooseUniverse, UNCHANGED case PROVE SlateInv'
  <1>1. SlateTypes /\ case' = case
    BY DEF SlateInv
  <1>2. PICK u \in Seq(Nat), m \in Seq(Nat), e \in Seq(Nat), v \in Verdicts :
            /\ pick' = [pick EXCEPT !.pc = "fresh", !.movers = m, !.universe = u, !.verdict = v, !.explore = e]
            /\ pick.held \subseteq ToSet(u)
    BY UniverseIs
  <1>3. SlateTypes'
    <2>1. pick \in Picks
      BY <1>1 DEF SlateTypes
    <2>2. pick' \in Picks
      BY <1>2, <2>1 DEF Picks, Phases, Verdicts
    <2>3. pick'.held = pick.held /\ pick'.eligible = pick.eligible
      BY <1>2, <2>1 DEF Picks
    <2> QED BY <1>1, <2>2, <2>3 DEF SlateTypes
  <1>4. pick'.pc = "fresh" /\ pick'.held = pick.held /\ pick'.universe = u
    BY <1>1, <1>2 DEF SlateTypes, Picks
  <1>5. HeldAreKept'
    BY <1>2, <1>4 DEF HeldAreKept
  <1>6. (EligibleAreScreened /\ SlateIsSound)'
    BY <1>4 DEF EligibleAreScreened, SlateIsSound, HoldingsWatched, NoReviewWithoutCohort,
                DiscoveryIsScreened, Decided
  <1> QED BY <1>3, <1>5, <1>6 DEF SlateInv

\* The names with market data: a holding stays, another passes the screen again.
LEMMA FreshScreenStep == ASSUME SlateInv, FreshScreen, UNCHANGED case PROVE SlateInv'
  <1> DEFINE fetched == Only(pick.universe, DOMAIN case.catalog \ case.noData)
             fit == {t \in DOMAIN case.catalog : Passes(case.agent, FreshFacts(case, t))}
             passed == Only(fetched, fit)
             owned == Only(fetched, pick.held)
             mandatory == Without(owned, ToSet(passed))
             kept == passed \o mandatory
  <1>1. SlateTypes /\ CaseFits(case) /\ case' = case /\ HeldAreKept /\ pick.universe \in Seq(Nat)
    BY CaseAssumption DEF SlateInv, SlateTypes, Picks
  <1>2. pick.pc = "fresh" /\ pick' = [pick EXCEPT !.pc = "review", !.eligible = kept]
    BY DEF FreshScreen
  <1>3. /\ fetched \in Seq(Nat)
        /\ ToSet(fetched) = ToSet(pick.universe) \cap (DOMAIN case.catalog \ case.noData)
    BY <1>1, OnlyIs
  <1> HIDE DEF fetched
  <1>4. passed \in Seq(Nat) /\ ToSet(passed) = ToSet(fetched) \cap fit
    BY <1>3, OnlyIs
  <1>5. owned \in Seq(Nat) /\ ToSet(owned) = ToSet(fetched) \cap pick.held
    BY <1>3, OnlyIs
  <1> HIDE DEF passed, owned
  <1>6. mandatory \in Seq(Nat) /\ ToSet(mandatory) = ToSet(owned) \ ToSet(passed)
    BY <1>5, WithoutIs
  <1> HIDE DEF mandatory
  <1>7. kept \in Seq(Nat) /\ ToSet(kept) = ToSet(passed) \cup ToSet(mandatory)
    BY <1>4, <1>6, JoinIs
  <1> HIDE DEF kept
  <1>8. ToSet(kept) \subseteq DOMAIN case.catalog
    BY <1>3, <1>4, <1>5, <1>6, <1>7
  <1>9. \A t \in ToSet(kept) : t \in pick.held \/ Passes(case.agent, FreshFacts(case, t))
    BY <1>4, <1>5, <1>6, <1>7
  <1>10. \A t \in pick.held : t \in ToSet(kept) \/ t \in case.noData \/ t \notin DOMAIN case.catalog
    <2>1. pick.held \subseteq ToSet(pick.universe)
      BY <1>1, <1>2 DEF HeldAreKept
    <2> QED BY <1>3, <1>5, <1>6, <1>7, <2>1
  <1>11. SlateTypes'
    <2>1. pick \in Picks
      BY <1>1 DEF SlateTypes
    <2>2. pick' \in Picks
      BY <1>2, <1>7, <2>1 DEF Picks, Phases, Verdicts
    <2>3. pick'.held = pick.held /\ pick'.eligible = kept
      BY <1>2, <2>1 DEF Picks
    <2> QED BY <1>1, <1>8, <2>2, <2>3 DEF SlateTypes
  <1>12. pick'.pc = "review" /\ pick'.held = pick.held /\ pick'.eligible = kept
    BY <1>1, <1>2 DEF SlateTypes, Picks
  <1>13. HeldAreKept'
    BY <1>1, <1>10, <1>12 DEF HeldAreKept
  <1>14. EligibleAreScreened'
    <2>1. \A t : FreshFacts(case, t)' = FreshFacts(case, t)
      BY <1>1 DEF FreshFacts
    <2> QED BY <1>1, <1>9, <1>12, <2>1 DEF EligibleAreScreened
  <1>15. SlateIsSound'
    BY <1>12 DEF SlateIsSound, HoldingsWatched, NoReviewWithoutCohort, DiscoveryIsScreened, Decided
  <1> QED BY <1>11, <1>13, <1>14, <1>15 DEF SlateInv

\* The slots and the cohorts: what the three parts of SlateIsSound say.
LEMMA SelectReviewsStep == ASSUME SlateInv, SelectReviews, UNCHANGED case PROVE SlateInv'
  <1> DEFINE slots == ToReview(case, pick)
             chosen == SelectPeerReadyCandidates(case, slots, pick.eligible)
             thin == {t \in ToSet(slots) : ~ Usable(case, t)}
  <1>1. SlateTypes /\ CaseFits(case) /\ case' = case /\ HeldAreKept /\ EligibleAreScreened
    BY CaseAssumption DEF SlateInv, SlateTypes
  <1>2. pick.pc = "review" /\ pick' = [pick EXCEPT !.pc = "done", !.slots = slots, !.reviewed = chosen,
                                                   !.deferred = Cardinality(thin)]
    BY DEF SelectReviews
  <1>3. /\ pick.held \in SUBSET Nat /\ IsFiniteSet(pick.held) /\ pick.explore \in Seq(Nat)
        /\ pick.movers \in Seq(Nat) /\ pick.eligible \in Seq(Nat)
        /\ ToSet(pick.eligible) \subseteq DOMAIN case.catalog
    BY <1>1 DEF SlateTypes, Picks
  <1>4. /\ slots \in Seq(Nat) /\ ToSet(slots) \subseteq ToSet(pick.eligible)
        /\ pick.held \cap ToSet(pick.eligible) \subseteq ToSet(slots)
        /\ Len(slots) <= Larger(ReviewBudget, Cardinality(pick.held))
    BY <1>1, <1>3, ToReviewIs
  <1> HIDE DEF slots
  <1>5. /\ chosen \in Seq(Nat) /\ ToSet(chosen) \subseteq ToSet(pick.eligible) /\ Len(chosen) <= Len(slots)
        /\ \A t \in ToSet(chosen) : Usable(case, t)
        /\ \A t \in ToSet(slots) : Usable(case, t) => t \in ToSet(chosen)
    BY <1>1, <1>3, <1>4, SelectIs
  <1> HIDE DEF chosen
  <1>6. Cardinality(thin) \in Nat
    <2>1. thin \in SUBSET ToSet(slots) /\ IsFiniteSet(ToSet(slots))
      BY <1>4, ToSetFinite
    <2> HIDE DEF thin
    <2> QED BY <2>1, FS_Subset, FS_CardinalityType
  <1> HIDE DEF thin
  <1>7. SlateTypes'
    <2>1. pick \in Picks
      BY <1>1 DEF SlateTypes
    <2>2. pick' \in Picks
      BY <1>2, <1>4, <1>5, <1>6, <2>1 DEF Picks, Phases, Verdicts
    <2>3. pick'.held = pick.held /\ pick'.eligible = pick.eligible
      BY <1>2, <2>1 DEF Picks
    <2> QED BY <1>1, <2>2, <2>3 DEF SlateTypes
  <1>8. pick'.pc = "done" /\ pick'.held = pick.held /\ pick'.slots = slots /\ pick'.reviewed = chosen
    BY <1>1, <1>2 DEF SlateTypes, Picks
  <1>9. Reviewed' = ToSet(chosen)
    BY <1>8 DEF Reviewed
  <1>10. \A t : /\ Usable(case, t)' <=> Usable(case, t)
                /\ FreshFacts(case, t)' = FreshFacts(case, t)
    BY <1>1 DEF Usable, AssessPeerCoverage, FreshFacts
  <1>11. HeldAreKept' /\ EligibleAreScreened'
    BY <1>8 DEF HeldAreKept, EligibleAreScreened
  <1>12. HoldingsWatched'
    <2>1. ASSUME NEW t \in pick.held PROVE \/ t \in ToSet(chosen)
                                           \/ t \in case.noData \/ t \notin DOMAIN case.catalog
                                           \/ t \in ToSet(slots) /\ ~ Usable(case, t)
      <3>1. CASE t \in ToSet(pick.eligible)
        BY <1>4, <1>5, <3>1
      <3>2. CASE t \notin ToSet(pick.eligible)
        BY <1>1, <1>2, <3>2 DEF HeldAreKept
      <3> QED BY <3>1, <3>2
    <2> QED BY <1>1, <1>8, <1>9, <1>10, <2>1 DEF HoldingsWatched
  <1>13. NoReviewWithoutCohort'
    <2>1. Len(chosen) <= Larger(ReviewBudget, Cardinality(pick.held))
      <3>1. Cardinality(pick.held) \in Nat /\ ReviewBudget \in Nat
        BY <1>3, FS_CardinalityType, SlateAssumption
      <3>2. Len(chosen) \in Nat /\ Len(slots) \in Nat
        BY <1>4, <1>5
      <3> QED BY <1>4, <1>5, <3>1, <3>2 DEF Larger
    <2> QED BY <1>5, <1>8, <1>9, <1>10, <2>1 DEF NoReviewWithoutCohort
  <1>14. DiscoveryIsScreened'
    <2>1. \A t \in ToSet(chosen) \ pick.held : Passes(case.agent, FreshFacts(case, t))
      BY <1>1, <1>2, <1>5 DEF EligibleAreScreened
    <2> QED BY <1>1, <1>8, <1>9, <1>10, <2>1 DEF DiscoveryIsScreened
  <1> QED BY <1>7, <1>11, <1>12, <1>13, <1>14 DEF SlateInv, SlateIsSound

LEMMA SlateInvStep == ASSUME SlateInv, [SlateNext]_slateVars PROVE SlateInv'
  <1>1. CASE SlateNext
    BY <1>1, ReadOwnedStep, ChooseUniverseStep, FreshScreenStep, SelectReviewsStep DEF SlateNext
  <1>2. CASE UNCHANGED slateVars
    BY <1>2 DEF slateVars, SlateInv, SlateTypes, HeldAreKept, EligibleAreScreened, SlateIsSound, HoldingsWatched,
       NoReviewWithoutCohort, DiscoveryIsScreened, Decided, Reviewed, Usable, AssessPeerCoverage, FreshFacts
  <1> QED BY <1>1, <1>2

\* On every day that fits and for every size of slate, budget and cohort: a
\* holding with market data and a cohort is reviewed, no name is reviewed
\* without a cohort nor past the slots, and a name not held passed the screen
\* on that day's facts (runResearchScanForAgent).
THEOREM SlateHolds == SlateSpec => []SlateIsSound
  <1>1. SlateInv => SlateIsSound
    BY DEF SlateInv
  <1> QED BY <1>1, SlateInvInit, SlateInvStep, PTL DEF SlateSpec
===============================================================================
