---------------------------- MODULE ResearchHistory ----------------------------
(***************************************************************************)
(* The nightly research-data refresh and the durable history it writes to  *)
(* Postgres: the row of the run, its observations (one transaction), the   *)
(* event of each observation against the one before it, and the shadow     *)
(* selection over the slate of the latest scan.  The status and the latest *)
(* view in Redis are published on the way, each write best effort.  The    *)
(* workflow lock may expire under a run, and a run may die anywhere.       *)
(***************************************************************************)
EXTENDS Integers, FiniteSets

CONSTANTS
    Refreshes,      \* runs of the workflow, each with its own run id
    Names,          \* tickers of the cohort
    LastTime,       \* bound: instants
    MaxAge,         \* the 36 hours a baseline slate stays usable, in instants
    MaxMishaps      \* bound: failed calls, deaths, expired locks

VARIABLES
    now,
    holder,         \* pm:workflow-lock:research-data-refresh
    refresh,        \* [Refreshes -> the run]
    row,            \* research_job_runs: status of each run
    stored,         \* mandate_score_observations: <<run, name>>
    events,         \* research_events: the current and the previous observation
    slate,          \* pm:research-slate:private: when the scan captured it
    selection,      \* research_selection_runs: the capture its baseline had
    published,      \* pm:research-data:latest
    latest,         \* pm:mandate-scores:<agent>:latest
    mishaps, outlived
durable == <<row, stored, events, selection>>
historyVars == <<now, holder, refresh, durable, slate, published, latest, mishaps, outlived>>

Nobody == "nobody"
\* what stands for no holder and no observation is not a run
ASSUME HistoryAssumption == Nobody \notin Refreshes
Never == 0
Unset == [pc |-> "idle", at |-> Never, prior |-> [n \in Names |-> Nobody], slate |-> Never]
NoSelection == [at |-> Never, observed |-> Never]

HistoryInit ==
    /\ now = 1 /\ holder = Nobody /\ refresh = [r \in Refreshes |-> Unset]
    /\ row = [r \in Refreshes |-> "none"] /\ stored = {} /\ events = {} /\ slate = Never
    /\ selection = [r \in Refreshes |-> NoSelection]
    /\ published = [state |-> "none", run |-> Nobody] /\ latest = Nobody
    /\ mishaps = 0 /\ outlived = FALSE

Right == UNCHANGED mishaps
Wrong == mishaps < MaxMishaps /\ mishaps' = mishaps + 1
Stage(r, pc) == refresh[r].pc = pc
Onward(r, pc) == refresh' = [refresh EXCEPT ![r].pc = pc]
Alive(r) == refresh[r].pc \notin {"idle", "done", "dead"}

(* A write of the status is tried once; a lost one is only logged.         *)
SetResearchDataStatus(state, r) ==
    \/ Right /\ published' = [state |-> state, run |-> r]
    \/ Wrong /\ UNCHANGED published

-------------------------------------------------------------------------------
(* runResearchDataRefresh: the lock, the status, the universe and the peer *)
(* distributions.  A run that finds the lock taken is skipped.             *)
WithRefreshLock(r) ==
    /\ Stage(r, "idle") /\ Right
    /\ IF holder = Nobody THEN holder' = r /\ Onward(r, "announce") ELSE UNCHANGED holder /\ Onward(r, "done")
    /\ UNCHANGED <<now, durable, slate, published, latest, outlived>>
Announce(r) ==
    /\ Stage(r, "announce") /\ SetResearchDataStatus("running", r) /\ Onward(r, "prepare")
    /\ UNCHANGED <<now, holder, durable, slate, latest, outlived>>
Prepare(r) ==
    /\ Stage(r, "prepare")
    /\ \/ Right /\ refresh' = [refresh EXCEPT ![r].pc = "priors", ![r].at = now]
       \/ Wrong /\ Onward(r, "fail")
    /\ UNCHANGED <<now, holder, durable, slate, published, latest, outlived>>

(* runMandateScoring: the newest stored observation of a name, whatever    *)
(* became of the run that stored it.                                       *)
Newest(n) ==
    LET of == {r \in Refreshes : <<r, n>> \in stored}
    IN  IF of = {} THEN Nobody ELSE CHOOSE r \in of : \A q \in of : refresh[q].at <= refresh[r].at
ReadLatestPriorMandateScoreObservation(r) ==
    /\ Stage(r, "priors")
    /\ \/ Right /\ refresh' = [refresh EXCEPT ![r].pc = "start", ![r].prior = [n \in Names |-> Newest(n)]]
       \/ Wrong /\ Onward(r, "fail")
    /\ UNCHANGED <<now, holder, durable, slate, published, latest, outlived>>

(* writeResearchRun.  The row of the run stands outside the transaction.   *)
WriteResearchJobStart(r) ==
    /\ Stage(r, "start")
    /\ \/ Right /\ row' = [row EXCEPT ![r] = "running"] /\ Onward(r, "data")
       \/ \E status \in {"none", "running"} : Wrong /\ row' = [row EXCEPT ![r] = status] /\ Onward(r, "fail")
    /\ UNCHANGED <<now, holder, stored, events, selection, slate, published, latest, outlived>>
(* The transaction of the observations; its reply may be lost.             *)
(* A plausible slip: research history is best effort, like the latest view.*)
CommitResearchQuietly(r) ==
    /\ Stage(r, "data") /\ Onward(r, "finish")
    /\ \/ Right /\ stored' = stored \cup ({r} \X Names)
       \/ Wrong /\ UNCHANGED stored
    /\ UNCHANGED <<now, holder, row, events, selection, slate, published, latest, outlived>>
CommitResearch(r) ==
    /\ Stage(r, "data")
    /\ LET data == stored \cup ({r} \X Names)
       IN  \/ Right /\ stored' = data /\ Onward(r, "finish")
           \/ Wrong /\ stored' \in {stored, data} /\ Onward(r, "mark")
    /\ UNCHANGED <<now, holder, row, events, selection, slate, published, latest, outlived>>
FinishResearchJobRun(r) ==
    /\ Stage(r, "finish")
    /\ \/ Right /\ row' = [row EXCEPT ![r] = "completed"] /\ Onward(r, "view")
       \/ Wrong /\ row' \in {row, [row EXCEPT ![r] = "completed"]} /\ Onward(r, "mark")
    /\ UNCHANGED <<now, holder, stored, events, selection, slate, published, latest, outlived>>
(* Only a running row can fail; what goes wrong here is swallowed.         *)
FailResearchJobRun(r) ==
    /\ Stage(r, "mark") /\ Onward(r, "fail")
    /\ \/ Right /\ row' = [row EXCEPT ![r] = IF @ = "running" THEN "failed" ELSE @]
       \/ Wrong /\ UNCHANGED row
    /\ UNCHANGED <<now, holder, stored, events, selection, slate, published, latest, outlived>>
SetMandateScores(r) ==
    /\ Stage(r, "view") /\ Onward(r, "events")
    /\ \/ Right /\ latest' = r
       \/ Wrong /\ UNCHANGED latest
    /\ UNCHANGED <<now, holder, durable, slate, published, outlived>>

(* writeResearchEvents: every event is checked against the stored          *)
(* observations it names, and all are written in one transaction.          *)
BuildResearchEvents(r) == {[name |-> n, current |-> r, previous |-> refresh[r].prior[n]] : n \in Names}
ValidatePresence(e) == \A r \in {e.current, e.previous} \ {Nobody} : <<r, e.name>> \in stored
ValidateEventReferences(e) ==
    /\ <<e.current, e.name>> \in stored
    /\ e.previous # Nobody => <<e.previous, e.name>> \in stored /\ refresh[e.previous].at < refresh[e.current].at
WriteResearchEvents(r) ==
    /\ Stage(r, "events")
    /\ LET new == BuildResearchEvents(r)
       IN  \/ /\ Right
              /\ IF \A e \in new : ValidateEventReferences(e) THEN events' = events \cup new /\ Onward(r, "baseline")
                 ELSE UNCHANGED events /\ Onward(r, "fail")
           \/ /\ Wrong /\ Onward(r, "fail")
              /\ events' \in {events} \cup {events \cup e : e \in {x \in {new} : \A y \in x : ValidateEventReferences(y)}}
    /\ UNCHANGED <<now, holder, row, stored, selection, slate, published, latest, outlived>>
(* runShadowResearchSlate: the slate of the latest scan is the baseline    *)
(* when it is no later than the observations and recent; an unreadable one *)
(* is none.                                                                *)
ValidatedBaseline(r, captured) == captured # Never /\ refresh[r].at - captured \in 0..MaxAge
LoadPrivateBaseline(r) ==
    /\ Stage(r, "baseline")
    /\ \/ /\ Right
          /\ refresh' = [refresh EXCEPT ![r].slate = slate, ![r].pc = IF ValidatedBaseline(r, slate) THEN "select" ELSE "unconfigured"]
       \/ Wrong /\ Onward(r, "unconfigured")
    /\ UNCHANGED <<now, holder, durable, slate, published, latest, outlived>>
WriteResearchSelectionRun(r) ==
    /\ Stage(r, "select")
    /\ LET written == [selection EXCEPT ![r] = [at |-> refresh[r].slate, observed |-> refresh[r].at]]
       IN  \/ Right /\ selection' = written /\ Onward(r, "publish")
           \/ Wrong /\ selection' \in {selection, written} /\ Onward(r, "fail")
    /\ UNCHANGED <<now, holder, row, stored, events, slate, published, latest, outlived>>

(* The last status of the run, and the release of its lock.                *)
FinalState == [publish |-> "completed", unconfigured |-> "not_configured", fail |-> "failed"]
Publish(r) ==
    /\ refresh[r].pc \in DOMAIN FinalState /\ SetResearchDataStatus(FinalState[refresh[r].pc], r) /\ Onward(r, "release")
    /\ UNCHANGED <<now, holder, durable, slate, latest, outlived>>
ReleaseRefresh(r) ==
    /\ Stage(r, "release") /\ Onward(r, "done")
    /\ \/ Right /\ holder' = (IF holder = r THEN Nobody ELSE holder)
       \/ Wrong /\ UNCHANGED holder
    /\ UNCHANGED <<now, durable, slate, published, latest, outlived>>

Refreshing(r) ==
    \/ WithRefreshLock(r) \/ Announce(r) \/ Prepare(r) \/ ReadLatestPriorMandateScoreObservation(r)
    \/ WriteResearchJobStart(r) \/ CommitResearch(r) \/ FinishResearchJobRun(r) \/ FailResearchJobRun(r)
    \/ SetMandateScores(r) \/ WriteResearchEvents(r) \/ LoadPrivateBaseline(r) \/ WriteResearchSelectionRun(r)
    \/ Publish(r) \/ ReleaseRefresh(r)

-------------------------------------------------------------------------------
RefreshDies(r) ==
    /\ Alive(r) /\ Wrong /\ Onward(r, "dead")
    /\ UNCHANGED <<now, holder, durable, slate, published, latest, outlived>>
RefreshLockExpires ==
    /\ holder # Nobody /\ holder' = Nobody
    /\ IF Alive(holder) THEN Wrong /\ outlived' = TRUE ELSE Right /\ UNCHANGED outlived
    /\ UNCHANGED <<now, refresh, durable, slate, published, latest>>
(* A research scan captures its slate at any time (research-scan.js).      *)
SetPrivateResearchSlate ==
    /\ slate # now /\ slate' = now
    /\ UNCHANGED <<now, holder, refresh, durable, published, latest, mishaps, outlived>>
TimePasses ==
    /\ now < LastTime /\ now' = now + 1
    /\ UNCHANGED <<holder, refresh, durable, slate, published, latest, mishaps, outlived>>

HistoryNext ==
    \/ \E r \in Refreshes : Refreshing(r) \/ RefreshDies(r)
    \/ RefreshLockExpires \/ SetPrivateResearchSlate \/ TimePasses
HistorySpec == HistoryInit /\ [][HistoryNext]_historyVars

-------------------------------------------------------------------------------
(* What Redis publishes of a run is in Postgres: a status "completed"      *)
(* stands for a completed row, every observation, the event of each and    *)
(* the selection; the latest view is of a completed row; and a row is      *)
(* completed only over its data, whichever call failed, died or lost its   *)
(* reply ("written only as a latest-view cache after Postgres succeeds").  *)
PublishedIsDurable ==
    /\ \A r \in Refreshes : row[r] = "completed" => {r} \X Names \subseteq stored
    /\ latest # Nobody => row[latest] = "completed"
    /\ published.state = "completed" =>
          /\ row[published.run] = "completed" /\ selection[published.run] # NoSelection
          /\ \A n \in Names : \E e \in events : e.current = published.run /\ e.name = n

(* Nothing in the history looks ahead, however runs and scans overlap: an  *)
(* event compares with an observation made strictly before its own, and a  *)
(* selection starts from a slate no later than its observations and no     *)
(* older than the limit (validateEventReferences, validatedBaseline).      *)
NoLookAhead ==
    /\ \A e \in events : e.previous # Nobody => refresh[e.previous].at < refresh[e.current].at
    /\ \A r \in Refreshes : selection[r].at # Never => selection[r].observed - selection[r].at \in 0..MaxAge

(* A name has one history: no observation is the predecessor of two, so a  *)
(* change is told once.  Excepted is a run that outlives its lock.         *)
OneSuccessor == outlived \/ \A e, f \in events : e.name = f.name /\ e.previous = f.previous => e = f

(* The history of a name is one line in time.                              *)
OneLineInTime == NoLookAhead /\ OneSuccessor
================================================================================
