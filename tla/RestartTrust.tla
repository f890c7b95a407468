----------------------------- MODULE RestartTrust -----------------------------
(***************************************************************************)
(* Restarts of the backend and who explains them: PM2 counts them, the     *)
(* deploy script (scripts/restart-with-pm2-deploy-marker.js) leaves a      *)
(* signed marker for the one restart it made, and the sentinel raises a P1 *)
(* for every restart since its last snapshot that no marker explains.      *)
(*                                                                         *)
(* The script and the sentinel take one step between two awaits.           *)
(***************************************************************************)
EXTENDS SentinelChecks

CONSTANTS
    Sentinels,      \* runs of the sentinel that may overlap
    MaxStarts,      \* bound: starts of the process
    MaxHitches       \* bound: failed calls, crashes of the script, lost keys

VARIABLES
    proc,       \* the PM2 process; `at' numbers its starts, `by' the deploy that set its environment
    baseline,   \* the counts in pm:sysloop:state
    markers,    \* pm:sysloop:deploy-marker:<process>:<after>
    deploy,     \* the deploy script
    sentinel,   \* [Sentinels -> a run]
    hitches,
    unexplained,    \* starts no deploy script vouches for, with the count PM2 gave them
    reported,       \* starts a published snapshot raised a P1 about
    seen,           \* the last start a published snapshot has seen
    epoch           \* the start with which PM2's counter last began
procVars == <<proc, unexplained>>
trackVars == <<sentinel, baseline, reported, seen>>
restartVars == <<proc, baseline, markers, deploy, sentinel, hitches, unexplained, reported, seen, epoch>>

Counts(restarts, unstable) == [restarts |-> restarts, unstable |-> unstable]
Script == [pc |-> "idle", id |-> 0, base |-> Counts(0, 0), before |-> [at |-> 0], blind |-> FALSE]
NoRun == [pc |-> "idle", proc |-> [at |-> 0], prev |-> Counts(Unknown, Unknown), markers |-> {}, blind |-> FALSE]
(* The stored baseline is of the running counter; a script or a sentinel   *)
(* that read before it was, or ran when the counter went back, is blind.   *)
Noticed == seen >= epoch
Settled == Noticed /\ ~deploy.blind /\ \A s \in Sentinels : ~sentinel[s].blind
Start(after) == [at |-> proc.at + 1, after |-> after, hidden |-> ~Settled]

RestartInit ==
    /\ proc = [restarts |-> 0, unstable |-> 0, exit |-> 0, at |-> 1, by |-> 0]
    /\ baseline \in {Counts(0, 0), Counts(Unknown, Unknown)}
    /\ markers = {} /\ deploy = Script /\ sentinel = [s \in Sentinels |-> NoRun] /\ hitches = 0
    /\ unexplained = {} /\ reported = {} /\ seen = 1 /\ epoch = 1

NoHitch == UNCHANGED hitches
Hitch == hitches < MaxHitches /\ hitches' = hitches + 1

-----------------------------------------------------------------------------
(* PM2.  A crash restarts the process with its exit code, a quick one      *)
(* counts as unstable; `pm2 restart' by hand exits cleanly.  Deleting the  *)
(* process and adding it again starts the counters over.                   *)
CrashOrRestart ==
    /\ proc.at < MaxStarts
    /\ \E unstable, exit \in 0..1 :
          /\ unstable <= exit
          /\ proc' = [proc EXCEPT !.restarts = @ + 1, !.unstable = @ + unstable, !.exit = exit, !.at = @ + 1]
    /\ unexplained' = unexplained \cup {Start(proc.restarts + 1)}
    /\ UNCHANGED <<markers, deploy, trackVars, hitches, epoch>>
Reset ==
    /\ proc.at < MaxStarts /\ Hitch
    /\ proc' = [restarts |-> 0, unstable |-> 0, exit |-> 0, at |-> proc.at + 1, by |-> 0]
    /\ epoch' = proc.at + 1
    /\ unexplained' = {[f EXCEPT !.hidden = TRUE] : f \in unexplained}
    /\ deploy' = [deploy EXCEPT !.blind = @ \/ deploy.pc # "idle"]
    /\ sentinel' = [s \in Sentinels |-> [sentinel[s] EXCEPT !.blind = @ \/ sentinel[s].pc # "idle"]]
    /\ UNCHANGED <<markers, baseline, reported, seen>>

-----------------------------------------------------------------------------
(* A marker vouches for the one start it names.                            *)
Marker(before, after) ==
    [before |-> before.restarts, after |-> after.restarts, unstable |-> after.unstable, at |-> after.at, by |-> after.by]
(* validatePm2DeployMarkerChain: one marker for each restart, in order,    *)
(* none of them unstable, and the last one is of the running process.      *)
ValidateAnyChain(found, prev, current) == current.exit = 0 /\ found # {}
ValidatePm2DeployMarkerChain(found, prev, current) ==
    /\ prev.restarts # Unknown /\ current.restarts > prev.restarts
    /\ current.unstable = prev.unstable /\ current.exit = 0
    /\ \A n \in prev.restarts + 1 .. current.restarts : \E m \in found :
          /\ m.after = n /\ m.before = n - 1 /\ m.unstable = prev.unstable
          /\ n = current.restarts => m.at = current.at /\ m.by = current.by
PendingMarkers(prev, current) ==
    {m \in markers : m.after \in prev.restarts + 1 .. current.restarts /\ prev.restarts # Unknown}

Reaches(pc) == deploy' = [deploy EXCEPT !.pc = pc]
Exits == deploy' = Script
Aborts == Hitch /\ Exits
Script0(pc) == deploy.pc = pc
ReadState ==
    /\ Script0("idle") /\ NoHitch
    /\ Unknown \notin {baseline.restarts, baseline.unstable}
    /\ deploy' = [deploy EXCEPT !.pc = "before", !.id = proc.at, !.base = baseline, !.blind = ~Noticed]
    /\ UNCHANGED <<procVars, markers, trackVars, epoch>>
ReadPm2Process ==
    /\ Script0("before")
    /\ \/ Aborts
       \/ /\ NoHitch
          /\ IF proc.exit # 0 \/ proc.unstable # deploy.base.unstable \/ proc.restarts < deploy.base.restarts THEN Exits
             ELSE deploy' = [deploy EXCEPT !.before = proc,
                                           !.pc = IF proc.restarts > deploy.base.restarts THEN "pending" ELSE "restart"]
    /\ UNCHANGED <<procVars, markers, trackVars, epoch>>
(* A gap since the last snapshot must be explained before it grows.        *)
ReadPendingMarkers ==
    /\ Script0("pending")
    /\ \/ Aborts
       \/ /\ NoHitch
          /\ IF ValidatePm2DeployMarkerChain(PendingMarkers(deploy.base, deploy.before), deploy.base, deploy.before)
             THEN Reaches("restart") ELSE Exits
    /\ UNCHANGED <<procVars, markers, trackVars, epoch>>
(* The command may have restarted the process although it fails.           *)
Pm2Restart ==
    /\ Script0("restart")
    /\ \/ /\ proc.at < MaxStarts
          /\ proc' = [proc EXCEPT !.restarts = @ + 1, !.exit = 0, !.at = @ + 1, !.by = deploy.id]
          /\ unexplained' = unexplained \cup {Start(proc.restarts + 1)}
          /\ (NoHitch /\ Reaches("after")) \/ Aborts
       \/ Aborts /\ UNCHANGED procVars
    /\ UNCHANGED <<markers, trackVars, epoch>>
(* Exactly one clean restart, and the environment the script asked for.    *)
Verified(before, after) ==
    /\ after.restarts = before.restarts + 1 /\ after.unstable = before.unstable
    /\ after.exit = 0 /\ after.at > before.at /\ after.by = deploy.id
VerifyAfter ==
    /\ Script0("after")
    /\ \/ Aborts
       \/ /\ NoHitch
          /\ IF Verified(deploy.before, proc)
             THEN deploy' = [deploy EXCEPT !.pc = "mark", !.base = Marker(deploy.before, proc)] ELSE Exits
    /\ UNCHANGED <<procVars, markers, trackVars, epoch>>
(* A marker is never overwritten; the reply to the write may be lost.      *)
SetMarker ==
    /\ Script0("mark")
    /\ IF \E m \in markers : m.after = deploy.base.after
       THEN NoHitch /\ Exits /\ UNCHANGED <<markers, unexplained>>
       ELSE \/ /\ NoHitch \/ Hitch
               /\ Exits /\ markers' = markers \cup {deploy.base}
               /\ unexplained' = {f \in unexplained : f.at # deploy.base.at}
            \/ Aborts /\ UNCHANGED <<markers, unexplained>>
    /\ UNCHANGED <<proc, trackVars, epoch>>
Expire == \E m \in markers : Hitch /\ markers' = markers \ {m} /\ UNCHANGED <<procVars, deploy, trackVars, epoch>>

-----------------------------------------------------------------------------
(* The sentinel reads PM2 and the state at the same time, then the markers *)
(* of the restarts in between.                                             *)
Reads(s, run, next) ==
    NoHitch /\ sentinel' = [sentinel EXCEPT ![s] = [run EXCEPT !.pc = next, !.blind = @ \/ ~Noticed]]
Gather(s) ==
    /\ \/ sentinel[s].pc = "idle" /\ Reads(s, [sentinel[s] EXCEPT !.proc = proc], "state")
       \/ sentinel[s].pc = "idle" /\ Reads(s, [sentinel[s] EXCEPT !.prev = baseline], "pm2")
       \/ sentinel[s].pc = "pm2" /\ Reads(s, [sentinel[s] EXCEPT !.proc = proc], "markers")
       \/ sentinel[s].pc = "state" /\ Reads(s, [sentinel[s] EXCEPT !.prev = baseline], "markers")
       \/ /\ sentinel[s].pc = "state" /\ Hitch
          /\ sentinel' = [sentinel EXCEPT ![s].pc = "markers", ![s].prev = Counts(Unknown, Unknown)]
    /\ UNCHANGED <<procVars, markers, deploy, baseline, reported, seen, epoch>>
GatherPendingDeployMarkers(s) ==
    /\ sentinel[s].pc = "markers"
    /\ \/ NoHitch /\ sentinel' = [sentinel EXCEPT ![s].pc = "persist", ![s].markers = PendingMarkers(sentinel[s].prev, sentinel[s].proc)]
       \/ Hitch /\ sentinel' = [sentinel EXCEPT ![s].pc = "persist", ![s].markers = {}]
    /\ UNCHANGED <<procVars, markers, deploy, baseline, reported, seen, epoch>>

Alarms(run) ==
    CheckPm2([list |-> "online", restarts |-> run.proc.restarts, unstable |-> run.proc.unstable, exit |-> run.proc.exit,
              prevRestarts |-> run.prev.restarts, prevUnstable |-> run.prev.unstable,
              trusted |-> ValidatePm2DeployMarkerChain(run.markers, run.prev, run.proc)])
(* The snapshot, the new baseline and the markers it used, in one script.  *)
PersistSnapshot(s) ==
    LET run == sentinel[s]
    IN  /\ run.pc = "persist" /\ sentinel' = [sentinel EXCEPT ![s] = NoRun]
        /\ \/ Hitch /\ UNCHANGED <<markers, baseline, reported, seen>>
           \/ /\ NoHitch
              /\ baseline' = Counts(run.proc.restarts, run.proc.unstable)
              /\ markers' = IF ValidatePm2DeployMarkerChain(run.markers, run.prev, run.proc)
                            THEN {m \in markers : \A n \in run.markers : m.after # n.after} ELSE markers
              /\ reported' = IF Alarms(run) = {} THEN reported
                             ELSE reported \cup {f.at : f \in {g \in unexplained : g.at <= run.proc.at}}
              /\ seen' = run.proc.at
        /\ UNCHANGED <<procVars, deploy, epoch>>

RestartNext ==
    \/ CrashOrRestart \/ Reset
    \/ ReadState \/ ReadPm2Process \/ ReadPendingMarkers \/ Pm2Restart \/ VerifyAfter \/ SetMarker \/ Expire
    \/ \E s \in Sentinels : Gather(s) \/ GatherPendingDeployMarkers(s) \/ PersistSnapshot(s)
RestartSpec == RestartInit /\ [][RestartNext]_restartVars

-----------------------------------------------------------------------------
(* No restart goes by in silence: one that the deploy script does not      *)
(* vouch for is in a published snapshot's P1 once the stored baseline has  *)
(* moved past it, whatever the script and the sentinels did in between     *)
(* (checkPm2, validatePm2DeployMarkerChain).  Excepted are restarts after  *)
(* a deletion of PM2's counter, until a snapshot of the new count is       *)
(* published and every script and sentinel begun before that has ended.    *)
NoSilentRestart == \A f \in unexplained : f.at <= seen /\ ~f.hidden => f.at \in reported
===============================================================================
