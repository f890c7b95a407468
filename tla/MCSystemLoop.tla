----------------------------- MODULE MCSystemLoop -----------------------------
(* The parts of the system loop in one run, each from its own initial      *)
(* states: the checks on a system that goes wrong fact by fact while       *)
(* sources drop out, the restarts of one process, and the findings of two  *)
(* evenings.                                                               *)
EXTENDS SystemLoop, TLC

CONSTANTS MaxWorse, MaxWrong
VARIABLES side, worse   \* the part that moves; how often the system got worse

MCAnomalies == {Anomaly("pm2", "P1", <<"missing">>), Anomaly("research-data", "P2", <<"failed">>)}

Ran(when, ok, outcome) == [ran |-> when, ok |-> ok, outcome |-> outcome]
Proposal(id, status) ==
    [id |-> id, status |-> status, aged |-> FALSE, executing |-> FALSE, decided |-> TRUE, fulfilled |-> FALSE,
     signed |-> TRUE, order |-> "booked", schema |-> TRUE]
Healthy(weekday, minute, proposal) ==
    [pm2 |-> [list |-> "online", restarts |-> 2, unstable |-> 0, exit |-> 0, prevRestarts |-> 2, prevUnstable |-> 0, trusted |-> TRUE],
     health |-> [read |-> TRUE, down |-> {}],
     researchData |-> [state |-> "completed", enabled |-> TRUE, age |-> "fresh", plausible |-> TRUE],
     trading |-> TRUE, weekday |-> weekday, minute |-> minute,
     jobs |-> [j \in DOMAIN JobExpectations |-> Ran("today", TRUE, "completed")], weekly |-> "fresh", priorObserved |-> TRUE,
     coverage |-> "full", probes |-> [path \in {"/", "/api"} |-> "protected"], proposals |-> {proposal}, marketOpen |-> TRUE,
     companion |-> "fresh", listed |-> {proposal.id}, breaker |-> "green", hwm |-> "ok",
     reconciliations |-> {}, headers |-> [tab \in {"Lots"} |-> "ok"], performance |-> "fresh", logs |-> <<"a">>,
     prevClusters |-> [l \in {"a", "b"} |-> IF l = "a" THEN 1 ELSE Unknown], providerNoise |-> {}, missingDocs |-> {},
     tracked |-> {}, lost |-> {}]
MCWorlds == {Healthy("Thu", 1240, Proposal(1, "ApprovedForBrokerReview")), Healthy("Fri", 1095, Proposal(1, "Pending")),
             Healthy("Fri", 1240, [Proposal(1, "ApprovedForBrokerReview") EXCEPT !.fulfilled = TRUE])}

\* one more fact for the worse: each of them from what it is in a healthy world
From(ok, facts) == IF ok THEN facts ELSE {}
WorseProposals(x) ==
    UNION {{[x EXCEPT !.proposals = (@ \ {p}) \cup {q}] : q \in
              {[p EXCEPT !.aged = TRUE], [p EXCEPT !.executing = TRUE], [p EXCEPT !.signed = FALSE], [p EXCEPT !.schema = FALSE]}
              \cup From(p.fulfilled /\ p.order = "booked", {[p EXCEPT !.order = o] : o \in {"none", "unbooked"}})} : p \in x.proposals}
WorseWorlds(x) ==
    From(x.pm2.list = "online", {[x EXCEPT !.pm2.list = s] : s \in {"stopped", "missing", "unreadable"}})
    \cup From(x.pm2.restarts = 2, {[x EXCEPT !.pm2.restarts = r, !.pm2.trusted = t] : r \in {1, 3, Unknown}, t \in BOOLEAN})
    \cup {[x EXCEPT !.pm2.unstable = 1], [x EXCEPT !.pm2.exit = 1], [x EXCEPT !.pm2.prevRestarts = Unknown]}
    \cup {[x EXCEPT !.health.read = FALSE], [x EXCEPT !.health.down = @ \cup {"redis"}]}
    \cup From(x.researchData.state = "completed", {[x EXCEPT !.researchData.state = "failed"]})
    \cup From(x.researchData.age = "fresh", {[x EXCEPT !.researchData.state = s, !.researchData.age = a] :
                                                s \in {"completed", "running"}, a \in {"stale", "unknown"}})
    \cup {[x EXCEPT !.researchData.plausible = FALSE]}
    \cup UNION {From(x.jobs[j].outcome = "completed",
                     {[x EXCEPT !.jobs[j] = r] : r \in {Ran("never", FALSE, "none"), Ran("earlier", FALSE, "none"),
                         Ran("today", FALSE, "failed"), Ran("today", TRUE, "degraded")}}) : j \in {"exitMonitor", "researchScan"}}
    \cup From(x.weekly = "fresh", {[x EXCEPT !.weekly = s] : s \in {"never", "stale"}}) \cup {[x EXCEPT !.priorObserved = FALSE]}
    \cup From(x.coverage = "full", {[x EXCEPT !.coverage = c] : c \in {"partial", "none", "unknown"}})
    \cup From(x.probes["/api"] = "protected", {[x EXCEPT !.probes["/api"] = s] : s \in {"open", "unreachable", "status", "slow"}})
    \cup WorseProposals(x)
    \cup {[x EXCEPT !.proposals = @ \cup {[Proposal(i, "Expired") EXCEPT !.decided = FALSE] : i \in 2..4}, !.listed = @ \cup 2..4]}
    \cup From(x.companion = "fresh", {[x EXCEPT !.companion = c] : c \in {"stale", "never"}}) \cup {[x EXCEPT !.listed = @ \cup {9}]}
    \cup {[x EXCEPT !.breaker = "unknown_tier"], [x EXCEPT !.hwm = "nan"]}
    \cup {[x EXCEPT !.reconciliations = {[order |-> 1, verified |-> x.reconciliations = {}]}]}
    \cup From(x.headers["Lots"] = "ok", {[x EXCEPT !.headers["Lots"] = h] : h \in {"missing", "drift"}})
    \cup {[x EXCEPT !.performance = "stale"]}
    \cup {[x EXCEPT !.logs = @ \o [i \in 1..4 |-> l]] : l \in {"a", "b"}} \cup {[x EXCEPT !.missingDocs = @ \cup {"d"}]}
    \cup {[x EXCEPT !.tracked = @ \cup {[of |-> Anomaly("manual", "P2", <<"m">>), severity |-> s]}] : s \in {"P0", "P1", "P2"}}

Sides == {"checks", "restarts", "loop"}
MCSystemInit ==
    /\ RestartInit /\ LoopInit /\ down = {} /\ worse = 0 /\ side \in Sides
    /\ IF side = "checks" THEN world \in MCWorlds ELSE world = Healthy("Thu", 1240, Proposal(1, "Pending"))
    /\ side # "restarts" => baseline.restarts = 0
GoesWrong ==
    /\ worse < MaxWorse /\ Cardinality(down) + worse < MaxWrong /\ worse' = worse + 1
    /\ world' \in WorseWorlds(world) \ {world} /\ UNCHANGED down
DropsOut == \E s \in Sources \ down : Cardinality(down) + worse < MaxWrong /\ down' = down \cup {s} /\ UNCHANGED <<world, worse>>
\* the maintainer, the watch and a deployment act between runs or as one merges; the week ends with the
\* last day, on which a mishap is followed while the report is written (triage and the sentinel meet theirs
\* on the first); the report and triage hold different locks and are followed one at a time
Apart == /\ ledger' # ledger \/ checkout' # checkout \/ watch' # watch =>
               (\E r \in Runners : run[r].pc = "merge") \/ lowered' # lowered \/ \A r \in Runners : ~Busy(r)
         /\ date < MaxDate => \A r \in Runners : run'[r].kind # "weekly"
         /\ \A r, q \in Runners : run'[r].kind = "weekly" => run'[q].pc = "idle" \/ run'[q].kind = "weekly"
         /\ date = MaxDate /\ slips' # slips => (\E r \in Runners : Busy(r)) /\ \A r \in Runners : Busy(r) => run[r].kind = "weekly"
\* triage is attempted again after a mishap of the first day
Again == /\ \A r \in Runners : run[r].pc = "idle" /\ run'[r].pc = "lock" =>
               attempts[run'[r].kind] = 0 \/ (run'[r].kind = "triage" /\ slips > 0 /\ date = 1)
         /\ \A k \in Kinds : attempts'[k] = 2 /\ attempts[k] = 1 => k = "triage" /\ slips > 0 /\ date = 1
\* edits change the status, toward fixed, or the severity, once, while a run classifies
Edits == \A f \in Fingerprints : ledger'[f] # ledger[f] /\ run' = run =>
            \/ ledger'[f].severity = ledger[f].severity /\ ledger'[f].status # "open" /\ ledger[f].status # "fixed"
            \/ /\ ledger'[f].status = ledger[f].status /\ ledger'[f].severity = "P3"
               /\ lowered = {} /\ slips = 0 /\ date = 1 /\ \E r \in Runners : run[r].pc = "classify"
\* what follows a second attempt or a lowered severity is followed to the end of the day
EndsToday == date' # date => attempts["triage"] < 2 /\ lowered = {}
MCSystemNext ==
    /\ UNCHANGED side
    /\ \/ side = "checks" /\ (GoesWrong \/ DropsOut) /\ UNCHANGED <<restartVars, loopVars>>
       \/ side = "restarts" /\ RestartNext /\ UNCHANGED <<checkVars, worse, loopVars>>
       \/ side = "loop" /\ LoopNext /\ Apart /\ Again /\ Edits /\ EndsToday /\ UNCHANGED <<checkVars, worse, restartVars>>

(* One more thing wrong never makes an evening look better: no check's     *)
(* finding hides a more severe one (runChecks).                            *)
WorseNeverQuieter ==
    [][worse' > worse => Worst(Snapshot(world', down)) <= Worst(Snapshot(world, down))]_<<world, down, worse>>
===============================================================================
