----------------------------- MODULE MCOperations -----------------------------
(* What watches over the jobs, part by part in one run: the days of the    *)
(* safety window (MCSafetyDay), and the system loop with its checks,       *)
(* restarts and findings (MCSystemLoop).  A behaviour moves one part.      *)
EXTENDS MCSafetyDay, MCSystemLoop

CONSTANTS t1, t2
VARIABLE part
dayVars == <<vars, ev, depth>>
sideVars == <<side, worse, systemVars>>

OpsInit ==
    /\ part \in {"days", "system"} /\ MCInit /\ MCSystemInit
    /\ part = "days" => side = "loop"
    /\ part = "system" => ev = NoEvidence
OpsNext ==
    /\ UNCHANGED part
    /\ \/ part = "days" /\ MCNext /\ UNCHANGED sideVars
       \/ part = "system" /\ MCSystemNext /\ UNCHANGED dayVars
OpsSpec == OpsInit /\ [][OpsNext]_<<part, sideVars, dayVars>>
OpsSymmetry == Permutations(Runners)

(* Neither the day's verdict nor the sentinel's findings get better when   *)
(* one more thing goes wrong or unread.                                    *)
WorseIsNeverBetter == WorseNeverCleans /\ WorseNeverQuieter
================================================================================
