------------------------------ MODULE SystemLoop ------------------------------
(***************************************************************************)
(* The system loop as a whole: the sentinel's view of the system and of    *)
(* the sources it cannot read, the restarts of the backend and who         *)
(* explains them, and the findings from anomaly to report                  *)
(* (SentinelChecks, RestartTrust, FindingsLoop).                           *)
(***************************************************************************)
EXTENDS FindingsLoop, RestartTrust

VARIABLES
    world, down     \* the state of the system, and the sources that cannot be read
checkVars == <<world, down>>
systemVars == <<checkVars, restartVars, loopVars>>

(* What the sentinel gathers has its slices, whatever they say.            *)
Slices == {"lost", "pm2", "health", "researchData", "companion", "proposals", "breaker", "hwm", "prevClusters"}
IsWorld(x) == Slices \subseteq DOMAIN x /\ "list" \in DOMAIN x.pm2 /\ "read" \in DOMAIN x.health

SystemInit == RestartInit /\ LoopInit /\ IsWorld(world) /\ down \in SUBSET Sources
(* The system and its sources change in any way; the processes of the      *)
(* other two parts take their steps in between.                            *)
WorldMoves == IsWorld(world') /\ down' \in SUBSET Sources
SystemNext ==
    \/ WorldMoves /\ UNCHANGED <<restartVars, loopVars>>
    \/ RestartNext /\ UNCHANGED <<checkVars, loopVars>>
    \/ LoopNext /\ UNCHANGED <<checkVars, restartVars>>
SystemSpec == SystemInit /\ [][SystemNext]_systemVars

-----------------------------------------------------------------------------
(* A source that cannot be read is an anomaly of the check that answers    *)
(* for it, and never a quiet pass, whatever else is wrong or unread        *)
(* (assembleSnapshot, runChecks: "FAIL CLOSED").  Excepted are the readers *)
(* that answer a failed read as if nothing were there.                     *)
UnreadIsVisible == \A s \in down \ Silent : \E a \in Snapshot(world, down) : a.check = Answers[s]

(* A restart nobody asked for, and an urgent anomaly, reach the operator   *)
(* (RestartTrust, FindingsLoop).                                           *)
TroubleIsReported == NoSilentRestart /\ UrgentIsPaged
===============================================================================
