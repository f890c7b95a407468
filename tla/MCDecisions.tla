------------------------------ MODULE MCDecisions ------------------------------
(* What stands between an idea and a queued proposal, part by part in one  *)
(* run: the spend of the models that are asked, the review of a candidate, *)
(* and the mandate's score and gates.  A behaviour moves one part.         *)
EXTENDS MCAnthropicBudget, MCReviewChain, MCMandatePolicy

VARIABLE part
\* no mandate: what the others leave at rest
Absent == {"criticalCredibilityEvent", "spyClose"}
NoMandate ==
    /\ policy = [agent |-> "none", holding |-> Absent] /\ live = TRUE
    /\ evidence = [e \in Absent |-> Unavailable] /\ candidate = <<>> /\ score = None /\ identity = TRUE /\ changes = 0
MCInit ==
    /\ part \in {"spend", "review", "mandate"} /\ Init /\ ReviewInit
    /\ part # "review" => ctx = Found
    /\ IF part = "mandate" THEN PolicyInit ELSE NoMandate
MCNext ==
    /\ UNCHANGED part
    /\ \/ part = "spend" /\ Next /\ UNCHANGED <<reviewVars, policyVars>>
       \/ part = "review" /\ ReviewNext /\ UNCHANGED <<vars, policyVars>>
       \/ part = "mandate" /\ PolicyNext /\ UNCHANGED <<vars, reviewVars>>
MCSpec == MCInit /\ [][MCNext]_<<part, vars, reviewVars, policyVars>>
================================================================================
