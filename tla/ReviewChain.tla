----------------------------- MODULE ReviewChain -----------------------------
(***************************************************************************)
(* The decision chain of the research scan: one agent reviews candidates   *)
(* one after another (reviewCandidateForAgent), each through the data      *)
(* gate, the generator with its bounded retries, the deterministic gates,  *)
(* the evaluator with its one revision, the sizing and the approval queue. *)
(* A call of a model or of the queue is a step that may answer anything or *)
(* fail; the pure gates between two calls are one step.                    *)
(*                                                                         *)
(* Weights are percentages of the account and dollars are counted in the   *)
(* same unit: the account is worth 100.                                    *)
(***************************************************************************)
EXTENDS Totals

CONSTANTS
    Contexts,     \* what a run may find: [agent, red, tier, positions, mandateGate, sold,
                  \*   budget, open], the agent's limits being [maxPos, maxSector, redCap,
                  \*   conviction, dualRedBlocks, noAveragingDown, reserve, starter, floors]
    Candidates,   \* what a candidate may look like: [ticker, gate, held, weight, owned,
                  \*   atLoss, sector, strong, catalyst, floorsMet]
    Replies,      \* what the generator may answer:
                  \*   [action, weight, cited, flaw, family, cashTalk, broken]
    MaxReviews,   \* bound: how many candidates one run reviews
    ProposalCap,  \* MAX_AMOUNT_DOLLARS
    Slots,        \* starterPortfolioMaxPositions
    MaxSlips      \* bound: calls that fail in one run

Sides == {"BUY", "SELL"}
Actions == Sides \cup {"HOLD"}
Limits == [maxPos : Nat, maxSector : Nat, redCap : Nat, conviction : BOOLEAN,
           dualRedBlocks : BOOLEAN, noAveragingDown : BOOLEAN, reserve : 0 .. 100,
           starter : BOOLEAN, floors : BOOLEAN]
Listed == [ticker : STRING, side : Sides]
Reply == [action : Actions, weight : Nat, cited : BOOLEAN, flaw : BOOLEAN, family : BOOLEAN,
          cashTalk : BOOLEAN, broken : BOOLEAN]

ASSUME BoundsAssumption ==
    /\ MaxReviews \in Nat /\ MaxSlips \in Nat
    /\ ProposalCap \in Nat /\ Slots \in Nat \ {0}
    /\ Contexts \subseteq
         [agent : Limits, red : 0 .. 2, tier : {"NONE", "REDUCE", "NO_NEW_BUYS", "HALT"},
          positions : Nat, mandateGate : BOOLEAN, sold : SUBSET STRING, budget : Nat,
          open : SUBSET Listed]
    \* a mandate without the dual-red gate has no single-red ceiling either
    /\ \A x \in Contexts : ~x.agent.dualRedBlocks => x.agent.redCap >= x.agent.maxPos
    /\ Candidates # {}
    /\ Candidates \subseteq
         [ticker : STRING, gate : {"ok", "stale", "missing"}, held : Nat, weight : Nat,
          owned : Nat, atLoss : BOOLEAN, sector : Nat, strong : Nat, catalyst : BOOLEAN,
          floorsMet : BOOLEAN]
    /\ \A c \in Candidates : c.weight >= c.held
    /\ Replies \subseteq Reply

VARIABLES
    ctx,     \* facts of the run, read before its first review
    cash,    \* ctx.availableCashForBuys
    open,    \* ctx.openProposals, those still open
    review,  \* the review in progress
    done,    \* tickers reviewed
    queued,  \* proposals the run created
    outcome, \* how the last review was classified
    slips
reviewVars == <<ctx, cash, open, review, done, queued, outcome, slips>>
account == <<ctx, cash, open, queued>>

Smaller(a, b) == IF a < b THEN a ELSE b
Above(a, b) == IF a > b THEN a - b ELSE 0
Held(r) == [r EXCEPT !.action = "HOLD", !.weight = 0]
agent == ctx.agent
cand == review.cand

NoAnswer == [action |-> "HOLD", weight |-> 0, cited |-> TRUE, flaw |-> FALSE,
             family |-> TRUE, cashTalk |-> FALSE, broken |-> FALSE]
Idle == [pc |-> "idle", cand |-> CHOOSE c \in Candidates : TRUE, role |-> "first", retries |-> 0,
         answer |-> NoAnswer, rec |-> NoAnswer, wanted |-> "none", overridden |-> FALSE,
         duplicate |-> FALSE, graded |-> NoAnswer, verdict |-> "not_run", calls |-> 0]

-------------------------------------------------------------------------------
(* The pure gates: each takes a recommendation and restricts it.           *)

\* parseRecommendation: an actionable answer whose citations do not hold is held
Parsed(a) == IF a.action # "HOLD" /\ ~a.cited THEN Held(a) ELSE a

Business(r) == IF r.action # "HOLD" /\ ~r.family THEN Held(r) ELSE r

AveragesDown(r) == agent.noAveragingDown /\ cand.weight > 0 /\ cand.atLoss
BelowFloors(r) == agent.floors /\ ~cand.floorsMet
Clamped(r) == Smaller(r.weight, agent.maxPos)
OverSector(r) == Above(cand.sector, cand.weight) + Clamped(r) > agent.maxSector
Risk(r) ==
    IF r.action = "HOLD" \/ r.flaw THEN Held(r)
    ELSE IF r.action = "SELL" THEN [r EXCEPT !.weight = 0]
    ELSE IF AveragesDown(r) \/ BelowFloors(r) \/ OverSector(r) THEN Held(r)
    ELSE [r EXCEPT !.weight = Clamped(r)]

\* assessConviction: the largest weight the candidate's signals earn
ConvictionCap ==
    CASE cand.strong >= 2 /\ cand.catalyst -> 15
      [] cand.strong >= 2 /\ ~cand.catalyst -> 10
      [] cand.strong = 1 -> 5
      [] OTHER -> 0
Conviction(r) ==
    IF ~agent.conviction \/ r.action # "BUY" THEN r
    ELSE IF ConvictionCap = 0 THEN Held(r)
    ELSE [r EXCEPT !.weight = Smaller(r.weight, ConvictionCap)]

OneRed(r) ==
    IF r.action = "BUY" /\ ctx.red = 1 THEN [r EXCEPT !.weight = Smaller(r.weight, agent.redCap)] ELSE r
Macro(r) ==
    IF ~agent.dualRedBlocks THEN r
    ELSE IF r.action = "BUY" /\ ctx.red = 2 THEN Held(r)
    ELSE OneRed(r)

\* the scan hands the mandate gate no evidence, so once enabled it admits no BUY
MandateGate(r) == IF ctx.mandateGate /\ r.action = "BUY" THEN Held(r) ELSE r

BreakerAllows(side) == IF side = "BUY" THEN ctx.tier \in {"NONE", "REDUCE"} ELSE ctx.tier # "HALT"
BreakerAmount(side, dollars) ==
    IF ctx.tier = "REDUCE" /\ side = "BUY" THEN dollars \div 2 ELSE dollars
Breaker(r) == IF r.action # "HOLD" /\ ~BreakerAllows(r.action) THEN Held(r) ELSE r

Restricted(r) == Breaker(MandateGate(Macro(Conviction(Risk(Business(r))))))
Revised_NoMacro(r) == Conviction(Risk(r))
Revised(r) == OneRed(Conviction(Risk(r)))

IsOpen(side) == [ticker |-> cand.ticker, side |-> side] \in open

\* sizeProposalAmount: 0 stands for no proposal
Deployable == Above(cash, agent.reserve)
Starter == agent.starter /\ cand.held = 0
Increment(weight) ==
    IF Starter THEN (100 - agent.reserve) \div Slots ELSE Above(weight, cand.held)
Sized(r) ==
    LET raw == IF r.action = "BUY" THEN Smaller(Increment(r.weight), Deployable) ELSE cand.owned
    IN  Smaller(raw, ProposalCap)
OpenBuys == Cardinality({p \in open : p.side = "BUY"})
StarterSlotsFull(r) == r.action = "BUY" /\ Starter /\ ctx.positions + OpenBuys >= Slots

-------------------------------------------------------------------------------
(* The run. *)

ReviewInit ==
    /\ ctx \in Contexts /\ cash = ctx.budget /\ open = ctx.open
    /\ review = Idle /\ done = {} /\ queued = {} /\ outcome = "none" /\ slips = 0

\* the loop takes its next candidate
Take == /\ review.pc = "idle" /\ Cardinality(done) < MaxReviews
        /\ \E c \in Candidates :
             /\ c.ticker \notin done /\ done' = done \cup {c.ticker}
             /\ review' = [Idle EXCEPT !.pc = "gate", !.cand = c]
        /\ outcome' = "none" /\ UNCHANGED <<account, slips>>

\* classifyRecommendationOutcome has the outcome; the review is over
Finish(kind) == outcome' = kind /\ review' = Idle
Goes(r) == review' = r /\ outcome' = outcome

DataGate == /\ review.pc = "gate"
            /\ IF cand.gate = "ok" THEN Goes([review EXCEPT !.pc = "ask"])
               ELSE Finish(IF cand.gate = "stale" THEN "stale_data" ELSE "data_gate")
            /\ UNCHANGED <<account, done, slips>>

(* One call of the generator.  A cut-off answer is asked for again at most *)
(* twice; an actionable one with bad citations is asked for once more, and *)
(* whatever comes back then is the answer.                                 *)
EvidenceRetry == 3
Consult == /\ review.pc = "ask"
           /\ \E a \in Replies :
                LET again == IF review.retries = EvidenceRetry THEN "no"
                             ELSE IF a.broken THEN (IF review.retries < 2 THEN "format" ELSE "no")
                             ELSE IF a.action # "HOLD" /\ ~a.cited THEN "evidence" ELSE "no"
                    asked == [review EXCEPT !.calls = @ + 1]
                IN Goes(CASE again = "format" -> [asked EXCEPT !.retries = @ + 1]
                          [] again = "evidence" -> [asked EXCEPT !.retries = EvidenceRetry]
                          [] OTHER -> [asked EXCEPT !.pc = "answered", !.answer = Parsed(a)])
           /\ UNCHANGED <<account, done, slips>>

\* an actionable recommendation that was not evaluated is held
FailClosed == Goes([review EXCEPT !.pc = "queue", !.rec = Held(@), !.verdict = "error"])
CallFails ==
    /\ review.pc \in {"ask", "evaluate", "evaluateAgain"} /\ slips < MaxSlips
    /\ \/ Finish("budget_exhausted")
       \/ review.pc = "ask" /\ review.role # "revision" /\ Finish("review_error")
       \/ (review.pc # "ask" \/ review.role = "revision") /\ FailClosed
    /\ slips' = slips + 1 /\ UNCHANGED <<account, done>>

\* model_output_invalid, and a HOLD for want of whole shares asked for once more
AnswerRefused == /\ review.pc = "answered" /\ review.role # "revision"
                 /\ \/ review.answer.broken
                    \/ review.role = "policy" /\ review.answer.action = "HOLD" /\ review.answer.cashTalk
                 /\ Finish("review_error") /\ UNCHANGED <<account, done, slips>>
PolicyRetry == /\ review.pc = "answered" /\ review.role = "first" /\ ~review.answer.broken
               /\ review.answer.action = "HOLD" /\ review.answer.cashTalk
               /\ Goes([review EXCEPT !.pc = "ask", !.role = "policy", !.retries = 0])
               /\ UNCHANGED <<account, done, slips>>

\* the deterministic gates and the duplicate check before the evaluator
PassGates ==
    /\ review.pc = "answered" /\ review.role # "revision" /\ ~review.answer.broken
    /\ ~(review.answer.action = "HOLD" /\ review.answer.cashTalk)
    /\ LET a == review.answer
           r == Restricted(a)
           skip == r.action = "HOLD" \/ IsOpen(r.action)
       IN Goes([review EXCEPT !.rec = r, !.wanted = a.action,
                  !.overridden = a.action # "HOLD" /\ r.action = "HOLD",
                  !.duplicate = r.action # "HOLD" /\ IsOpen(r.action),
                  !.pc = IF skip THEN "queue" ELSE "evaluate"])
    /\ UNCHANGED <<account, done, slips>>

\* evaluateProposal: an unreadable or contradictory approval reads as REJECT
Verdicts == {"APPROVE", "REJECT", "REVISE"}
Evaluate ==
    /\ review.pc = "evaluate"
    /\ \E v \in Verdicts :
         LET asked == [review EXCEPT !.calls = @ + 1, !.graded = review.rec]
         IN Goes(CASE v = "REVISE" -> [asked EXCEPT !.pc = "ask", !.role = "revision", !.retries = 0]
                   [] v = "APPROVE" -> [asked EXCEPT !.pc = "queue", !.verdict = "approved"]
                   [] v = "REJECT" -> [asked EXCEPT !.pc = "queue", !.verdict = "rejected", !.rec = Held(@)])
    /\ UNCHANGED <<account, done, slips>>

\* the revision goes through the sizing clamps again; a HOLD ends it
Revise ==
    /\ review.pc = "answered" /\ review.role = "revision"
    /\ LET r == Revised(review.answer)
       IN Goes(IF r.action = "HOLD"
               THEN [review EXCEPT !.pc = "queue", !.rec = r, !.verdict = "rejected"]
               ELSE [review EXCEPT !.pc = "evaluateAgain", !.answer = r])
    /\ UNCHANGED <<account, done, slips>>
EvaluateAgain ==
    /\ review.pc = "evaluateAgain"
    /\ \E v \in Verdicts :
         LET asked == [review EXCEPT !.pc = "queue", !.calls = @ + 1, !.graded = review.answer]
         IN Goes(IF v = "APPROVE" THEN [asked EXCEPT !.verdict = "approved", !.rec = review.answer]
                 ELSE [asked EXCEPT !.verdict = "rejected", !.rec = Held(@)])
    /\ UNCHANGED <<account, done, slips>>

Judged_ByFinal == IF review.rec.action = "HOLD" THEN "investment_hold" ELSE "unknown"
Judged == IF review.overridden THEN "risk_downgrade"
          ELSE IF review.wanted = "HOLD" THEN "investment_hold" ELSE "unknown"
Classified(disposition) ==
    IF disposition = "created" THEN "proposal_created"
    ELSE CASE review.verdict = "error" -> "evaluator_error"
           [] review.verdict = "rejected" -> "evaluator_reject"
           [] OTHER -> IF review.duplicate THEN "duplicate"
                       ELSE IF disposition # "not_applicable" THEN disposition ELSE Judged

\* what becomes of an actionable recommendation short of the queue itself
Dollars(r) == BreakerAmount(r.action, Sized(r))
Disposition(r) ==
    IF r.action = "HOLD" \/ IsOpen(r.action) THEN "not_applicable"
    ELSE IF \/ r.action = "SELL" /\ cand.ticker \in ctx.sold
            \/ Sized(r) = 0 \/ ~BreakerAllows(r.action) \/ StarterSlotsFull(r) THEN "proposal_blocked"
    ELSE "queue"
NotQueued == /\ review.pc = "queue" /\ Disposition(review.rec) # "queue"
             /\ Finish(Classified(Disposition(review.rec)))
             /\ UNCHANGED <<account, done, slips>>
QueueFails == /\ review.pc = "queue" /\ Disposition(review.rec) = "queue" /\ slips < MaxSlips
              /\ Finish(Classified("queue_error")) /\ slips' = slips + 1
              /\ UNCHANGED <<account, done>>
Queue ==
    /\ review.pc = "queue" /\ Disposition(review.rec) = "queue"
    /\ LET r == review.rec
           side == [ticker |-> cand.ticker, side |-> r.action]
       IN /\ open' = open \cup {side}
          /\ cash' = IF r.action = "BUY" THEN Above(cash, Dollars(r)) ELSE cash
          /\ queued' = queued \cup {[cand |-> cand, rec |-> r, dollars |-> Dollars(r),
                                     graded |-> review.graded, verdict |-> review.verdict]}
    /\ Finish(Classified("created"))
    /\ UNCHANGED <<ctx, done, slips>>

\* the run has reviewed what its budget allows
Ends == review.pc = "idle" /\ Cardinality(done) = MaxReviews /\ UNCHANGED reviewVars

ReviewNext == Take \/ DataGate \/ Consult \/ CallFails \/ AnswerRefused \/ PolicyRetry \/ PassGates
              \/ Evaluate \/ Revise \/ EvaluateAgain \/ NotQueued \/ QueueFails \/ Queue \/ Ends
ReviewSpec == ReviewInit /\ [][ReviewNext]_reviewVars

-------------------------------------------------------------------------------
(* The shape of the run's state; a review calls the models at most twelve  *)
(* times for an answer, its revision and the retries of each, and twice    *)
(* for a verdict.                                                          *)
Ruling == {"not_run", "approved", "rejected", "error"}
ReviewState ==
    [pc : {"idle", "gate", "ask", "answered", "evaluate", "evaluateAgain", "queue"},
     cand : Candidates, role : {"first", "policy", "revision"}, retries : 0 .. EvidenceRetry,
     answer : Reply, rec : Reply, wanted : Actions \cup {"none"}, overridden : BOOLEAN,
     duplicate : BOOLEAN, graded : Reply, verdict : Ruling,
     calls : 0 .. 3 * (EvidenceRetry + 1) + 2]
Proposal == [cand : Candidates, rec : Reply, dollars : Nat, graded : Reply, verdict : Ruling]
ReviewTypeOK ==
    /\ ctx \in Contexts /\ cash \in Nat /\ open \subseteq Listed
    /\ review \in ReviewState /\ queued \subseteq Proposal /\ slips \in 0 .. MaxSlips

(* What enters the approval queue is what the evaluator approved: the same *)
(* side and weight, through a revision as well, and never one it rejected, *)
(* could not read or did not see.                                          *)
QueuedIsApproved ==
    \A q \in queued : /\ q.verdict = "approved"
                      /\ q.rec.action = q.graded.action /\ q.rec.weight = q.graded.weight

(* The BUYs one agent queues in a run, whatever the order and the failed   *)
(* calls between them, never ask for more than the cash the run found and  *)
(* never touch the agent's reserve.                                        *)
Buys == {q \in queued : q.rec.action = "BUY"}
Committed == Total([q \in Buys |-> q.dollars], Buys)
BuysFitCash == Buys # {} => Committed + agent.reserve <= ctx.budget

(* No queued BUY is larger than the position limit, the weight its signals *)
(* earn and the single-red ceiling, or averages down, revised or not; and  *)
(* nothing is queued on a side the circuit breaker has closed.             *)
QueuedWithinLimits ==
    \A q \in queued :
        /\ BreakerAllows(q.rec.action)
        /\ q.rec.action = "BUY" =>
             /\ q.rec.weight <= agent.maxPos
             /\ ctx.red = 1 => q.rec.weight <= agent.redCap
             /\ agent.conviction => q.cand.strong > 0 /\ q.rec.weight <= (IF q.cand.strong = 1 THEN 5 ELSE 15)
             /\ agent.noAveragingDown => ~(q.cand.weight > 0 /\ q.cand.atLoss)

(* All of what a queued proposal must be.                                  *)
QueuedIsSound == QueuedIsApproved /\ BuysFitCash /\ QueuedWithinLimits

(* A run counts an investment HOLD only when the model's answer read as a  *)
(* HOLD: an unreadable answer, one held for want of whole shares, a gate,  *)
(* the evaluator or the queue is never filed as a judgement on the stock.  *)
(* (An answer whose citations fail reads as a HOLD to the code.)           *)
JudgementIsTheModels ==
    [][outcome' = "investment_hold" =>
         /\ review.answer.action = "HOLD" /\ ~review.answer.broken
         /\ ~review.answer.cashTalk]_reviewVars

(* Stated by the doc of reviewCandidateForAgent: no step may upgrade an    *)
(* action, and the dual-red, family and mandate-score gates bind every BUY *)
(* that reaches the queue.  A revision is not asked.                       *)
QueuedClearsEveryGate ==
    \A q \in queued :
        /\ q.rec.family
        /\ q.rec.action = "BUY" => ~(agent.dualRedBlocks /\ ctx.red = 2) /\ ~ctx.mandateGate
==============================================================================
