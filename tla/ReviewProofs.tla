----------------------------- MODULE ReviewProofs -----------------------------
(***************************************************************************)
(* A queued proposal is one the evaluator approved, within the limits of   *)
(* its agent and the cash of its run, and a HOLD counted as a judgement is *)
(* the model's, for any candidates, answers, retries, revisions and failed *)
(* calls (ReviewChain).  A mandate's verdicts stay within its tiers, and a *)
(* lost record or score opens nothing (MandatePolicy).                     *)
(***************************************************************************)
EXTENDS ReviewChain, MandatePolicy, TotalsProofs, TLAPS

-------------------------------------------------------------------------------
(* The gates: what each leaves of a recommendation                         *)

\* Candidates, contexts and answers have the shapes they are given in.
LEMMA CandShape ==
  ASSUME NEW c \in Candidates
  PROVE  /\ c.ticker \in STRING /\ c.gate \in {"ok", "stale", "missing"}
         /\ c.held \in Nat /\ c.weight \in Nat /\ c.owned \in Nat /\ c.atLoss \in BOOLEAN
         /\ c.sector \in Nat /\ c.strong \in Nat /\ c.catalyst \in BOOLEAN
         /\ c.floorsMet \in BOOLEAN
  BY BoundsAssumption

LEMMA ContextShape ==
  ASSUME ctx \in Contexts
  PROVE  /\ agent.maxPos \in Nat /\ agent.redCap \in Nat /\ agent.reserve \in 0 .. 100
         /\ ctx.budget \in Nat /\ ctx.open \subseteq Listed /\ ctx.red \in 0 .. 2
         /\ ~agent.dualRedBlocks => agent.redCap >= agent.maxPos
  <1>1. ctx.agent \in Limits /\ ctx.budget \in Nat /\ ctx.open \subseteq Listed
        /\ ctx.red \in 0 .. 2
    BY BoundsAssumption
  <1>2. ~ctx.agent.dualRedBlocks => ctx.agent.redCap >= ctx.agent.maxPos
    BY BoundsAssumption
  <1> QED BY <1>1, <1>2 DEF agent, Limits

LEMMA SmallerIs ==
  ASSUME NEW a \in Nat, NEW b \in Nat
  PROVE  Smaller(a, b) \in Nat /\ Smaller(a, b) <= a /\ Smaller(a, b) <= b
  BY DEF Smaller

LEMMA AboveIs ==
  ASSUME NEW a \in Nat, NEW b \in Nat
  PROVE  Above(a, b) \in Nat /\ Above(a, b) <= a
         /\ (Above(a, b) > 0 => Above(a, b) = a - b)
  BY DEF Above

LEMMA HeldIs ==
  ASSUME NEW r \in Reply
  PROVE  Held(r) \in Reply /\ Held(r).action = "HOLD"
  BY DEF Held, Reply, Actions

\* A recommendation that was cut keeps its action.
LEMMA CutIs ==
  ASSUME NEW r \in Reply, NEW w \in Nat
  PROVE  LET cut == [r EXCEPT !.weight = w]
         IN  cut \in Reply /\ cut.action = r.action /\ cut.weight = w
  BY DEF Reply

\* What the position limit, the floors and the rule on losing positions ask.
Placed(r) == r.action = "BUY" => r.weight <= agent.maxPos /\ ~AveragesDown(r)
\* What the candidate's signals earn.
Merited(r) ==
  r.action = "BUY" /\ agent.conviction =>
    cand.strong > 0 /\ r.weight <= (IF cand.strong = 1 THEN 5 ELSE 15)
UnderRed(r) == r.action = "BUY" /\ ctx.red = 1 => r.weight <= agent.redCap
Within(r) == Placed(r) /\ Merited(r) /\ UnderRed(r)

LEMMA HeldIsWithin ==
  ASSUME NEW r \in Reply, r.action = "HOLD"
  PROVE  Within(r)
  BY DEF Within, Placed, Merited, UnderRed

LEMMA RiskPlaces ==
  ASSUME ctx \in Contexts, cand \in Candidates, NEW r \in Reply
  PROVE  /\ Risk(r) \in Reply /\ Placed(Risk(r))
         /\ r.action = "HOLD" => Risk(r).action = "HOLD"
  <1>1. agent.maxPos \in Nat /\ r.weight \in Nat /\ r.action \in Actions
    BY ContextShape DEF Reply
  <1>2. Clamped(r) \in Nat /\ Clamped(r) <= agent.maxPos
    BY <1>1, SmallerIs DEF Clamped
  <1>3. Held(r) \in Reply /\ Held(r).action = "HOLD"
    BY HeldIs
  <1>4. CASE r.action = "HOLD" \/ r.flaw
    <2>1. Risk(r) = Held(r)
      BY <1>4 DEF Risk
    <2> QED BY <2>1, <1>3 DEF Placed
  <1>5. CASE ~(r.action = "HOLD" \/ r.flaw) /\ r.action = "SELL"
    <2>1. Risk(r) = [r EXCEPT !.weight = 0]
      BY <1>5 DEF Risk
    <2>2. Risk(r) \in Reply /\ Risk(r).action = "SELL"
      BY <2>1, <1>5, CutIs
    <2> QED BY <2>2, <1>5 DEF Placed
  <1>6. CASE ~(r.action = "HOLD" \/ r.flaw) /\ r.action # "SELL"
    <2>1. CASE AveragesDown(r) \/ BelowFloors(r) \/ OverSector(r)
      <3>1. Risk(r) = Held(r)
        BY <1>6, <2>1 DEF Risk
      <3> QED BY <3>1, <1>3, <1>6 DEF Placed
    <2>2. CASE ~(AveragesDown(r) \/ BelowFloors(r) \/ OverSector(r))
      <3>1. Risk(r) = [r EXCEPT !.weight = Clamped(r)]
        BY <1>6, <2>2 DEF Risk
      <3>2. Risk(r) \in Reply /\ Risk(r).action = r.action /\ Risk(r).weight = Clamped(r)
        BY <3>1, <1>2, CutIs
      <3>3. ~AveragesDown(Risk(r))
        BY <2>2 DEF AveragesDown
      <3> QED BY <3>2, <3>3, <1>2, <1>6 DEF Placed
    <2> QED BY <2>1, <2>2
  <1> QED BY <1>4, <1>5, <1>6

LEMMA ConvictionEarns ==
  ASSUME ctx \in Contexts, cand \in Candidates, NEW r \in Reply, Placed(r)
  PROVE  /\ Conviction(r) \in Reply /\ Placed(Conviction(r)) /\ Merited(Conviction(r))
         /\ r.action = "HOLD" => Conviction(r).action = "HOLD"
  <1>1. r.weight \in Nat /\ agent.maxPos \in Nat /\ cand.strong \in Nat
        /\ cand.catalyst \in BOOLEAN
    BY ContextShape, CandShape DEF Reply
  <1>2. /\ ConvictionCap \in Nat
        /\ ConvictionCap # 0 => cand.strong > 0 /\ ConvictionCap <= (IF cand.strong = 1 THEN 5 ELSE 15)
    BY <1>1 DEF ConvictionCap
  <1>3. CASE ~agent.conviction \/ r.action # "BUY"
    <2>1. Conviction(r) = r
      BY <1>3 DEF Conviction
    <2> QED BY <2>1, <1>3 DEF Merited
  <1>4. CASE ~(~agent.conviction \/ r.action # "BUY") /\ ConvictionCap = 0
    <2>1. Conviction(r) = Held(r)
      BY <1>4 DEF Conviction
    <2> QED BY <2>1, HeldIs DEF Placed, Merited
  <1>5. CASE ~(~agent.conviction \/ r.action # "BUY") /\ ConvictionCap # 0
    <2> DEFINE w == Smaller(r.weight, ConvictionCap)
    <2>1. Conviction(r) = [r EXCEPT !.weight = w]
      BY <1>5 DEF Conviction
    <2>2. w \in Nat /\ w <= r.weight /\ w <= ConvictionCap
      BY <1>1, <1>2, SmallerIs
    <2>3. Conviction(r) \in Reply /\ Conviction(r).action = r.action /\ Conviction(r).weight = w
      BY <2>1, <2>2, CutIs
    <2> HIDE DEF w
    <2>4. w <= (IF cand.strong = 1 THEN 5 ELSE 15) /\ cand.strong > 0
      BY <1>1, <1>2, <1>5, <2>2
    <2>5. w <= agent.maxPos /\ ~AveragesDown(Conviction(r))
      BY <1>1, <1>5, <2>2 DEF Placed, AveragesDown
    <2> QED BY <2>3, <2>4, <2>5, <1>5 DEF Placed, Merited
  <1> QED BY <1>3, <1>4, <1>5

\* The cut of one red flag only lowers a weight.
LEMMA OneRedCaps ==
  ASSUME ctx \in Contexts, cand \in Candidates, NEW r \in Reply, Placed(r), Merited(r)
  PROVE  /\ OneRed(r) \in Reply /\ Within(OneRed(r))
         /\ r.action = "HOLD" => OneRed(r).action = "HOLD"
  <1>1. r.weight \in Nat /\ agent.maxPos \in Nat /\ agent.redCap \in Nat /\ cand.strong \in Nat
    BY ContextShape, CandShape DEF Reply
  <1>2. CASE r.action = "BUY" /\ ctx.red = 1
    <2> DEFINE w == Smaller(r.weight, agent.redCap)
    <2>1. OneRed(r) = [r EXCEPT !.weight = w]
      BY <1>2 DEF OneRed
    <2>2. w \in Nat /\ w <= r.weight /\ w <= agent.redCap
      BY <1>1, SmallerIs
    <2>3. OneRed(r) \in Reply /\ OneRed(r).action = r.action /\ OneRed(r).weight = w
      BY <2>1, <2>2, CutIs
    <2> HIDE DEF w
    <2>4. w <= agent.maxPos /\ ~AveragesDown(OneRed(r))
      BY <1>1, <1>2, <2>2 DEF Placed, AveragesDown
    <2>5. agent.conviction => cand.strong > 0 /\ w <= (IF cand.strong = 1 THEN 5 ELSE 15)
      BY <1>1, <1>2, <2>2 DEF Merited
    <2> QED BY <2>2, <2>3, <2>4, <2>5, <1>2 DEF Within, Placed, Merited, UnderRed
  <1>3. CASE ~(r.action = "BUY" /\ ctx.red = 1)
    <2>1. OneRed(r) = r
      BY <1>3 DEF OneRed
    <2> QED BY <2>1, <1>3 DEF Within, UnderRed
  <1> QED BY <1>2, <1>3

\* A revised answer meets the limits.
LEMMA RevisedIsWithin ==
  ASSUME ctx \in Contexts, cand \in Candidates, NEW r \in Reply
  PROVE  Revised(r) \in Reply /\ Within(Revised(r))
  <1>1. Risk(r) \in Reply /\ Placed(Risk(r))
    BY RiskPlaces
  <1>2. /\ Conviction(Risk(r)) \in Reply /\ Placed(Conviction(Risk(r)))
        /\ Merited(Conviction(Risk(r)))
    BY <1>1, ConvictionEarns
  <1> QED BY <1>2, OneRedCaps DEF Revised

LEMMA MacroCaps ==
  ASSUME ctx \in Contexts, cand \in Candidates, NEW r \in Reply, Placed(r), Merited(r)
  PROVE  /\ Macro(r) \in Reply /\ Within(Macro(r))
         /\ r.action = "HOLD" => Macro(r).action = "HOLD"
  <1>1. CASE ~agent.dualRedBlocks
    <2>1. Macro(r) = r
      BY <1>1 DEF Macro
    <2>2. UnderRed(r)
      BY <1>1, ContextShape DEF UnderRed, Placed, Reply
    <2> QED BY <2>1, <2>2 DEF Within
  <1>2. CASE agent.dualRedBlocks /\ r.action = "BUY" /\ ctx.red = 2
    <2>1. Macro(r) = Held(r)
      BY <1>2 DEF Macro
    <2> QED BY <2>1, HeldIs, HeldIsWithin
  <1>3. CASE agent.dualRedBlocks /\ ~(r.action = "BUY" /\ ctx.red = 2)
    <2>1. Macro(r) = OneRed(r)
      BY <1>3 DEF Macro
    <2> QED BY <2>1, OneRedCaps
  <1>4. agent.dualRedBlocks \/ ~agent.dualRedBlocks
    OBVIOUS
  <1> QED BY <1>1, <1>2, <1>3, <1>4

\* What passes every gate meets the limits, and no gate makes an action of a HOLD.
LEMMA RestrictedIsWithin ==
  ASSUME ctx \in Contexts, cand \in Candidates, NEW r \in Reply
  PROVE  /\ Restricted(r) \in Reply /\ Within(Restricted(r))
         /\ r.action = "HOLD" => Restricted(r).action = "HOLD"
  <1> DEFINE b == Business(r)
             k == Risk(b)
             c == Conviction(k)
             m == Macro(c)
             g == MandateGate(m)
  <1>1. b \in Reply /\ (r.action = "HOLD" => b.action = "HOLD")
    BY HeldIs DEF Business
  <1> HIDE DEF b
  <1>2. k \in Reply /\ Placed(k) /\ (b.action = "HOLD" => k.action = "HOLD")
    BY <1>1, RiskPlaces
  <1> HIDE DEF k
  <1>3. c \in Reply /\ Placed(c) /\ Merited(c) /\ (k.action = "HOLD" => c.action = "HOLD")
    BY <1>2, ConvictionEarns
  <1> HIDE DEF c
  <1>4. m \in Reply /\ Within(m) /\ (c.action = "HOLD" => m.action = "HOLD")
    BY <1>3, MacroCaps
  <1> HIDE DEF m
  <1>5. g \in Reply /\ Within(g) /\ (m.action = "HOLD" => g.action = "HOLD")
    <2>1. g = Held(m) \/ g = m
      BY DEF MandateGate
    <2>2. Held(m) \in Reply /\ Held(m).action = "HOLD" /\ Within(Held(m))
      BY <1>4, HeldIs, HeldIsWithin
    <2> QED BY <2>1, <2>2, <1>4
  <1> HIDE DEF g
  <1>6. Restricted(r) = Breaker(g)
    BY DEF Restricted, b, k, c, m, g
  <1>7. Restricted(r) = Held(g) \/ Restricted(r) = g
    BY <1>6 DEF Breaker
  <1>8. Held(g) \in Reply /\ Held(g).action = "HOLD" /\ Within(Held(g))
    BY <1>5, HeldIs, HeldIsWithin
  <1> QED BY <1>1, <1>2, <1>3, <1>4, <1>5, <1>7, <1>8

-------------------------------------------------------------------------------
(* The review in progress                                                  *)

\* The calls a review has made, by how far it has come.
CallsBounded ==
  LET most == CASE review.pc \in {"idle", "gate"} -> 0
                [] review.pc = "ask" /\ review.role = "first" -> review.retries
                [] review.pc = "ask" /\ review.role = "policy" -> 4 + review.retries
                [] review.pc = "ask" /\ review.role = "revision" -> 9 + review.retries
                [] review.pc = "answered" /\ review.role = "first" -> 4
                [] review.pc = "answered" /\ review.role = "policy" -> 8
                [] review.pc = "answered" /\ review.role = "revision" -> 13
                [] review.pc = "evaluate" -> 8
                [] review.pc = "evaluateAgain" -> 13
                [] review.pc = "queue" -> 14
  IN  review.calls <= most
\* A recommendation on its way, and a revision before its verdict, are within the limits.
Weighed ==
  /\ Within(review.rec)
  /\ review.pc = "evaluateAgain" => Within(review.answer)
\* What reaches the queue is what was approved, unless its proposal is open already.
Approved ==
  review.pc = "queue" /\ review.rec.action # "HOLD" /\ ~IsOpen(review.rec.action) =>
    /\ review.verdict = "approved"
    /\ review.graded.action = review.rec.action /\ review.graded.weight = review.rec.weight
ReadsAsHold(a) == a.action = "HOLD" /\ ~a.broken /\ ~a.cashTalk
\* A wanted HOLD goes straight to its classification.
HoldsAreRead ==
  /\ review.pc = "queue" /\ review.wanted = "HOLD" => ReadsAsHold(review.answer)
  /\ review.role = "revision" \/ review.pc \in {"evaluate", "evaluateAgain"} => review.wanted # "HOLD"
\* An outcome stands between two reviews.
Between == outcome # "none" => review = Idle
InReview ==
  review \in ReviewState /\ CallsBounded /\ Weighed /\ Approved /\ HoldsAreRead /\ Between

LEMMA NoAnswerIs == NoAnswer \in Reply /\ NoAnswer.action = "HOLD" /\ ReadsAsHold(NoAnswer)
  BY DEF NoAnswer, Reply, Actions, ReadsAsHold

LEMMA IdleIs ==
  /\ Idle \in ReviewState /\ Idle.pc = "idle" /\ Idle.calls = 0 /\ Idle.role = "first"
  /\ Idle.rec = NoAnswer /\ Idle.answer = NoAnswer
  <1>1. (CHOOSE c \in Candidates : TRUE) \in Candidates
    BY BoundsAssumption
  <1> QED BY <1>1, NoAnswerIs DEF Idle, ReviewState, Ruling, EvidenceRetry

LEMMA WeighedNext ==
  ASSUME UNCHANGED ctx, review'.cand = review.cand,
         Within(review'.rec), review'.pc = "evaluateAgain" => Within(review'.answer)
  PROVE  Weighed'
  BY DEF Weighed, Within, Placed, Merited, UnderRed, AveragesDown, agent, cand

\* A review that ends, and one that has not begun, claim nothing.
LEMMA AtRest ==
  ASSUME review' = Idle
  PROVE  InReview'
  <1>1. review' \in ReviewState /\ review'.pc = "idle" /\ review'.calls = 0 /\ review'.role = "first"
        /\ review'.rec.action = "HOLD"
    BY IdleIs, NoAnswerIs
  <1>2. CallsBounded'
    BY <1>1 DEF CallsBounded
  <1>3. Weighed'
    BY <1>1 DEF Weighed, Within, Placed, Merited, UnderRed
  <1>4. Approved' /\ HoldsAreRead'
    BY <1>1 DEF Approved, HoldsAreRead
  <1>5. Between'
    BY DEF Between, Idle
  <1> QED BY <1>1, <1>2, <1>3, <1>4, <1>5 DEF InReview

LEMMA TakeStarts ==
  ASSUME Take PROVE InReview'
  <1>1. PICK c \in Candidates : review' = [Idle EXCEPT !.pc = "gate", !.cand = c]
    BY DEF Take
  <1>2. /\ review' \in ReviewState /\ review'.pc = "gate" /\ review'.calls = 0
        /\ review'.role = "first" /\ review'.rec = NoAnswer
    BY <1>1, IdleIs DEF ReviewState
  <1>3. CallsBounded'
    BY <1>2 DEF CallsBounded
  <1>4. Weighed'
    BY <1>2, NoAnswerIs DEF Weighed, Within, Placed, Merited, UnderRed
  <1>5. Approved' /\ HoldsAreRead'
    BY <1>2 DEF Approved, HoldsAreRead
  <1>6. Between'
    BY DEF Take, Between
  <1> QED BY <1>2, <1>3, <1>4, <1>5, <1>6 DEF InReview

\* A step of a review in progress leaves no outcome.
LEMMA GoesOn ==
  ASSUME InReview, review.pc # "idle", NEW r, Goes(r)
  PROVE  review' = r /\ outcome' = "none" /\ Between'
  BY IdleIs DEF InReview, Between, Goes

LEMMA DataGateKeeps ==
  ASSUME InReview, DataGate PROVE InReview'
  <1>1. CASE cand.gate # "ok"
    BY <1>1, AtRest DEF DataGate, Finish
  <1>2. CASE cand.gate = "ok"
    <2> DEFINE new == [review EXCEPT !.pc = "ask"]
    <2>1. review.pc = "gate" /\ Goes(new) /\ UNCHANGED ctx
      BY <1>2 DEF DataGate, account
    <2>2. review' = new /\ Between'
      BY <2>1, GoesOn
    <2>3. /\ new \in ReviewState /\ new.pc = "ask" /\ new.calls = review.calls
          /\ new.rec = review.rec /\ new.cand = review.cand /\ new.role = review.role
          /\ new.wanted = review.wanted /\ new.retries = review.retries
      BY DEF InReview, ReviewState
    <2> HIDE DEF new
    <2>4. CallsBounded'
      BY <2>1, <2>2, <2>3 DEF InReview, CallsBounded, ReviewState, EvidenceRetry
    <2>5. Weighed'
      BY <2>1, <2>2, <2>3, WeighedNext DEF InReview, Weighed
    <2>6. Approved' /\ HoldsAreRead'
      BY <2>2, <2>3 DEF InReview, Approved, HoldsAreRead
    <2> QED BY <2>2, <2>3, <2>4, <2>5, <2>6 DEF InReview
  <1> QED BY <1>1, <1>2

LEMMA ParsedIs ==
  ASSUME NEW a \in Replies
  PROVE  a \in Reply /\ Parsed(a) \in Reply
  BY BoundsAssumption, HeldIs DEF Parsed

LEMMA ConsultKeeps ==
  ASSUME InReview, Consult PROVE InReview'
  <1> DEFINE asked == [review EXCEPT !.calls = @ + 1]
             format == [asked EXCEPT !.retries = @ + 1]
             askedAgain == [asked EXCEPT !.retries = EvidenceRetry]
             answered(a) == [asked EXCEPT !.pc = "answered", !.answer = Parsed(a)]
  <1>1. review.pc = "ask" /\ UNCHANGED ctx /\ review \in ReviewState
    BY DEF Consult, account, InReview
  <1>2. PICK a \in Replies :
           \/ review.retries < 2 /\ Goes(format)
           \/ review.retries # EvidenceRetry /\ Goes(askedAgain)
           \/ Goes(answered(a))
    BY DEF Consult
  <1>3. Parsed(a) \in Reply
    BY ParsedIs
  <1>4. /\ review.calls + 1 \in 0 .. 14 /\ review.retries \in 0 .. 3
        /\ review.calls \in Nat
        /\ review.role = "first" => review.calls <= review.retries
        /\ review.role = "policy" => review.calls <= 4 + review.retries
        /\ review.role = "revision" => review.calls <= 9 + review.retries
        /\ review.role \in {"first", "policy", "revision"}
    BY <1>1 DEF InReview, CallsBounded, ReviewState, EvidenceRetry
  <1>a. /\ asked \in ReviewState /\ asked.pc = "ask" /\ asked.calls = review.calls + 1
        /\ asked.rec = review.rec /\ asked.cand = review.cand /\ asked.role = review.role
        /\ asked.wanted = review.wanted /\ asked.retries = review.retries
    BY <1>1, <1>4 DEF ReviewState, EvidenceRetry
  <1> HIDE DEF asked
  <1>5. CASE review.retries < 2 /\ Goes(format)
    <2>1. review' = format /\ Between'
      BY <1>1, <1>5, GoesOn
    <2>2. /\ format \in ReviewState /\ format.pc = "ask" /\ format.calls = review.calls + 1
          /\ format.rec = review.rec /\ format.cand = review.cand /\ format.role = review.role
          /\ format.wanted = review.wanted /\ format.retries = review.retries + 1
      BY <1>a, <1>4, <1>5 DEF ReviewState, EvidenceRetry
    <2> HIDE DEF format
    <2>3. CallsBounded'
      BY <1>4, <2>1, <2>2 DEF CallsBounded
    <2>4. Weighed'
      BY <1>1, <2>1, <2>2, WeighedNext DEF InReview, Weighed
    <2>5. Approved' /\ HoldsAreRead'
      BY <2>1, <2>2 DEF InReview, Approved, HoldsAreRead
    <2> QED BY <2>1, <2>2, <2>3, <2>4, <2>5 DEF InReview
  <1>6. CASE review.retries # EvidenceRetry /\ Goes(askedAgain)
    <2>1. review' = askedAgain /\ Between'
      BY <1>1, <1>6, GoesOn
    <2>2. /\ askedAgain \in ReviewState /\ askedAgain.pc = "ask" /\ askedAgain.calls = review.calls + 1
          /\ askedAgain.rec = review.rec /\ askedAgain.cand = review.cand /\ askedAgain.role = review.role
          /\ askedAgain.wanted = review.wanted /\ askedAgain.retries = 3
      BY <1>a, <1>4, <1>6 DEF ReviewState, EvidenceRetry
    <2>3. review.retries <= 2
      BY <1>4, <1>6 DEF EvidenceRetry
    <2> HIDE DEF askedAgain
    <2>4. CallsBounded'
      BY <1>4, <2>1, <2>2, <2>3 DEF CallsBounded
    <2>5. Weighed'
      BY <1>1, <2>1, <2>2, WeighedNext DEF InReview, Weighed
    <2>6. Approved' /\ HoldsAreRead'
      BY <2>1, <2>2 DEF InReview, Approved, HoldsAreRead
    <2> QED BY <2>1, <2>2, <2>4, <2>5, <2>6 DEF InReview
  <1>7. CASE Goes(answered(a))
    <2> DEFINE new == answered(a)
    <2>1. review' = new /\ Between'
      BY <1>1, <1>7, GoesOn
    <2>2. /\ new \in ReviewState /\ new.pc = "answered" /\ new.calls = review.calls + 1
          /\ new.rec = review.rec /\ new.cand = review.cand /\ new.role = review.role
          /\ new.wanted = review.wanted
      BY <1>a, <1>3 DEF ReviewState
    <2> HIDE DEF new
    <2>3. CallsBounded'
      BY <1>4, <2>1, <2>2 DEF CallsBounded
    <2>4. Weighed'
      BY <1>1, <2>1, <2>2, WeighedNext DEF InReview, Weighed
    <2>5. Approved' /\ HoldsAreRead'
      BY <2>1, <2>2 DEF InReview, Approved, HoldsAreRead
    <2> QED BY <2>1, <2>2, <2>3, <2>4, <2>5 DEF InReview
  <1> QED BY <1>2, <1>5, <1>6, <1>7

\* Whatever ends a review leaves no claim behind.
LEMMA Ended ==
  ASSUME NEW kind, Finish(kind) PROVE InReview'
  BY AtRest DEF Finish

LEMMA PolicyRetryKeeps ==
  ASSUME InReview, PolicyRetry PROVE InReview'
  <1> DEFINE new == [review EXCEPT !.pc = "ask", !.role = "policy", !.retries = 0]
  <1>1. /\ review.pc = "answered" /\ review.role = "first" /\ Goes(new) /\ UNCHANGED ctx
        /\ review \in ReviewState
    BY DEF PolicyRetry, account, InReview
  <1>2. review' = new /\ Between'
    BY <1>1, GoesOn
  <1>a. 0 \in 0 .. EvidenceRetry
    BY DEF EvidenceRetry
  <1>b. new \in ReviewState
    BY <1>1, <1>a DEF ReviewState
  <1>3. /\ new \in ReviewState /\ new.pc = "ask" /\ new.calls = review.calls
        /\ new.rec = review.rec /\ new.cand = review.cand /\ new.role = "policy"
        /\ new.retries = 0
    BY <1>1, <1>b DEF ReviewState
  <1>4. review.calls <= 4
    BY <1>1 DEF InReview, CallsBounded
  <1> HIDE DEF new
  <1>5. CallsBounded'
    BY <1>1, <1>2, <1>3, <1>4 DEF CallsBounded
  <1>6. Weighed'
    BY <1>1, <1>2, <1>3, WeighedNext DEF InReview, Weighed
  <1>7. Approved' /\ HoldsAreRead'
    BY <1>2, <1>3 DEF Approved, HoldsAreRead
  <1> QED BY <1>2, <1>3, <1>5, <1>6, <1>7 DEF InReview

\* A review whose recommendation is replaced stays a review.
Rewritten(v, r, wanted, over, dup, next) ==
  [v EXCEPT !.rec = r, !.wanted = wanted, !.overridden = over, !.duplicate = dup, !.pc = next]
LEMMA RewrittenIsReview ==
  ASSUME NEW v \in ReviewState, NEW r \in Reply, NEW wanted \in Actions, NEW over \in BOOLEAN,
         NEW dup \in BOOLEAN, NEW next \in {"queue", "evaluate"}
  PROVE  LET u == Rewritten(v, r, wanted, over, dup, next)
         IN  /\ u \in ReviewState /\ u.pc = next /\ u.calls = v.calls
             /\ u.rec = r /\ u.cand = v.cand /\ u.role = v.role
             /\ u.wanted = wanted /\ u.answer = v.answer
  <1> DEFINE u == Rewritten(v, r, wanted, over, dup, next)
  <1>0. u = [v EXCEPT !.rec = r, !.wanted = wanted, !.overridden = over, !.duplicate = dup, !.pc = next]
    BY DEF Rewritten
  <1> HIDE DEF u
  <1>1. v = [pc |-> v.pc, cand |-> v.cand, role |-> v.role, retries |-> v.retries, answer |-> v.answer,
             rec |-> v.rec, wanted |-> v.wanted, overridden |-> v.overridden, duplicate |-> v.duplicate,
             graded |-> v.graded, verdict |-> v.verdict, calls |-> v.calls]
    BY DEF ReviewState
  <1>2. u = [pc |-> next, cand |-> v.cand, role |-> v.role, retries |-> v.retries, answer |-> v.answer,
             rec |-> r, wanted |-> wanted, overridden |-> over, duplicate |-> dup,
             graded |-> v.graded, verdict |-> v.verdict, calls |-> v.calls]
    BY <1>0, <1>1
  <1>3. /\ v.cand \in Candidates /\ v.role \in {"first", "policy", "revision"} /\ v.retries \in 0 .. EvidenceRetry
        /\ v.answer \in Reply /\ v.graded \in Reply /\ v.verdict \in Ruling
        /\ v.calls \in 0 .. 3 * (EvidenceRetry + 1) + 2
    BY DEF ReviewState
  <1>4. u \in ReviewState
    BY <1>2, <1>3 DEF ReviewState
  <1>5. /\ u.pc = next /\ u.calls = v.calls /\ u.rec = r /\ u.cand = v.cand /\ u.role = v.role
        /\ u.wanted = wanted /\ u.answer = v.answer
    BY <1>2
  <1> QED
    BY <1>4, <1>5 DEF u

LEMMA PassGatesKeeps ==
  ASSUME ctx \in Contexts, InReview, PassGates PROVE InReview'
  <1> DEFINE a == review.answer
  <1>1. /\ review.pc = "answered" /\ review.role \in {"first", "policy"} /\ review \in ReviewState
        /\ ~a.broken /\ ~(a.action = "HOLD" /\ a.cashTalk) /\ UNCHANGED <<ctx, open>>
        /\ a \in Reply /\ cand \in Candidates
    BY DEF PassGates, account, InReview, ReviewState, cand
  <1>2. PICK r \in Reply : r = Restricted(a)
    BY <1>1, RestrictedIsWithin
  <1>3. Within(r) /\ (a.action = "HOLD" => r.action = "HOLD")
    BY <1>1, <1>2, RestrictedIsWithin
  <1> DEFINE skip == r.action = "HOLD" \/ IsOpen(r.action)
             new == [review EXCEPT !.rec = r, !.wanted = a.action,
                       !.overridden = a.action # "HOLD" /\ r.action = "HOLD",
                       !.duplicate = r.action # "HOLD" /\ IsOpen(r.action),
                       !.pc = IF skip THEN "queue" ELSE "evaluate"]
  <1>4. Goes(new)
    BY <1>2 DEF PassGates
  <1>5. review' = new /\ Between'
    BY <1>1, <1>4, GoesOn
  <1>6. PICK over \in BOOLEAN, dup \in BOOLEAN, next \in {"queue", "evaluate"} :
          /\ new = [review EXCEPT !.rec = r, !.wanted = a.action, !.overridden = over,
                                   !.duplicate = dup, !.pc = next]
          /\ next = "queue" <=> skip
    <2> WITNESS (a.action # "HOLD" /\ r.action = "HOLD") \in BOOLEAN
    <2> WITNESS (r.action # "HOLD" /\ IsOpen(r.action)) \in BOOLEAN
    <2> WITNESS (IF skip THEN "queue" ELSE "evaluate") \in {"queue", "evaluate"}
    <2> QED OBVIOUS
  <1> HIDE DEF new
  <1>7. /\ new \in ReviewState /\ new.pc = next /\ new.calls = review.calls
        /\ new.rec = r /\ new.cand = review.cand /\ new.role = review.role
        /\ new.wanted = a.action /\ new.answer = a
    <2>1. a.action \in Actions
      BY <1>1 DEF Reply
    <2> HIDE DEF a, skip
    <2>2. review \in ReviewState
      BY <1>1
    <2>3. /\ new \in ReviewState /\ new.pc = next /\ new.calls = review.calls
          /\ new.rec = r /\ new.cand = review.cand /\ new.role = review.role
          /\ new.wanted = a.action /\ new.answer = review.answer
      <3>1. new = Rewritten(review, r, a.action, over, dup, next)
        BY <1>6 DEF Rewritten
      <3>2. r \in Reply
        BY <1>2
      <3> QED
        BY <2>1, <2>2, <3>1, <3>2, RewrittenIsReview
    <2> QED
      BY <2>3 DEF a
  <1>8. review.calls <= 8 /\ review.calls \in Nat
    BY <1>1 DEF InReview, CallsBounded, ReviewState, EvidenceRetry
  <1>9. CallsBounded'
    BY <1>5, <1>6, <1>7, <1>8 DEF CallsBounded
  <1>10. Weighed'
    BY <1>1, <1>3, <1>5, <1>6, <1>7, WeighedNext
  <1>11. Approved'
    BY <1>1, <1>5, <1>6, <1>7 DEF Approved, IsOpen, cand
  <1>12. HoldsAreRead'
    BY <1>1, <1>3, <1>5, <1>6, <1>7 DEF HoldsAreRead, ReadsAsHold, Reply
  <1> QED BY <1>5, <1>7, <1>9, <1>10, <1>11, <1>12 DEF InReview

\* A review whose action could not be evaluated is held.
LEMMA FailClosedKeeps ==
  ASSUME InReview, review.pc \in {"ask", "evaluate", "evaluateAgain"},
         review.pc = "ask" => review.role = "revision", FailClosed, UNCHANGED ctx
  PROVE  InReview'
  <1> DEFINE new == [review EXCEPT !.pc = "queue", !.rec = Held(@), !.verdict = "error"]
  <1>1. review \in ReviewState /\ review.rec \in Reply /\ review.wanted # "HOLD"
    BY DEF InReview, ReviewState, HoldsAreRead
  <1>2. PICK h \in Reply : h = Held(review.rec) /\ h.action = "HOLD"
    BY <1>1, HeldIs
  <1>3. review' = new /\ Between'
    BY GoesOn DEF FailClosed
  <1>4. new = [review EXCEPT !.pc = "queue", !.rec = h, !.verdict = "error"]
    BY <1>1, <1>2
  <1> HIDE DEF new
  <1>5. /\ new \in ReviewState /\ new.pc = "queue" /\ new.calls = review.calls
        /\ new.rec = h /\ new.cand = review.cand /\ new.role = review.role
        /\ new.wanted = review.wanted
    BY <1>1, <1>4 DEF ReviewState, Ruling
  <1>6. CallsBounded'
    BY <1>1, <1>3, <1>5 DEF CallsBounded, ReviewState, EvidenceRetry
  <1>7. Within(h)
    BY <1>2, HeldIsWithin
  <1>8. Weighed'
    BY <1>3, <1>5, <1>7, WeighedNext
  <1>9. Approved' /\ HoldsAreRead'
    BY <1>1, <1>2, <1>3, <1>5 DEF Approved, HoldsAreRead
  <1> QED BY <1>3, <1>5, <1>6, <1>8, <1>9 DEF InReview

LEMMA CallFailsKeeps ==
  ASSUME InReview, CallFails PROVE InReview'
  <1>1. review.pc \in {"ask", "evaluate", "evaluateAgain"} /\ UNCHANGED ctx
    BY DEF CallFails, account
  <1>2. \/ Finish("budget_exhausted") \/ Finish("review_error")
        \/ (review.pc # "ask" \/ review.role = "revision") /\ FailClosed
    BY DEF CallFails
  <1> QED BY <1>1, <1>2, Ended, FailClosedKeeps

LEMMA EvaluateKeeps ==
  ASSUME InReview, Evaluate PROVE InReview'
  <1> DEFINE asked == [review EXCEPT !.calls = @ + 1, !.graded = review.rec]
             revision == [asked EXCEPT !.pc = "ask", !.role = "revision", !.retries = 0]
             approval == [asked EXCEPT !.pc = "queue", !.verdict = "approved"]
             rejection == [asked EXCEPT !.pc = "queue", !.verdict = "rejected", !.rec = Held(@)]
  <1>1. /\ review.pc = "evaluate" /\ review \in ReviewState /\ UNCHANGED ctx
        /\ review.rec \in Reply /\ review.wanted # "HOLD" /\ Within(review.rec)
        /\ review.calls <= 8 /\ review.calls \in Nat
    BY DEF Evaluate, account, InReview, ReviewState, CallsBounded, HoldsAreRead, Weighed
  <1>2. Goes(revision) \/ Goes(approval) \/ Goes(rejection)
    BY DEF Evaluate, Verdicts
  <1>3. /\ asked \in ReviewState /\ asked.calls = review.calls + 1 /\ asked.graded = review.rec
        /\ asked.rec = review.rec /\ asked.cand = review.cand /\ asked.role = review.role
        /\ asked.wanted = review.wanted
    <2>1. PICK n \in 0 .. 14 : n = review.calls + 1
      BY <1>1
    <2>2. PICK g \in Reply : g = review.rec
      BY <1>1
    <2>3. asked = [review EXCEPT !.calls = n, !.graded = g]
      BY <2>1, <2>2
    <2> HIDE DEF asked
    <2>4. 0 .. 3 * (EvidenceRetry + 1) + 2 = 0 .. 14
      BY DEF EvidenceRetry
    <2> QED BY <1>1, <2>1, <2>2, <2>3, <2>4 DEF ReviewState
  <1> HIDE DEF asked
  <1>4. CASE Goes(revision)
    <2>1. review' = revision /\ Between'
      BY <1>1, <1>4, GoesOn
    <2>2. 0 \in 0 .. EvidenceRetry
      BY DEF EvidenceRetry
    <2>3. /\ revision \in ReviewState /\ revision.pc = "ask" /\ revision.calls = review.calls + 1
          /\ revision.rec = review.rec /\ revision.cand = review.cand
          /\ revision.role = "revision" /\ revision.retries = 0 /\ revision.wanted = review.wanted
      BY <1>3, <2>2 DEF ReviewState
    <2> HIDE DEF revision
    <2>4. CallsBounded'
      BY <1>1, <2>1, <2>3 DEF CallsBounded
    <2>5. Weighed'
      BY <1>1, <2>1, <2>3, WeighedNext
    <2>6. Approved' /\ HoldsAreRead'
      BY <1>1, <2>1, <2>3 DEF Approved, HoldsAreRead
    <2> QED BY <2>1, <2>3, <2>4, <2>5, <2>6 DEF InReview
  <1>5. CASE Goes(approval)
    <2>1. review' = approval /\ Between'
      BY <1>1, <1>5, GoesOn
    <2>2. /\ approval \in ReviewState /\ approval.pc = "queue" /\ approval.calls = review.calls + 1
          /\ approval.rec = review.rec /\ approval.cand = review.cand
          /\ approval.graded = review.rec /\ approval.verdict = "approved"
          /\ approval.wanted = review.wanted
      BY <1>3 DEF ReviewState, Ruling
    <2> HIDE DEF approval
    <2>3. CallsBounded'
      BY <1>1, <2>1, <2>2 DEF CallsBounded
    <2>4. Weighed'
      BY <1>1, <2>1, <2>2, WeighedNext
    <2>5. Approved' /\ HoldsAreRead'
      BY <1>1, <2>1, <2>2 DEF Approved, HoldsAreRead
    <2> QED BY <2>1, <2>2, <2>3, <2>4, <2>5 DEF InReview
  <1>6. CASE Goes(rejection)
    <2>1. review' = rejection /\ Between'
      BY <1>1, <1>6, GoesOn
    <2>2. PICK h \in Reply : h = Held(review.rec) /\ h.action = "HOLD"
      BY <1>1, HeldIs
    <2>3. rejection = [asked EXCEPT !.pc = "queue", !.verdict = "rejected", !.rec = h]
      BY <1>3, <2>2
    <2> HIDE DEF rejection
    <2>4. /\ rejection \in ReviewState /\ rejection.pc = "queue"
          /\ rejection.calls = review.calls + 1 /\ rejection.rec = h
          /\ rejection.cand = review.cand /\ rejection.wanted = review.wanted
      BY <1>3, <2>3 DEF ReviewState, Ruling
    <2>5. CallsBounded'
      BY <1>1, <2>1, <2>4 DEF CallsBounded
    <2>6. Within(h)
      BY <2>2, HeldIsWithin
    <2>7. Weighed'
      BY <1>1, <2>1, <2>4, <2>6, WeighedNext
    <2>8. Approved' /\ HoldsAreRead'
      BY <1>1, <2>1, <2>2, <2>4 DEF Approved, HoldsAreRead
    <2> QED BY <2>1, <2>4, <2>5, <2>7, <2>8 DEF InReview
  <1> QED BY <1>2, <1>4, <1>5, <1>6

LEMMA ReviseKeeps ==
  ASSUME ctx \in Contexts, InReview, Revise PROVE InReview'
  <1>1. /\ review.pc = "answered" /\ review.role = "revision" /\ review \in ReviewState
        /\ UNCHANGED ctx /\ review.answer \in Reply /\ cand \in Candidates
        /\ review.wanted # "HOLD" /\ Within(review.rec)
    BY DEF Revise, account, InReview, ReviewState, HoldsAreRead, Weighed, cand
  <1>2. review.calls <= 13 /\ review.calls \in Nat
    BY <1>1 DEF InReview, CallsBounded, ReviewState, EvidenceRetry
  <1>3. PICK r \in Reply : r = Revised(review.answer) /\ Within(r)
    BY <1>1, RevisedIsWithin
  <1> DEFINE held == [review EXCEPT !.pc = "queue", !.rec = r, !.verdict = "rejected"]
             again == [review EXCEPT !.pc = "evaluateAgain", !.answer = r]
  <1>4. CASE r.action = "HOLD"
    <2>1. review' = held /\ Between'
      BY <1>1, <1>3, <1>4, GoesOn DEF Revise
    <2>2. /\ held \in ReviewState /\ held.pc = "queue" /\ held.calls = review.calls
          /\ held.rec = r /\ held.cand = review.cand /\ held.wanted = review.wanted
      BY <1>1 DEF ReviewState, Ruling
    <2> HIDE DEF held
    <2>3. CallsBounded'
      BY <1>2, <2>1, <2>2 DEF CallsBounded
    <2>4. Weighed'
      BY <1>1, <1>3, <2>1, <2>2, WeighedNext
    <2>5. Approved' /\ HoldsAreRead'
      BY <1>1, <1>4, <2>1, <2>2 DEF Approved, HoldsAreRead
    <2> QED BY <2>1, <2>2, <2>3, <2>4, <2>5 DEF InReview
  <1>5. CASE r.action # "HOLD"
    <2>1. review' = again /\ Between'
      BY <1>1, <1>3, <1>5, GoesOn DEF Revise
    <2>2. /\ again \in ReviewState /\ again.pc = "evaluateAgain" /\ again.calls = review.calls
          /\ again.rec = review.rec /\ again.answer = r /\ again.cand = review.cand
          /\ again.wanted = review.wanted
      BY <1>1 DEF ReviewState
    <2> HIDE DEF again
    <2>3. CallsBounded'
      BY <1>2, <2>1, <2>2 DEF CallsBounded
    <2>4. Weighed'
      BY <1>1, <1>3, <2>1, <2>2, WeighedNext
    <2>5. Approved' /\ HoldsAreRead'
      BY <1>1, <2>1, <2>2 DEF Approved, HoldsAreRead
    <2> QED BY <2>1, <2>2, <2>3, <2>4, <2>5 DEF InReview
  <1> QED BY <1>4, <1>5

LEMMA EvaluateAgainKeeps ==
  ASSUME InReview, EvaluateAgain PROVE InReview'
  <1> DEFINE asked == [review EXCEPT !.pc = "queue", !.calls = @ + 1, !.graded = review.answer]
             approval == [asked EXCEPT !.verdict = "approved", !.rec = review.answer]
             rejection == [asked EXCEPT !.verdict = "rejected", !.rec = Held(@)]
  <1>1. /\ review.pc = "evaluateAgain" /\ review \in ReviewState /\ UNCHANGED ctx
        /\ review.rec \in Reply /\ review.answer \in Reply /\ review.wanted # "HOLD"
        /\ Within(review.answer) /\ review.calls <= 13 /\ review.calls \in Nat
    BY DEF EvaluateAgain, account, InReview, ReviewState, CallsBounded, HoldsAreRead, Weighed
  <1>2. Goes(approval) \/ Goes(rejection)
    BY DEF EvaluateAgain
  <1>3. /\ asked \in ReviewState /\ asked.pc = "queue" /\ asked.calls = review.calls + 1
        /\ asked.graded = review.answer /\ asked.rec = review.rec /\ asked.cand = review.cand
        /\ asked.wanted = review.wanted
    <2>1. PICK n \in 0 .. 14 : n = review.calls + 1
      BY <1>1
    <2>2. PICK g \in Reply : g = review.answer
      BY <1>1
    <2>3. asked = [review EXCEPT !.pc = "queue", !.calls = n, !.graded = g]
      BY <2>1, <2>2
    <2> HIDE DEF asked
    <2>4. 0 .. 3 * (EvidenceRetry + 1) + 2 = 0 .. 14
      BY DEF EvidenceRetry
    <2> QED BY <1>1, <2>1, <2>2, <2>3, <2>4 DEF ReviewState
  <1> HIDE DEF asked
  <1>4. CASE Goes(approval)
    <2>1. review' = approval /\ Between'
      BY <1>1, <1>4, GoesOn
    <2>2. /\ approval \in ReviewState /\ approval.pc = "queue" /\ approval.calls = review.calls + 1
          /\ approval.rec = review.answer /\ approval.cand = review.cand
          /\ approval.graded = review.answer /\ approval.verdict = "approved"
          /\ approval.wanted = review.wanted
      BY <1>1, <1>3 DEF ReviewState, Ruling
    <2> HIDE DEF approval
    <2>3. CallsBounded'
      BY <1>1, <2>1, <2>2 DEF CallsBounded
    <2>4. Weighed'
      BY <1>1, <2>1, <2>2, WeighedNext
    <2>5. Approved' /\ HoldsAreRead'
      BY <1>1, <2>1, <2>2 DEF Approved, HoldsAreRead
    <2> QED BY <2>1, <2>2, <2>3, <2>4, <2>5 DEF InReview
  <1>5. CASE Goes(rejection)
    <2>1. review' = rejection /\ Between'
      BY <1>1, <1>5, GoesOn
    <2>2. PICK h \in Reply : h = Held(review.rec) /\ h.action = "HOLD"
      BY <1>1, HeldIs
    <2>3. rejection = [asked EXCEPT !.verdict = "rejected", !.rec = h]
      BY <1>3, <2>2
    <2> HIDE DEF rejection
    <2>4. /\ rejection \in ReviewState /\ rejection.pc = "queue"
          /\ rejection.calls = review.calls + 1 /\ rejection.rec = h
          /\ rejection.cand = review.cand /\ rejection.wanted = review.wanted
      BY <1>3, <2>3 DEF ReviewState, Ruling
    <2>5. CallsBounded'
      BY <1>1, <2>1, <2>4 DEF CallsBounded
    <2>6. Within(h)
      BY <2>2, HeldIsWithin
    <2>7. Weighed'
      BY <1>1, <2>1, <2>4, <2>6, WeighedNext
    <2>8. Approved' /\ HoldsAreRead'
      BY <1>1, <2>1, <2>2, <2>4 DEF Approved, HoldsAreRead
    <2> QED BY <2>1, <2>4, <2>5, <2>7, <2>8 DEF InReview
  <1> QED BY <1>2, <1>4, <1>5

\* Every step of the run keeps what is known of the review in progress.
LEMMA ReviewKept ==
  ASSUME ctx \in Contexts, InReview, [ReviewNext]_reviewVars PROVE InReview'
  <1>1. CASE Take
    BY <1>1, TakeStarts
  <1>2. CASE DataGate
    BY <1>2, DataGateKeeps
  <1>3. CASE Consult
    BY <1>3, ConsultKeeps
  <1>4. CASE CallFails
    BY <1>4, CallFailsKeeps
  <1>5. CASE AnswerRefused
    BY <1>5, Ended DEF AnswerRefused
  <1>6. CASE PolicyRetry
    BY <1>6, PolicyRetryKeeps
  <1>7. CASE PassGates
    BY <1>7, PassGatesKeeps
  <1>8. CASE Evaluate
    BY <1>8, EvaluateKeeps
  <1>9. CASE Revise
    BY <1>9, ReviseKeeps
  <1>10. CASE EvaluateAgain
    BY <1>10, EvaluateAgainKeeps
  <1>11. CASE NotQueued
    BY <1>11, Ended DEF NotQueued
  <1>12. CASE QueueFails
    BY <1>12, Ended DEF QueueFails
  <1>13. CASE Queue
    BY <1>13, Ended DEF Queue
  <1>14. CASE UNCHANGED reviewVars
    BY ZenonT(30), <1>14 DEF reviewVars, InReview, CallsBounded, Weighed, Within, Placed, Merited, UnderRed,
         AveragesDown, agent, cand, Approved, IsOpen, HoldsAreRead, ReadsAsHold, Between
  <1>15. ReviewNext \/ UNCHANGED reviewVars
    OBVIOUS
  <1> QED BY <1>1, <1>2, <1>3, <1>4, <1>5, <1>6, <1>7, <1>8, <1>9, <1>10, <1>11, <1>12, <1>13,
         <1>14, <1>15, Zenon DEF ReviewNext, Ends

-------------------------------------------------------------------------------
(* The account and the queued proposals                                    *)

\* The cash left is what the run found less what its buys commit.
CashCounted ==
  /\ Committed + cash = ctx.budget
  /\ Buys # {} => cash >= agent.reserve
\* A queued proposal is open.
QueuedIsOpen ==
  \A q \in queued : [ticker |-> q.cand.ticker, side |-> q.rec.action] \in open
AccountInv ==
  /\ ctx \in Contexts /\ cash \in Nat /\ open \subseteq Listed /\ slips \in 0 .. MaxSlips
  /\ queued \subseteq Proposal /\ IsFiniteSet(queued)
  /\ CashCounted /\ QueuedIsOpen /\ QueuedIsApproved /\ QueuedWithinLimits

LEMMA SizedIs ==
  ASSUME ctx \in Contexts, cash \in Nat, cand \in Candidates, NEW r \in Reply
  PROVE  /\ Dollars(r) \in Nat /\ Dollars(r) <= Sized(r) /\ Sized(r) \in Nat
         /\ r.action = "BUY" /\ Sized(r) # 0 => Sized(r) + agent.reserve <= cash
  <1>1. /\ agent.reserve \in 0 .. 100 /\ cand.held \in Nat /\ cand.owned \in Nat
        /\ r.weight \in Nat /\ Slots \in Nat \ {0} /\ ProposalCap \in Nat
    BY ContextShape, CandShape, BoundsAssumption DEF Reply
  <1>2. Deployable \in Nat /\ (Deployable # 0 => Deployable + agent.reserve <= cash)
    BY <1>1 DEF Deployable, Above
  <1>3. (100 - agent.reserve) \div Slots \in Nat
    BY SMTT(30), <1>1
  <1>4. Increment(r.weight) \in Nat
    BY <1>1, <1>3, AboveIs DEF Increment
  <1> DEFINE most == Smaller(Increment(r.weight), Deployable)
  <1>5. most \in Nat /\ most <= Deployable
    BY <1>2, <1>4, SmallerIs
  <1> HIDE DEF most
  <1> DEFINE raw == IF r.action = "BUY" THEN most ELSE cand.owned
  <1>6. raw \in Nat /\ (r.action = "BUY" => raw <= Deployable)
    BY <1>1, <1>5
  <1>7. Sized(r) = Smaller(raw, ProposalCap)
    BY DEF Sized, most
  <1> HIDE DEF raw
  <1>8. Sized(r) \in Nat /\ Sized(r) <= raw
    BY <1>1, <1>6, <1>7, SmallerIs
  <1>9. Dollars(r) \in Nat /\ Dollars(r) <= Sized(r)
    BY <1>8 DEF Dollars, BreakerAmount
  <1>10. ASSUME r.action = "BUY", Sized(r) # 0
         PROVE  Sized(r) + agent.reserve <= cash
    BY <1>1, <1>2, <1>6, <1>8, <1>10
  <1> QED BY <1>8, <1>9, <1>10

\* One more proposal adds its dollars to the sum.
LEMMA OneMore ==
  ASSUME NEW B, IsFiniteSet(B), NEW p, p \notin B, \A q \in B \cup {p} : q.dollars \in Nat
  PROVE  Total([q \in B \cup {p} |-> q.dollars], B \cup {p})
           = Total([q \in B |-> q.dollars], B) + p.dollars
  <1> DEFINE f == [q \in B \cup {p} |-> q.dollars]
             g == [q \in B |-> q.dollars]
  <1>1. \A q \in B \cup {p} : f[q] \in Nat /\ f[q] = q.dollars
    OBVIOUS
  <1>2. \A q \in B : f[q] = g[q]
    OBVIOUS
  <1>3. f[p] \in Nat /\ f[p] = p.dollars
    BY <1>1
  <1> HIDE DEF f, g
  <1>4. IsFiniteSet({p}) /\ B \cap {p} = {}
    BY FS_Singleton
  <1>5. Total(f, B \cup {p}) = Total(f, B) + Total(f, {p})
    BY <1>1, <1>4, TotalSplits
  <1>6. Total(f, B) = Total(g, B)
    BY <1>2, TotalSame
  <1>7. Total(f, {p}) = p.dollars
    BY <1>3, TotalOfOne
  <1> QED BY <1>5, <1>6, <1>7 DEF f, g

LEMMA QueueKeeps ==
  ASSUME InReview, AccountInv, Queue PROVE AccountInv'
  <1> DEFINE r == review.rec
             p == [cand |-> cand, rec |-> r, dollars |-> Dollars(r),
                   graded |-> review.graded, verdict |-> review.verdict]
             side == [ticker |-> cand.ticker, side |-> r.action]
  <1>1. /\ ctx \in Contexts /\ cash \in Nat /\ open \subseteq Listed /\ queued \subseteq Proposal
        /\ IsFiniteSet(queued) /\ review \in ReviewState /\ review.pc = "queue"
    BY DEF AccountInv, InReview, Queue
  <1>2. /\ cand \in Candidates /\ r \in Reply /\ review.graded \in Reply /\ review.verdict \in Ruling
    BY <1>1 DEF ReviewState, cand
  <1>3. /\ r.action \in Sides /\ ~IsOpen(r.action) /\ Sized(r) # 0 /\ BreakerAllows(r.action)
    BY <1>2 DEF Queue, Disposition, Reply, Actions
  <1>4. /\ Dollars(r) \in Nat
        /\ r.action = "BUY" => Dollars(r) + agent.reserve <= cash /\ agent.reserve \in 0 .. 100
    BY <1>1, <1>2, <1>3, SizedIs, ContextShape
  <1>5. /\ open' = open \cup {side} /\ queued' = queued \cup {p} /\ UNCHANGED <<ctx, slips>>
        /\ cash' = IF r.action = "BUY" THEN Above(cash, Dollars(r)) ELSE cash
    BY DEF Queue
  <1>6. side \in Listed /\ p \in Proposal
    BY <1>2, <1>3, <1>4, CandShape DEF Listed, Proposal
  <1>7. /\ p.cand = cand /\ p.rec = r /\ p.dollars = Dollars(r)
        /\ p.graded = review.graded /\ p.verdict = review.verdict
    OBVIOUS
  <1>8. p \notin queued
    BY <1>3, <1>7 DEF AccountInv, QueuedIsOpen, IsOpen
  <1>9. QueuedIsOpen'
    BY <1>5, <1>7 DEF AccountInv, QueuedIsOpen
  <1> HIDE DEF p, side
  <1>10. IsFiniteSet(queued') /\ queued' \subseteq Proposal /\ open' \subseteq Listed
    BY <1>1, <1>5, <1>6, FS_AddElement
  <1>11. QueuedIsApproved'
    <2>1. /\ review.verdict = "approved"
          /\ r.action = review.graded.action /\ r.weight = review.graded.weight
      BY <1>1, <1>3 DEF InReview, Approved, Sides
    <2> QED BY <1>5, <1>7, <2>1 DEF AccountInv, QueuedIsApproved
  <1>12. QueuedWithinLimits'
    <2>1. Within(r)
      BY DEF InReview, Weighed
    <2>2. /\ BreakerAllows(p.rec.action)
          /\ p.rec.action = "BUY" =>
               /\ p.rec.weight <= agent.maxPos
               /\ ctx.red = 1 => p.rec.weight <= agent.redCap
               /\ agent.conviction =>
                    p.cand.strong > 0 /\ p.rec.weight <= (IF p.cand.strong = 1 THEN 5 ELSE 15)
               /\ agent.noAveragingDown => ~(p.cand.weight > 0 /\ p.cand.atLoss)
      BY <1>3, <1>7, <2>1 DEF Within, Placed, Merited, UnderRed, AveragesDown
    <2> QED BY <1>5, <2>2 DEF AccountInv, QueuedWithinLimits, BreakerAllows, agent
  <1>13. CashCounted' /\ cash' \in Nat
    <2>1. CashCounted /\ ctx.budget \in Nat
      BY <1>1, ContextShape DEF AccountInv
    <2>2. Committed' = Total([q \in Buys' |-> q.dollars], Buys')
      BY DEF Committed, Total, Units
    <2>3. CASE r.action = "BUY"
      <3>1. Buys' = Buys \cup {p} /\ p \notin Buys
        BY <1>5, <1>7, <1>8, <2>3 DEF Buys
      <3>2. IsFiniteSet(Buys) /\ \A q \in Buys \cup {p} : q.dollars \in Nat
        BY <1>1, <1>4, <1>7, FS_Subset DEF Buys, Proposal
      <3>3. Committed' = Committed + p.dollars
        BY <2>2, <3>1, <3>2, OneMore DEF Committed
      <3>4. cash' = cash - p.dollars /\ cash' >= agent.reserve /\ p.dollars \in Nat
        BY <1>1, <1>4, <1>5, <1>7, <2>3 DEF Above
      <3>5. Committed \in Nat
        <4>1. \A q \in Buys : [x \in Buys |-> x.dollars][q] \in Nat
          BY <3>2
        <4> QED BY <3>2, <4>1, TotalType DEF Committed
      <3>6. agent' = agent /\ agent.reserve \in Nat
        BY <1>4, <1>5, <2>3 DEF agent
      <3> QED BY <1>1, <1>5, <2>1, <3>3, <3>4, <3>5, <3>6 DEF CashCounted
    <2>4. CASE r.action # "BUY"
      <3>1. Buys' = Buys
        BY <1>5, <1>7, <2>4 DEF Buys
      <3>2. Committed' = Committed
        BY <2>2, <3>1 DEF Committed
      <3> QED BY <1>1, <1>5, <2>1, <2>4, <3>1, <3>2 DEF CashCounted, agent
    <2> QED BY <2>3, <2>4
  <1> QED BY <1>1, <1>5, <1>9, <1>10, <1>11, <1>12, <1>13 DEF AccountInv

\* No other step touches the account.
LEMMA AccountStays ==
  ASSUME AccountInv, UNCHANGED account, slips' \in 0 .. MaxSlips PROVE AccountInv'
  <1>1. UNCHANGED <<ctx, cash, open, queued>>
    BY DEF account
  <1>2. CashCounted'
    BY <1>1 DEF AccountInv, CashCounted, Committed, Buys, Total, Units, agent
  <1>3. QueuedIsOpen' /\ QueuedIsApproved' /\ QueuedWithinLimits'
    BY <1>1 DEF AccountInv, QueuedIsOpen, QueuedIsApproved, QueuedWithinLimits, BreakerAllows, agent
  <1> QED BY <1>1, <1>2, <1>3 DEF AccountInv

LEMMA AccountKept ==
  ASSUME AccountInv, InReview, [ReviewNext]_reviewVars PROVE AccountInv'
  <1>1. CASE Queue
    BY <1>1, QueueKeeps
  <1>2. CASE ~Queue
    <2>1. UNCHANGED account
      BY <1>2, Zenon DEF ReviewNext, Take, DataGate, Consult, CallFails, AnswerRefused, PolicyRetry,
         PassGates, Evaluate, Revise, EvaluateAgain, NotQueued, QueueFails, Ends, account, reviewVars
    <2>2. UNCHANGED slips \/ (slips < MaxSlips /\ slips' = slips + 1)
      BY <1>2, Zenon DEF ReviewNext, Take, DataGate, Consult, CallFails, AnswerRefused, PolicyRetry,
         PassGates, Evaluate, Revise, EvaluateAgain, NotQueued, QueueFails, Ends, reviewVars
    <2>3. slips' \in 0 .. MaxSlips
      BY <2>2, BoundsAssumption DEF AccountInv
    <2> QED BY <2>1, <2>3, AccountStays
  <1> QED BY <1>1, <1>2

-------------------------------------------------------------------------------
(* The theorems                                                            *)

ReviewInv == InReview /\ AccountInv

LEMMA ReviewStarts == ReviewInit => ReviewInv
  <1> SUFFICES ASSUME ReviewInit PROVE ReviewInv
    OBVIOUS
  <1>1. /\ ctx \in Contexts /\ cash = ctx.budget /\ open = ctx.open /\ review = Idle
        /\ queued = {} /\ outcome = "none" /\ slips = 0
    BY DEF ReviewInit
  <1>2. review \in ReviewState /\ review.pc = "idle" /\ review.calls = 0 /\ review.role = "first"
        /\ review.rec.action = "HOLD"
    BY <1>1, IdleIs, NoAnswerIs
  <1>3. CallsBounded
    BY <1>2 DEF CallsBounded
  <1>4. Weighed
    BY <1>2 DEF Weighed, Within, Placed, Merited, UnderRed
  <1>5. Approved /\ HoldsAreRead /\ Between
    BY <1>1, <1>2 DEF Approved, HoldsAreRead, Between
  <1>6. Buys = {} /\ Committed = 0
    <2>1. Buys = {}
      BY <1>1 DEF Buys
    <2> QED BY <2>1, TotalOfNone DEF Committed
  <1>7. CashCounted /\ cash \in Nat /\ open \subseteq Listed
    BY <1>1, <1>6, ContextShape DEF CashCounted
  <1>8. IsFiniteSet(queued) /\ slips \in 0 .. MaxSlips
    BY <1>1, BoundsAssumption, FS_EmptySet
  <1>9. QueuedIsOpen /\ QueuedIsApproved /\ QueuedWithinLimits
    BY <1>1 DEF QueuedIsOpen, QueuedIsApproved, QueuedWithinLimits
  <1> QED BY <1>1, <1>2, <1>3, <1>4, <1>5, <1>7, <1>8, <1>9 DEF ReviewInv, InReview, AccountInv

LEMMA ReviewStays == ReviewInv /\ [ReviewNext]_reviewVars => ReviewInv'
  <1> SUFFICES ASSUME ReviewInv, [ReviewNext]_reviewVars PROVE ReviewInv'
    OBVIOUS
  <1>1. ctx \in Contexts /\ InReview /\ AccountInv
    BY DEF ReviewInv, AccountInv
  <1> QED BY <1>1, ReviewKept, AccountKept DEF ReviewInv

\* Every reachable state of a run is well typed; in particular no review
\* calls the models more than fourteen times, whatever they answer.
THEOREM ReviewTypeCorrect == ReviewSpec => []ReviewTypeOK
  <1>1. ReviewInv => ReviewTypeOK
    BY DEF ReviewInv, InReview, AccountInv, ReviewTypeOK
  <1> QED BY <1>1, ReviewStarts, ReviewStays, PTL DEF ReviewSpec

\* What a run queues was approved as it is, keeps within its agent's limits
\* and, all buys together, within the cash the run found less the reserve.
THEOREM QueuedIsSoundHolds == ReviewSpec => []QueuedIsSound
  <1>1. ReviewInv => QueuedIsSound
    <2> SUFFICES ASSUME ReviewInv PROVE QueuedIsSound
      OBVIOUS
    <2>1. /\ QueuedIsApproved /\ QueuedWithinLimits /\ CashCounted /\ ctx \in Contexts
          /\ cash \in Nat /\ queued \subseteq Proposal /\ IsFiniteSet(queued)
      BY DEF ReviewInv, AccountInv
    <2>2. Committed \in Nat
      <3>1. IsFiniteSet(Buys) /\ \A q \in Buys : [x \in Buys |-> x.dollars][q] \in Nat
        BY <2>1, FS_Subset DEF Buys, Proposal
      <3> QED BY <3>1, TotalType DEF Committed
    <2>3. BuysFitCash
      BY <2>1, <2>2, ContextShape DEF CashCounted, BuysFitCash
    <2> QED BY <2>1, <2>3 DEF QueuedIsSound
  <1> QED BY <1>1, ReviewStarts, ReviewStays, PTL DEF ReviewSpec

\* Only what the model's answer read as a HOLD is counted as an investment
\* HOLD, through retries, gates, a revision and failures.
THEOREM JudgementHolds == ReviewSpec => JudgementIsTheModels
  <1>1. ASSUME ReviewInv, [ReviewNext]_reviewVars
        PROVE  [outcome' = "investment_hold" =>
                  /\ review.answer.action = "HOLD" /\ ~review.answer.broken
                  /\ ~review.answer.cashTalk]_reviewVars
    <2> SUFFICES ASSUME outcome' = "investment_hold", ~UNCHANGED reviewVars
                 PROVE  ReadsAsHold(review.answer)
      BY DEF ReadsAsHold
    <2>0. InReview
      BY <1>1 DEF ReviewInv
    <2>1. ASSUME NEW r, Goes(r), review.pc # "idle" PROVE FALSE
      BY <2>0, <2>1, GoesOn
    <2>2. CASE NotQueued
      <3>1. review.pc = "queue" /\ Classified(Disposition(review.rec)) = "investment_hold"
        BY <2>2 DEF NotQueued, Finish
      <3>2. review.wanted = "HOLD"
        BY <3>1 DEF Classified, Disposition, Judged
      <3> QED BY <2>0, <3>1, <3>2 DEF InReview, HoldsAreRead
    <2>3. CASE QueueFails
      <3>1. Classified("queue_error") = "investment_hold"
        BY <2>3 DEF QueueFails, Finish
      <3> QED BY <3>1 DEF Classified
    <2>4. CASE Queue
      <3>1. Classified("created") = "investment_hold"
        BY <2>4 DEF Queue, Finish
      <3> QED BY <3>1 DEF Classified
    <2>5. CASE DataGate
      <3>1. \/ outcome' = "stale_data" \/ outcome' = "data_gate"
            \/ review.pc # "idle" /\ Goes([review EXCEPT !.pc = "ask"])
        BY <2>5 DEF DataGate, Finish
      <3> QED BY <2>1, <3>1
    <2>6. CASE CallFails
      <3>1. \/ outcome' = "budget_exhausted" \/ outcome' = "review_error"
            \/ review.pc # "idle" /\ FailClosed
        BY <2>6 DEF CallFails, Finish
      <3> QED BY <2>1, <3>1 DEF FailClosed
    <2>7. CASE Consult
      <3>1. review.pc # "idle" /\ \E r : Goes(r)
        BY <2>7 DEF Consult
      <3> QED BY <2>1, <3>1
    <2>8. CASE PolicyRetry \/ PassGates \/ Evaluate \/ Revise \/ EvaluateAgain
      <3>1. review.pc # "idle" /\ \E r : Goes(r)
        BY <2>8 DEF PolicyRetry, PassGates, Evaluate, Revise, EvaluateAgain
      <3> QED BY <2>1, <3>1
    <2>9. CASE Take \/ AnswerRefused
      BY <2>9 DEF Take, AnswerRefused, Finish
    <2>10. ReviewNext
      BY <1>1
    <2> QED BY <2>2, <2>3, <2>4, <2>5, <2>6, <2>7, <2>8, <2>9, <2>10, Zenon DEF ReviewNext, Ends
  <1> QED BY <1>1, ReviewStarts, ReviewStays, PTL DEF ReviewSpec, JudgementIsTheModels

-------------------------------------------------------------------------------
(* The mandate: what a score and a file of evidence are                    *)

LEMMA MinOfIndices ==
  ASSUME NEW S \in SUBSET Nat, S # {} PROVE Min(S) \in S /\ \A x \in S : Min(S) <= x
  <1>1. \E x \in S : \A y \in S : x <= y
    BY LeastNatural
  <1> QED BY <1>1 DEF Min

LEMMA BandIs == ASSUME NEW num \in Nat, NEW den \in Nat PROVE Band(num, den) \in 0 .. 4
  BY DEF Band

LEMMA AbsoluteIs ==
  ASSUME NEW m \in MetricCases PROVE Absolute(m.rules) \in 0 .. 4 \cup {None}
  <1> DEFINE rules == m.rules
             awaited == {i \in DOMAIN rules : Condition(rules[i]) # FALSE}
  <1>1. DOMAIN rules \in SUBSET (1 .. 3)
    BY PolicyAssumption DEF PolicyAssumption, Fractions
  <1>2. awaited \subseteq DOMAIN rules
    BY Zenon
  <1>3. Absolute(rules) = IF awaited = {} THEN 0 ELSE IF Condition(rules[Min(awaited)]) = None THEN None
                                                      ELSE Fractions[Min(awaited)]
    BY Zenon DEF Absolute
  <1> HIDE DEF awaited, rules
  <1>4. awaited # {} => Min(awaited) \in 1 .. 3
    <2>1. awaited \in SUBSET Nat /\ awaited \subseteq 1 .. 3
      BY <1>1, <1>2
    <2> QED BY <2>1, MinOfIndices
  <1>5. \A i \in 1 .. 3 : Fractions[i] \in 0 .. 4
    BY DEF Fractions
  <1> QED BY <1>3, <1>4, <1>5 DEF rules

LEMMA EighthsAre == ASSUME NEW m \in MetricCases PROVE Eighths(m) \in Nat \cup {None}
  <1>1. Absolute(m.rules) \in 0 .. 4 \cup {None}
    BY AbsoluteIs
  <1>2. PeerFraction(m) \in 0 .. 4 \cup {None}
    <2>1. 2 * m.beaten + m.tied \in Nat /\ 2 * m.peers \in Nat
      BY PolicyAssumption DEF PolicyAssumption
    <2> QED BY <2>1, BandIs DEF PeerFraction
  <1>3. Mode(m.peers) \in {"peer_relative", "blended_50_50", "absolute"}
    BY DEF Mode
  <1> DEFINE peer == PeerFraction(m)
             absolute == Absolute(m.rules)
  <1>4. \/ Eighths(m) = None
        \/ peer # None /\ Eighths(m) = 2 * peer
        \/ absolute # None /\ Eighths(m) = 2 * absolute
        \/ peer # None /\ absolute # None /\ Eighths(m) = peer + absolute
    BY <1>3, Zenon DEF Eighths
  <1> HIDE DEF peer, absolute
  <1>5. (peer = None \/ peer \in 0 .. 4) /\ (absolute = None \/ absolute \in 0 .. 4)
    BY <1>1, <1>2 DEF peer, absolute
  <1> QED BY <1>4, <1>5

\* The total of a score is a number.
LEMMA TotalIsNumber ==
  ASSUME NEW c, c.metrics \in [Metrics -> MetricCases] PROVE Observation(c).total \in Int
  <1> DEFINE S == Scored(c)
             earned == [m \in S |-> Points[m] * Eighths(c.metrics[m])]
  <1>1. S \in SUBSET Metrics /\ IsFiniteSet(S)
    BY ScoreAssumption, FS_Subset DEF ScoreAssumption, Scored
  <1>2. \A m \in S : Points[m] \in Nat
    BY <1>1, ScoreAssumption DEF ScoreAssumption
  <1>3. \A m \in S : Eighths(c.metrics[m]) \in Nat
    BY <1>1, EighthsAre DEF Scored
  <1>4. \A m \in S : earned[m] \in Nat
    BY <1>2, <1>3
  <1>5. Available(c) \in Nat
    BY <1>1, <1>2, TotalType DEF Available
  <1>6. Earned(c) \in Nat
    <2>1. Total(earned, S) \in Nat
      <3> HIDE DEF earned, S
      <3> QED BY <1>1, <1>4, TotalType
    <2> QED BY <2>1 DEF Earned
  <1>7. ASSUME Available(c) # 0 PROVE Rounded(100 * Earned(c), 8 * Available(c)) \in Int
    <2>1. 2 * (100 * Earned(c)) + 8 * Available(c) \in Int /\ 2 * (8 * Available(c)) \in Nat
          /\ 2 * (8 * Available(c)) > 0
      BY <1>5, <1>6, <1>7
    <2> QED BY <2>1 DEF Rounded
  <1>8. PointsTotal(c) \in Int
    BY <1>7 DEF PointsTotal, Capped, ThinPeerCap
  <1> QED BY <1>8 DEF Observation

\* A record is one the id may have, unless the live adapter cannot fill it.
RecordOf(e) == evidence[e] = Unavailable \/ \E r \in Records[e] : evidence[e] = r.record
PolicyInv ==
  /\ policy \in Policies /\ evidence = [e \in Ids |-> evidence[e]] /\ \A e \in Ids : RecordOf(e)
  /\ live => \A e \in policy.holding \ LiveIds : evidence[e] = Unavailable
  /\ DOMAIN candidate = {"metrics", "special", "override"}
  /\ candidate.metrics \in [Metrics -> MetricCases]
  /\ score # None => score.total \in Int

LEMMA PolicyStarts == ASSUME PolicyInit PROVE PolicyInv
  <1>1. /\ policy \in Policies
        /\ evidence = [e \in Ids |-> IF \/ live /\ e \in policy.holding \ LiveIds
                                        \/ live /\ e = "momentumDeteriorationTrigger"
                                     THEN Unavailable ELSE Clean(e).record]
    BY DEF PolicyInit
  <1>2. \A e \in Ids : Clean(e) \in Records[e]
    BY <1>1, PolicyAssumption DEF PolicyAssumption, RecordsAreSound, Clean, Ids
  <1>3. evidence = [e \in Ids |-> evidence[e]] /\ \A e \in Ids : RecordOf(e)
    BY <1>1, <1>2 DEF RecordOf
  <1>4. live => \A e \in policy.holding \ LiveIds : evidence[e] = Unavailable
    BY <1>1 DEF Ids
  <1>5. /\ DOMAIN candidate = {"metrics", "special", "override"}
        /\ candidate.metrics \in [Metrics -> MetricCases]
    BY PolicyAssumption DEF PolicyAssumption, PolicyInit
  <1>6. score # None => score.total \in Int
    BY <1>5, TotalIsNumber DEF PolicyInit
  <1> QED BY <1>1, <1>3, <1>4, <1>5, <1>6 DEF PolicyInv

LEMMA ObserveKeeps == ASSUME PolicyInv, NEW e \in Ids, Observe(e) PROVE PolicyInv'
  <1>1. /\ UNCHANGED <<policy, live, candidate, score>> /\ (live => e \in LiveIds)
        /\ \E r \in Records[e] : evidence' = [evidence EXCEPT ![e] = r.record]
    BY DEF Observe
  <1>2. PICK r \in Records[e] : evidence' = [evidence EXCEPT ![e] = r.record]
    BY <1>1
  <1>3. Ids' = Ids /\ LiveIds' = LiveIds
    BY <1>1 DEF Ids, LiveIds
  <1>4. /\ evidence' = [i \in Ids |-> evidence'[i]] /\ evidence'[e] = r.record
        /\ \A i \in Ids : i # e => evidence'[i] = evidence[i]
    BY <1>2 DEF PolicyInv
  <1>5. \A i \in Ids : RecordOf(i)'
    BY <1>4 DEF PolicyInv, RecordOf, Unavailable
  <1>6. live => \A i \in policy.holding \ LiveIds : evidence'[i] = Unavailable
    BY <1>1, <1>4 DEF PolicyInv, Ids
  <1> QED BY <1>1, <1>3, <1>4, <1>5, <1>6 DEF PolicyInv, Unavailable

LEMMA ScoreKeeps ==
  ASSUME PolicyInv, UNCHANGED <<policy, live, evidence>>,
         DOMAIN candidate' = DOMAIN candidate, candidate'.metrics \in [Metrics -> MetricCases],
         score' \in {score, None, Observation(candidate')}
  PROVE  PolicyInv'
  <1>1. Observation(candidate').total \in Int
    BY TotalIsNumber
  <1>2. score' # None => score'.total \in Int
    BY <1>1 DEF PolicyInv
  <1>3. Ids' = Ids /\ LiveIds' = LiveIds
    BY DEF Ids, LiveIds
  <1>4. \A i \in Ids : RecordOf(i)'
    BY DEF PolicyInv, RecordOf, Unavailable
  <1> QED BY <1>2, <1>3, <1>4 DEF PolicyInv, Unavailable

LEMMA PolicyStays == ASSUME PolicyInv, [PolicyNext]_policyVars PROVE PolicyInv'
  <1>1. ASSUME NEW m \in Metrics, Rescore(m) PROVE PolicyInv'
    <2>1. PICK c \in MetricCases : candidate' = [candidate EXCEPT !.metrics[m] = c]
      BY <1>1 DEF Rescore
    <2>2. /\ DOMAIN candidate' = DOMAIN candidate /\ candidate'.metrics \in [Metrics -> MetricCases]
      BY <2>1 DEF PolicyInv
    <2> QED BY <1>1, <2>2, ScoreKeeps DEF Rescore
  <1>2. ASSUME Reclassify PROVE PolicyInv'
    <2>1. \E x : candidate' = [candidate EXCEPT !.special = x] \/ candidate' = [candidate EXCEPT !.override = x]
      BY <1>2, Zenon DEF Reclassify
    <2>2. /\ DOMAIN candidate' = DOMAIN candidate /\ candidate'.metrics \in [Metrics -> MetricCases]
      BY <2>1 DEF PolicyInv
    <2> QED BY <1>2, <2>2, ScoreKeeps DEF Reclassify
  <1>3. ASSUME LoseScore PROVE PolicyInv'
    BY <1>3, ScoreKeeps DEF LoseScore, PolicyInv
  <1>4. ASSUME UNCHANGED policyVars PROVE PolicyInv'
    BY <1>4, ScoreKeeps DEF policyVars, PolicyInv
  <1>5. PolicyNext \/ UNCHANGED policyVars
    OBVIOUS
  <1> QED BY <1>1, <1>2, <1>3, <1>4, <1>5, ObserveKeeps, Zenon DEF PolicyNext, Settled

-------------------------------------------------------------------------------
(* What bounds a position and what ends it                                 *)

LEMMA PolicyIs ==
  ASSUME PolicyInv
  PROVE  /\ PolicyIsSound(policy) /\ \A e \in Ids : RecordsAreSound(e)
         /\ EntryIds(policy.agent) \subseteq Ids /\ HoldingIds(policy.agent) \subseteq Ids
         /\ SizingIds \subseteq Ids /\ Len(policy.tiers) \in Nat /\ Len(policy.tiers) >= 2
         /\ \A i \in 1 .. Len(policy.tiers) : policy.tiers[i] \in [min : Nat, max : Nat, top : Nat]
         /\ policy.tiers[1] \in [min : Nat, max : Nat, top : Nat]
  <1>1. PolicyIsSound(policy) /\ \A e \in Ids : RecordsAreSound(e)
    BY PolicyAssumption DEF PolicyAssumption, PolicyInv, Ids
  <1>2. /\ EntryIds(policy.agent) \subseteq Ids /\ HoldingIds(policy.agent) \subseteq Ids /\ SizingIds \subseteq Ids
    BY <1>1 DEF PolicyIsSound, Ids, OtherIds
  <1>3. policy.tiers \in Seq([min : Nat, max : Nat, top : Nat]) /\ Len(policy.tiers) >= 2
    BY <1>1 DEF PolicyIsSound
  <1>4. /\ Len(policy.tiers) \in Nat
        /\ \A i \in 1 .. Len(policy.tiers) : policy.tiers[i] \in [min : Nat, max : Nat, top : Nat]
    <2> DEFINE T == [min : Nat, max : Nat, top : Nat]
               tiers == policy.tiers
    <2>1. tiers \in Seq(T)
      BY <1>3
    <2> HIDE DEF T, tiers
    <2>2. Len(tiers) \in Nat /\ \A i \in 1 .. Len(tiers) : tiers[i] \in T
      BY <2>1
    <2> QED BY <2>2 DEF T, tiers
  <1>5. policy.tiers[1] \in [min : Nat, max : Nat, top : Nat]
    BY <1>3, <1>4
  <1> QED BY <1>1, <1>2, <1>3, <1>4, <1>5

\* A reading that can be used is one of a record that is fresh and typed.
LEMMA FreshIs ==
  ASSUME PolicyInv, NEW e \in Ids, Fresh(e)
  PROVE  \E r \in Records[e] : evidence[e] = r.record /\ r.record.state = "fresh" /\ r.record.typed
  BY DEF PolicyInv, RecordOf, Fresh, Unavailable

\* A tier is one of the policy's, and the score lies in it.
LEMMA TierIs ==
  ASSUME PolicyInv, Tier # 0
  PROVE  /\ HasScore /\ Tier \in 1 .. Len(policy.tiers)
         /\ score.total >= policy.tiers[Tier].min
  <1> DEFINE fit == {i \in DOMAIN policy.tiers :
                       score.total >= policy.tiers[i].min /\ score.total <= policy.tiers[i].max}
  <1>1. HasScore /\ Tier = Min(fit) /\ fit # {}
    BY DEF Tier
  <1>2. DOMAIN policy.tiers = 1 .. Len(policy.tiers) /\ Len(policy.tiers) \in Nat
    BY PolicyIs DEF PolicyIsSound
  <1>3. fit \in SUBSET Nat
    BY <1>2
  <1>4. Min(fit) \in fit
    <2> HIDE DEF fit
    <2> QED BY <1>1, <1>3, MinOfIndices
  <1> QED BY <1>1, <1>2, <1>4

LEMMA CappedTierIs ==
  ASSUME PolicyInv, CappedTier # 0
  PROVE  CappedTier \in 1 .. Len(policy.tiers) /\ (CappedTier = 1 => Tier = 1)
  <1>1. Tier # 0
    BY DEF CappedTier
  <1>2. Tier \in 1 .. Len(policy.tiers) /\ Len(policy.tiers) \in Nat /\ Len(policy.tiers) >= 2
    BY <1>1, TierIs, PolicyIs DEF PolicyIsSound
  <1> QED BY <1>2 DEF CappedTier

LEMMA ThinHolds == ASSUME PolicyInv PROVE ThinPeersNeverTopTier
  <1>1. SUFFICES ASSUME HasScore, score.thin, SizingEligible PROVE CappedTier >= 2
    BY DEF ThinPeersNeverTopTier
  <1>2. /\ ScoreClears /\ CappedTier # 0
    BY <1>1 DEF SizingEligible, EntryEligible
  <1>3. score.total \in Int /\ score.total <= ThinPeerCap
    BY <1>1, <1>2 DEF ScoreClears, HasScore, PolicyInv
  <1>4. ASSUME CappedTier = 1 PROVE FALSE
    <2>1. Tier = 1 /\ score.total >= policy.tiers[1].min
      BY <1>2, <1>4, CappedTierIs, TierIs
    <2>2. policy.tiers[1].min \in Nat /\ policy.tiers[1].min > ThinPeerCap
      BY PolicyIs DEF PolicyIsSound
    <2> QED BY <1>3, <2>1, <2>2 DEF ThinPeerCap
  <1>5. CappedTier \in Nat /\ CappedTier >= 1
    BY <1>2, CappedTierIs
  <1> QED BY <1>4, <1>5

LEMMA MacroHolds == ASSUME PolicyInv PROVE SizeWithinMacro
  <1>1. SUFFICES ASSUME MacroReadable, MarketRed \/ RatesRed, policy.macroBinds, SizingEligible
                 PROVE  SingleRed /\ Val("requestedWeightPct") <= policy.tiers[2].top
    BY DEF SizeWithinMacro
  <1>2. ~ DualRed /\ CappedTier # 0
    BY <1>1 DEF SizingEligible, EntryEligible, HardGates
  <1>3. SingleRed
    BY <1>1, <1>2 DEF SingleRed, DualRed
  <1>4. CappedTier \in 2 .. Len(policy.tiers)
    <2>1. CappedTier # 1
      BY <1>1, <1>3 DEF CappedTier
    <2>2. CappedTier \in 1 .. Len(policy.tiers) /\ Len(policy.tiers) \in Nat
      BY <1>2, CappedTierIs, PolicyIs DEF PolicyIsSound
    <2> QED BY <2>1, <2>2
  <1>5. /\ policy.tiers[CappedTier].top <= policy.tiers[2].top
        /\ policy.tiers[CappedTier].top \in Nat /\ policy.tiers[2].top \in Nat
    <2>1. /\ policy.tiers[CappedTier] \in [min : Nat, max : Nat, top : Nat]
          /\ policy.tiers[2] \in [min : Nat, max : Nat, top : Nat]
      BY <1>4, PolicyIs
    <2> QED BY <1>4, <2>1, PolicyIs DEF PolicyIsSound
  <1>6. Val("requestedWeightPct") <= policy.tiers[CappedTier].top /\ Fresh("requestedWeightPct")
    BY <1>1 DEF SizingEligible, SizingIds
  <1>7. Val("requestedWeightPct") \in Nat
    BY <1>6, PolicyIs, FreshIs DEF RecordsAreSound, SizingIds, Val
  <1> QED BY <1>3, <1>5, <1>6, <1>7

\* The actions that count, ordered by their strength.
Asked == Triggers \cup If(DueReviews # {}, ReviewRequired)
           \cup If(Holds("criticalCredibilityEvent"), SellFull) \cup {NoExit}
LEMMA AskedIs == ASSUME PolicyInv PROVE Asked \subseteq 0 .. 3 /\ Strongest \in Asked
  <1>1. Triggers \subseteq 0 .. 3
    <2>1. Atr \subseteq 0 .. 3 /\ DeadTrade \subseteq 0 .. 3 /\ TrendBreak \subseteq 0 .. 3
      BY DEF Atr, DeadTrade, TrendBreak, If, ReviewRequired, SellPartial, SellFull
    <2>2. policy.agent \in {"agent-1", "agent-2", "agent-3"}
      BY PolicyIs DEF PolicyIsSound
    <2> QED BY <2>1, <2>2 DEF Triggers, If, ReviewRequired, SellPartial, SellFull
  <1>2. Asked \subseteq 0 .. 3 /\ 0 \in Asked
    BY <1>1 DEF Asked, If, ReviewRequired, SellFull, NoExit
  <1>3. Strongest = Max(Asked)
    BY DEF Strongest, Asked
  <1>4. \E x \in Asked : \A y \in Asked : x >= y
    <2> HIDE DEF Asked
    <2>1. CASE 3 \in Asked
      BY <1>2, <2>1
    <2>2. CASE 3 \notin Asked /\ 2 \in Asked
      BY <1>2, <2>2
    <2>3. CASE 3 \notin Asked /\ 2 \notin Asked /\ 1 \in Asked
      BY <1>2, <2>3
    <2>4. CASE 3 \notin Asked /\ 2 \notin Asked /\ 1 \notin Asked
      BY <1>2, <2>4
    <2> QED BY <2>1, <2>2, <2>3, <2>4
  <1> QED BY <1>2, <1>3, <1>4 DEF Max

LEMMA SellFullDominates == ASSUME PolicyInv, SellFull \in Asked PROVE HoldingAction = SellFull
  <1>1. Strongest = Max(Asked)
    BY DEF Strongest, Asked
  <1>2. Max(Asked) = SellFull
    BY AskedIs DEF Max, SellFull
  <1> QED BY <1>1, <1>2 DEF HoldingAction, SellFull, NoExit

LEMMA SevereHolds == ASSUME PolicyInv PROVE SevereTriggersDominate
  <1>1. ASSUME \/ "criticalCredibilityEvent" \in policy.holding /\ Holds("criticalCredibilityEvent")
               \/ policy.agent = "agent-1" /\ Holds("fundamentalFullExitTrigger")
               \/ policy.agent = "agent-3" /\ Holds("structuralFullExitTrigger")
        PROVE  HoldingAction = SellFull
    <2>1. SellFull \in Asked
      BY <1>1 DEF Asked, Triggers, If
    <2> QED BY <2>1, SellFullDominates
  <1>2. ASSUME CanQueue PROVE ~ live
    <2>1. ASSUME live PROVE FALSE
      <3>1. policy.agent \in {"agent-1", "agent-2", "agent-3"} /\ "lastWeeklyRescoreAt" \in policy.holding
        BY PolicyIs DEF PolicyIsSound, HoldingIds
      <3>2. evidence["lastWeeklyRescoreAt"] = Unavailable
        BY <2>1, <3>1 DEF PolicyInv, LiveIds
      <3> QED BY <1>2, <3>1, <3>2 DEF CanQueue, Covered, Nullable, Fresh, Unavailable
    <2> QED BY <2>1
  <1>3. ASSUME CanQueue PROVE \A e \in policy.holding : Fresh(e) \/ e \in Nullable
    BY <1>3 DEF CanQueue, Covered
  <1> QED BY <1>1, <1>2, <1>3, Zenon DEF SevereTriggersDominate

\* A position never exceeds what its evidence allows, and a severe trigger that
\* can be read ends it: for any mandates with a tier out of reach of a capped
\* score, any records, metrics and order of their changes.
THEOREM PositionHolds == PolicySpec => []PositionIsBounded
  <1>1. ASSUME PolicyInv PROVE PositionIsBounded
    BY <1>1, ThinHolds, MacroHolds, SevereHolds DEF PositionIsBounded
  <1> QED BY <1>1, PolicyStarts, PolicyStays, PTL DEF PolicySpec

-------------------------------------------------------------------------------
(* Lost evidence                                                           *)

\* What was read of an id is read of it again.
Same(S) == \A e \in S : evidence'[e] = evidence[e]
LEMMA SameReading ==
  ASSUME NEW e, evidence'[e] = evidence[e]
  PROVE  /\ Fresh(e)' <=> Fresh(e)
         /\ NotApplicable(e)' <=> NotApplicable(e)
         /\ Val(e)' = Val(e)
  BY DEF Fresh, NotApplicable, Val, InOrder

\* The gates read what the mandate names.
LEMMA GatesAgree ==
  ASSUME PolicyIsSound(policy), policy' = policy, score' = score, identity' = identity, Same(policy.entry)
  PROVE  HardGates' <=> HardGates
  <1>1. /\ \A e \in policy.entry : evidence'[e] = evidence[e]
        /\ EntryIds(policy.agent) \subseteq policy.entry /\ policy.agent \in {"agent-1", "agent-2", "agent-3"}
    BY DEF Same, PolicyIsSound
  <1>2. \A e \in policy.entry : Fresh(e)' <=> Fresh(e)
    BY <1>1, SameReading
  <1>3. (\A e \in policy.entry : Fresh(e))' <=> (\A e \in policy.entry : Fresh(e))
    BY <1>2
  <1>4. (DualRed /\ policy.macroBinds)' <=> (DualRed /\ policy.macroBinds)
    <2>1. /\ evidence'["spyClose"] = evidence["spyClose"]
          /\ evidence'["spy200DayAverage"] = evidence["spy200DayAverage"]
          /\ evidence'["treasuryYieldChange"] = evidence["treasuryYieldChange"]
      BY <1>1 DEF EntryIds
    <2> QED BY <2>1 DEF DualRed, MacroReadable, MarketRed, RatesRed, Fresh, InOrder, Val
  <1>5. CommonEntry' <=> CommonEntry
    <2>1. /\ evidence'["securityEligible"] = evidence["securityEligible"]
          /\ evidence'["balanceSheetEntryPass"] = evidence["balanceSheetEntryPass"]
          /\ evidence'["criticalCredibilityEvent"] = evidence["criticalCredibilityEvent"]
          /\ evidence'["companyDisclosureState"] = evidence["companyDisclosureState"]
      BY <1>1 DEF EntryIds
    <2> QED BY <2>1 DEF CommonEntry, Val
  <1>6. (Liquid /\ Trending /\ Voluminous /\ Documented /\ Valued)'
          <=> Liquid /\ Trending /\ Voluminous /\ Documented /\ Valued
    <2>1. evidence'["averageDollarVolume"] = evidence["averageDollarVolume"]
      BY <1>1 DEF EntryIds
    <2>2. CASE policy.agent = "agent-1"
      <3>1. /\ evidence'["marketCapitalization"] = evidence["marketCapitalization"]
            /\ evidence'["currentPrice"] = evidence["currentPrice"]
            /\ evidence'["price200DayAverage"] = evidence["price200DayAverage"]
            /\ evidence'["entryRelativeVolume"] = evidence["entryRelativeVolume"]
        BY <1>1, <2>2 DEF EntryIds
      <3> QED BY <2>1, <2>2, <3>1 DEF Liquid, Trending, Voluminous, Documented, Valued, Val
    <2>3. CASE policy.agent = "agent-2"
      <3>1. /\ evidence'["marketCapitalization"] = evidence["marketCapitalization"]
            /\ evidence'["currentPrice"] = evidence["currentPrice"]
            /\ evidence'["price50DayAverage"] = evidence["price50DayAverage"]
            /\ evidence'["price200DayAverage"] = evidence["price200DayAverage"]
            /\ evidence'["entryRelativeVolume"] = evidence["entryRelativeVolume"]
            /\ evidence'["revenueGrowthQuarters"] = evidence["revenueGrowthQuarters"]
            /\ evidence'["epsGrowthQuarters"] = evidence["epsGrowthQuarters"]
        BY <1>1, <2>3 DEF EntryIds
      <3> QED BY <2>1, <2>3, <3>1 DEF Liquid, Trending, Voluminous, Documented, Valued, Val
    <2>4. CASE policy.agent = "agent-3"
      <3>1. evidence'["valuationCascade"] = evidence["valuationCascade"]
        BY <1>1, <2>4 DEF EntryIds
      <3> QED BY <2>1, <2>4, <3>1 DEF Liquid, Trending, Voluminous, Documented, Valued, Val, HasScore
    <2> QED BY <1>1, <2>2, <2>3, <2>4
  <1> QED BY <1>3, <1>4, <1>5, <1>6 DEF HardGates

LEMMA ScoreAgrees ==
  ASSUME policy' = policy, score' = score, identity' = identity
  PROVE  (ScoreClears' <=> ScoreClears) /\ (HasScore' <=> HasScore) /\ Tier' = Tier
  BY DEF ScoreClears, HasScore, Tier

LEMMA SizeAgrees ==
  ASSUME PolicyIsSound(policy), policy' = policy, score' = score, identity' = identity, Same(policy.entry),
         Same(SizingIds), policy.reserve # None => Same({"projectedAttributedCashPct"})
  PROVE  SizingEligible' <=> SizingEligible
  <1>1. EntryEligible' <=> EntryEligible
    BY GatesAgree, ScoreAgrees DEF EntryEligible
  <1>2. CappedTier' = CappedTier
    <2>1. /\ evidence'["spyClose"] = evidence["spyClose"]
          /\ evidence'["spy200DayAverage"] = evidence["spy200DayAverage"]
          /\ evidence'["treasuryYieldChange"] = evidence["treasuryYieldChange"]
      BY DEF Same, EntryIds, PolicyIsSound
    <2>2. SingleRed' <=> SingleRed
      BY <2>1 DEF SingleRed, MacroReadable, MarketRed, RatesRed, Fresh, InOrder, Val
    <2> QED BY <2>2, ScoreAgrees DEF CappedTier
  <1>3. \A e \in SizingIds : (Fresh(e)' <=> Fresh(e)) /\ Val(e)' = Val(e)
    BY SameReading DEF Same
  <1>4. /\ evidence'["projectedPositionWeightPct"] = evidence["projectedPositionWeightPct"]
        /\ evidence'["projectedSectorWeightPct"] = evidence["projectedSectorWeightPct"]
        /\ evidence'["requestedWeightPct"] = evidence["requestedWeightPct"]
        /\ policy.reserve # None => evidence'["projectedAttributedCashPct"] = evidence["projectedAttributedCashPct"]
    BY DEF Same, SizingIds
  <1>5. WithinCaps' <=> WithinCaps
    BY <1>4 DEF WithinCaps, Fresh, InOrder, Val
  <1>6. (\A e \in SizingIds : Fresh(e))' <=> (\A e \in SizingIds : Fresh(e))
    BY <1>3 DEF SizingIds
  <1>7. Val("requestedWeightPct")' = Val("requestedWeightPct")
    BY <1>4 DEF Val
  <1> QED BY <1>1, <1>2, <1>5, <1>6, <1>7 DEF SizingEligible

LEMMA AddAgrees ==
  ASSUME PolicyIsSound(policy), policy' = policy, score' = score, identity' = identity, Same(policy.entry),
         Same(AddIds), policy.lifetimeAdds # None => Same(ControlledAddIds)
  PROVE  AddEligible' <=> AddEligible
  <1>1. EntryEligible' <=> EntryEligible
    BY GatesAgree, ScoreAgrees DEF EntryEligible
  <1>2. \A e \in AddIds : Fresh(e)' <=> Fresh(e)
    BY SameReading DEF Same
  <1>3. (\A e \in AddIds : Fresh(e))' <=> (\A e \in AddIds : Fresh(e))
    BY <1>2 DEF AddIds
  <1>4. /\ Val("isExistingPosition")' = Val("isExistingPosition") /\ Val("isUnderwater")' = Val("isUnderwater")
        /\ Val("projectedWeightPct")' = Val("projectedWeightPct")
    BY DEF Same, AddIds, Val
  <1>5. ASSUME policy.lifetimeAdds # None PROVE ControlledAdd' <=> ControlledAdd
    <2>1. \A e \in ControlledAddIds : Fresh(e)' <=> Fresh(e)
      BY <1>5, SameReading DEF Same
    <2>2. (\A e \in ControlledAddIds : Fresh(e))' <=> (\A e \in ControlledAddIds : Fresh(e))
      BY <2>1 DEF ControlledAddIds
    <2>3. /\ Val("priorFilledAddIds")' = Val("priorFilledAddIds") /\ Val("thesisIntact")' = Val("thesisIntact")
          /\ Val("criticalDataComplete")' = Val("criticalDataComplete")
          /\ Val("liquidityExitCapacityWarning")' = Val("liquidityExitCapacityWarning")
          /\ Val("companyNondisclosure")' = Val("companyNondisclosure") /\ Val("declineCause")' = Val("declineCause")
      BY <1>5 DEF Same, ControlledAddIds, Val
    <2> QED BY <2>2, <2>3, ScoreAgrees DEF ControlledAdd
  <1> QED BY <1>1, <1>3, <1>4, <1>5 DEF AddEligible

\* The actions on a holding read what the mandate names.
LEMMA HoldingAgrees ==
  ASSUME PolicyIsSound(policy), policy' = policy, Same(policy.holding)
  PROVE  (Covered' <=> Covered) /\ DueReviews' = DueReviews /\ Strongest' = Strongest
  <1>1. /\ \A e \in policy.holding : evidence'[e] = evidence[e]
        /\ HoldingIds(policy.agent) \subseteq policy.holding /\ policy.agent \in {"agent-1", "agent-2", "agent-3"}
    BY DEF Same, PolicyIsSound
  <1>2. Covered' <=> Covered
    <2>1. \A e \in policy.holding : (Fresh(e)' <=> Fresh(e)) /\ (NotApplicable(e)' <=> NotApplicable(e))
      BY <1>1, SameReading
    <2> QED BY <2>1 DEF Covered
  <1>3. /\ evidence'["lastCompletedSessionAt"] = evidence["lastCompletedSessionAt"]
        /\ evidence'["lastDailyMonitorAt"] = evidence["lastDailyMonitorAt"]
        /\ evidence'["lastWeeklyRescoreAt"] = evidence["lastWeeklyRescoreAt"]
        /\ evidence'["latestEarningsAt"] = evidence["latestEarningsAt"]
        /\ evidence'["lastEarningsReunderwriteAt"] = evidence["lastEarningsReunderwriteAt"]
        /\ evidence'["latestMaterialEventAt"] = evidence["latestMaterialEventAt"]
        /\ evidence'["lastMaterialEventReunderwriteAt"] = evidence["lastMaterialEventReunderwriteAt"]
        /\ evidence'["criticalCredibilityEvent"] = evidence["criticalCredibilityEvent"]
    BY <1>1 DEF HoldingIds, Nullable
  <1>4. policy.agent = "agent-3" => evidence'["lastAnnualReunderwriteAt"] = evidence["lastAnnualReunderwriteAt"]
    BY <1>1 DEF HoldingIds
  <1>5. DueReviews' = DueReviews
    BY <1>3, <1>4 DEF DueReviews, Unreviewed, Fresh, InOrder, Val
  <1>6. Triggers' = Triggers
    <2>1. CASE policy.agent = "agent-1"
      <3>1. /\ evidence'["atrFrom20SessionHigh"] = evidence["atrFrom20SessionHigh"]
            /\ evidence'["relativeStrengthBroken"] = evidence["relativeStrengthBroken"]
            /\ evidence'["epsTrendImproving"] = evidence["epsTrendImproving"]
            /\ evidence'["fundamentalFullExitTrigger"] = evidence["fundamentalFullExitTrigger"]
            /\ evidence'["momentumDeteriorationTrigger"] = evidence["momentumDeteriorationTrigger"]
            /\ evidence'["tradingDaysSinceEntry"] = evidence["tradingDaysSinceEntry"]
            /\ evidence'["thesisProgress"] = evidence["thesisProgress"]
            /\ evidence'["datedCatalyst"] = evidence["datedCatalyst"]
            /\ evidence'["convictionTierDrop"] = evidence["convictionTierDrop"]
        BY <1>1, <2>1 DEF HoldingIds
      <3>2. Atr' = Atr
        BY <3>1 DEF Atr, If, Least, Holds, Fails, Fresh, InOrder, Val
      <3>3. DeadTrade' = DeadTrade
        BY <3>1 DEF DeadTrade, If, Least, Holds, Fails, Fresh, InOrder, Val
      <3>4. /\ Holds("fundamentalFullExitTrigger")' <=> Holds("fundamentalFullExitTrigger")
            /\ Holds("momentumDeteriorationTrigger")' <=> Holds("momentumDeteriorationTrigger")
            /\ Least("convictionTierDrop", 1)' <=> Least("convictionTierDrop", 1)
        BY <3>1 DEF Least, Holds, Fresh, InOrder, Val
      <3> QED BY <2>1, <3>2, <3>3, <3>4 DEF Triggers, If
    <2>2. CASE policy.agent = "agent-2"
      <3>1. /\ evidence'["consecutiveClosesBelow50Day"] = evidence["consecutiveClosesBelow50Day"]
            /\ evidence'["relativeStrengthDecliningWeeks"] = evidence["relativeStrengthDecliningWeeks"]
            /\ evidence'["priceBelow200DayAverage"] = evidence["priceBelow200DayAverage"]
            /\ evidence'["consecutiveRevenueDeceleration"] = evidence["consecutiveRevenueDeceleration"]
            /\ evidence'["consecutiveEpsDeceleration"] = evidence["consecutiveEpsDeceleration"]
            /\ evidence'["guidanceTrajectoryReset"] = evidence["guidanceTrajectoryReset"]
            /\ evidence'["quartersFlatOrUnderperformingSpy"] = evidence["quartersFlatOrUnderperformingSpy"]
            /\ evidence'["datedCatalyst"] = evidence["datedCatalyst"]
            /\ evidence'["convictionTierDrop"] = evidence["convictionTierDrop"]
        BY <1>1, <2>2 DEF HoldingIds
      <3>2. TrendBreak' = TrendBreak /\ (Deteriorating' <=> Deteriorating)
        BY <3>1 DEF TrendBreak, Momentum, Deteriorating, Least, Holds, Fresh, InOrder, Val
      <3>3. /\ Least("quartersFlatOrUnderperformingSpy", 2)' <=> Least("quartersFlatOrUnderperformingSpy", 2)
            /\ Fails("datedCatalyst")' <=> Fails("datedCatalyst")
            /\ Least("convictionTierDrop", 1)' <=> Least("convictionTierDrop", 1)
        BY <3>1 DEF Least, Fails, Fresh, InOrder, Val
      <3> QED BY <2>2, <3>2, <3>3 DEF Triggers, If
    <2>3. CASE policy.agent = "agent-3"
      <3>1. /\ evidence'["structuralFullExitTrigger"] = evidence["structuralFullExitTrigger"]
            /\ evidence'["businessEvidenceScore"] = evidence["businessEvidenceScore"]
            /\ evidence'["currentWeightPct"] = evidence["currentWeightPct"]
            /\ evidence'["valuationPercentile"] = evidence["valuationPercentile"]
        BY <1>1, <2>3 DEF HoldingIds
      <3>2. /\ Holds("structuralFullExitTrigger")' <=> Holds("structuralFullExitTrigger")
            /\ Least("valuationPercentile", 90)' <=> Least("valuationPercentile", 90)
            /\ Fresh("businessEvidenceScore")' <=> Fresh("businessEvidenceScore")
            /\ Val("businessEvidenceScore")' = Val("businessEvidenceScore")
            /\ Fresh("currentWeightPct")' <=> Fresh("currentWeightPct")
            /\ Val("currentWeightPct")' = Val("currentWeightPct")
        BY <3>1 DEF Least, Holds, Fresh, InOrder, Val
      <3> QED BY <2>3, <3>2 DEF Triggers, If
    <2> QED BY <1>1, <2>1, <2>2, <2>3
  <1>7. Holds("criticalCredibilityEvent")' <=> Holds("criticalCredibilityEvent")
    BY <1>3 DEF Holds, Fresh, InOrder, Val
  <1>8. Asked' = Asked
    BY <1>5, <1>6, <1>7 DEF Asked, If
  <1>9. Strongest = Max(Asked) /\ Strongest' = Max(Asked')
    BY DEF Strongest, Asked
  <1> QED BY <1>2, <1>5, <1>8, <1>9

Helped == /\ EntryEligible' => EntryEligible
          /\ ResearchEligible' => ResearchEligible
          /\ SizingEligible' => SizingEligible
          /\ AddEligible' => AddEligible
          /\ AdditionsFrozen => AdditionsFrozen'
          /\ CanQueue' => CanQueue
          /\ HoldingAction' = NoExit => HoldingAction = NoExit

\* A record that cannot be read any more was either named, or nobody read it.
LEMMA RecordLost ==
  ASSUME PolicyInv, policy' = policy, score' = score, identity' = identity, NEW e \in Ids, NEW x,
         evidence' = [evidence EXCEPT ![e] = x], Fresh(e), ~ Fresh(e)', ~ NotApplicable(e)'
  PROVE  Helped
  <1>1. /\ PolicyIsSound(policy) /\ \A i \in Ids : i # e => evidence'[i] = evidence[i]
        /\ policy.entry \subseteq Ids /\ policy.holding \subseteq Ids /\ policy.others \subseteq Ids
    BY PolicyIs DEF PolicyInv, Ids
  <1>2. \A S : S \subseteq Ids /\ e \notin S => Same(S)
    BY <1>1 DEF Same
  <1>3. HardGates' => e \notin policy.entry
    BY DEF HardGates
  <1>4. e \notin policy.entry => Same(policy.entry)
    BY <1>1, <1>2
  <1>5. HardGates' => HardGates
    BY <1>1, <1>3, <1>4, GatesAgree
  <1>6. EntryEligible' => EntryEligible
    BY <1>5, ScoreAgrees DEF EntryEligible
  <1>7. SizingEligible' => SizingEligible
    <2>1. SUFFICES ASSUME SizingEligible' PROVE SizingEligible
      OBVIOUS
    <2>2. Same(policy.entry)
      BY <1>3, <1>4, <2>1 DEF SizingEligible, EntryEligible
    <2>3. e \notin SizingIds /\ (policy.reserve # None => e # "projectedAttributedCashPct")
      BY <2>1 DEF SizingEligible, WithinCaps
    <2>4. SizingIds \subseteq Ids /\ (policy.reserve # None => {"projectedAttributedCashPct"} \subseteq Ids)
      BY <1>1 DEF PolicyIsSound, OtherIds
    <2> QED BY <1>1, <1>2, <2>1, <2>2, <2>3, <2>4, SizeAgrees
  <1>8. AddEligible' => AddEligible
    <2>1. SUFFICES ASSUME AddEligible' PROVE AddEligible
      OBVIOUS
    <2>2. Same(policy.entry) /\ EntryEligible
      BY <1>3, <1>4, <1>6, <2>1 DEF AddEligible, EntryEligible
    <2>3. e \notin AddIds /\ AddIds \subseteq Ids
      BY <1>1, <2>1 DEF AddEligible, PolicyIsSound, OtherIds
    <2>4. policy.lifetimeAdds # None => e \notin ControlledAddIds /\ ControlledAddIds \subseteq Ids
      BY <1>1, <2>1 DEF AddEligible, ControlledAdd, PolicyIsSound, OtherIds
    <2> QED BY <1>1, <1>2, <2>1, <2>2, <2>3, <2>4, AddAgrees
  <1>9. Covered' => e \notin policy.holding
    BY DEF Covered
  <1>10. e \notin policy.holding => (Covered' <=> Covered) /\ DueReviews' = DueReviews /\ Strongest' = Strongest
    BY <1>1, <1>2, HoldingAgrees
  <1>11. AdditionsFrozen => AdditionsFrozen'
    BY <1>9, <1>10 DEF AdditionsFrozen
  <1>12. CanQueue' => CanQueue
    BY <1>9, <1>10 DEF CanQueue, HoldingAction
  <1>13. HoldingAction' = NoExit => HoldingAction = NoExit
    BY <1>9, <1>10 DEF HoldingAction, ReviewRequired, NoExit
  <1> QED BY <1>5, <1>6, <1>7, <1>8, <1>11, <1>12, <1>13 DEF Helped, ResearchEligible

\* Without a score the valuation asks for more, and everything else for a score.
LEMMA ScoreLost ==
  ASSUME PolicyInv, policy' = policy, evidence' = evidence, HasScore, ~ HasScore' PROVE Helped
  <1>1. /\ Same(policy.holding) /\ PolicyIsSound(policy)
    BY PolicyIs DEF Same
  <1>2. (Covered' <=> Covered) /\ DueReviews' = DueReviews /\ Strongest' = Strongest
    BY <1>1, HoldingAgrees
  <1>3. ~ EntryEligible'
    BY DEF EntryEligible, ScoreClears
  <1>4. ASSUME HardGates' PROVE Valued
    <2>1. SUFFICES ASSUME policy.agent = "agent-3" PROVE Valued
      BY DEF Valued
    <2> DEFINE fraction == Cascade(Val("valuationCascade"))
    <2>2. fraction # None /\ fraction >= 3 /\ Fresh("valuationCascade") /\ "valuationCascade" \in Ids
      <3>1. Valued' /\ Fresh("valuationCascade")' /\ "valuationCascade" \in Ids
        BY <1>1, <1>4, <2>1 DEF HardGates, PolicyIsSound, EntryIds, Ids
      <3> QED BY <2>1, <3>1 DEF Valued, Val, Fresh, InOrder
    <2>3. fraction \in 0 .. 4
      <3>1. \E r \in Records["valuationCascade"] :
               evidence["valuationCascade"] = r.record /\ r.record.state = "fresh" /\ r.record.typed
        BY <2>2, FreshIs
      <3>2. LET v == Val("valuationCascade")
            IN  v.history \in Grades /\ v.sector \in Grades /\ v.absolute \in Grades
        BY <2>2, <3>1, PolicyIs DEF RecordsAreSound, Val
      <3>3. fraction \in Grades \cup {None}
        BY <3>2 DEF Cascade, OwnHistory
      <3> HIDE DEF fraction
      <3> QED BY <2>2, <3>3 DEF Grades
    <2>4. \A n \in {2, 3} : fraction >= n
      <3> HIDE DEF fraction
      <3> QED BY <2>2, <2>3
    <2> QED BY <2>2, <2>4 DEF Valued
  <1>5. HardGates' => HardGates
    <2>1. SUFFICES ASSUME HardGates' PROVE HardGates
      OBVIOUS
    <2>2. Valued
      BY <1>4, <2>1
    <2> QED BY <2>1, <2>2 DEF HardGates, DualRed, MacroReadable, MarketRed, RatesRed, CommonEntry, Liquid, Trending,
               Voluminous, Documented, Fresh, InOrder, Val
  <1> QED BY <1>2, <1>3, <1>5 DEF Helped, ResearchEligible, SizingEligible, AddEligible, AdditionsFrozen,
             CanQueue, HoldingAction

LEMMA LostHelpsNothing == ASSUME PolicyInv, [PolicyNext]_policyVars, Lost PROVE Helped
  <1>1. ASSUME NEW e \in Ids, Observe(e) PROVE Helped
    <2>1. UNCHANGED <<policy, score, identity>> /\ \E r \in Records[e] : evidence' = [evidence EXCEPT ![e] = r.record]
      BY <1>1 DEF Observe
    <2>2. PICK r \in Records[e] : evidence' = [evidence EXCEPT ![e] = r.record]
      BY <2>1
    <2>3. HasScore' <=> HasScore
      BY <2>1, ScoreAgrees
    <2>4. PICK i \in Ids : evidence'[i] # evidence[i] /\ Fresh(i) /\ ~ Fresh(i)' /\ ~ NotApplicable(i)'
      BY <2>3 DEF Lost
    <2>5. i = e
      BY <2>2, <2>4 DEF PolicyInv
    <2> QED BY <2>1, <2>2, <2>4, <2>5, RecordLost
  <1>2. ASSUME UNCHANGED <<policy, evidence>> PROVE Helped
    <2>1. HasScore /\ ~ HasScore'
      BY <1>2 DEF Lost
    <2> QED BY <1>2, <2>1, ScoreLost
  <1>3. ASSUME \/ \E m \in Metrics : Rescore(m)
               \/ Reclassify \/ LoseScore \/ Settled \/ UNCHANGED policyVars
        PROVE  Helped
    BY <1>2, <1>3 DEF Rescore, Reclassify, LoseScore, Settled, policyVars
  <1>4. PolicyNext \/ UNCHANGED policyVars
    OBVIOUS
  <1> QED BY <1>1, <1>3, <1>4, Zenon DEF PolicyNext

\* A record or a score that can no longer be read opens nothing: no entry, size
\* or addition becomes eligible, no exit queueable and no holding free of exits.
THEOREM LostEvidenceHolds == PolicySpec => UnreadableNeverHelps
  <1>1. ASSUME PolicyInv, [PolicyNext]_policyVars
        PROVE  [Lost => /\ EntryEligible' => EntryEligible
                        /\ ResearchEligible' => ResearchEligible
                        /\ SizingEligible' => SizingEligible
                        /\ AddEligible' => AddEligible
                        /\ AdditionsFrozen => AdditionsFrozen'
                        /\ CanQueue' => CanQueue
                        /\ HoldingAction' = NoExit => HoldingAction = NoExit]_policyVars
    BY <1>1, LostHelpsNothing, Zenon DEF Helped
  <1> QED BY <1>1, PolicyStarts, PolicyStays, PTL DEF PolicySpec, UnreadableNeverHelps
===============================================================================
