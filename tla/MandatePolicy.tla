----------------------------- MODULE MandatePolicy -----------------------------
(***************************************************************************)
(* The specialist mandate policy: what a mandate may do with a stock given *)
(* typed, dated evidence and a conviction score.  The policy is pure; its  *)
(* evidence and the candidate's metrics change one record at a time, and   *)
(* every verdict is a function of them (evaluateMandateEntry, ...Sizing,   *)
(* ...Add, ...Holding, and what the exit monitor makes of the last).       *)
(*                                                                         *)
(* A number stands for the reading in the policy's own unit, scaled down.  *)
(***************************************************************************)
EXTENDS MandateScore, Sequences

CONSTANTS Policies,   \* MANDATE_POLICIES: a set of records, see MCMandatePolicy
          Records,    \* the records an evidence id may have, by id
          MetricCases,\* what a metric may be, and what every metric may be at first
          FirstCases,
          AsOf,       \* the decision's instant
          ProposedAddId, \* the addition being judged
          MaxChanges  \* bound: how many records change

Nullable == {"latestEarningsAt", "lastEarningsReunderwriteAt",
             "latestMaterialEventAt", "lastMaterialEventReunderwriteAt"}
(* The evidence a mandate names (config/agents/mandate-policy.js).         *)
EntryIds(agent) ==
    {"securityEligible", "averageDollarVolume", "balanceSheetEntryPass", "companyDisclosureState",
     "criticalCredibilityEvent", "spyClose", "spy200DayAverage", "treasuryYieldChange"} \cup
    CASE agent = "agent-1" -> {"marketCapitalization", "currentPrice", "price200DayAverage", "entryRelativeVolume"}
      [] agent = "agent-2" -> {"marketCapitalization", "currentPrice", "price50DayAverage", "price200DayAverage",
                               "entryRelativeVolume", "revenueGrowthQuarters", "epsGrowthQuarters",
                               "estimateConsensusHistory"}
      [] agent = "agent-3" -> {"valuationCascade"}
HoldingIds(agent) ==
    Nullable \cup {"lastCompletedSessionAt", "lastDailyMonitorAt", "lastWeeklyRescoreAt",
                   "criticalCredibilityEvent"} \cup
    CASE agent = "agent-1" ->
           {"atrFrom20SessionHigh", "relativeStrengthBroken", "epsTrendImproving", "fundamentalFullExitTrigger",
            "momentumDeteriorationTrigger", "tradingDaysSinceEntry", "thesisProgress", "datedCatalyst",
            "convictionTierDrop"}
      [] agent = "agent-2" ->
           {"consecutiveClosesBelow50Day", "relativeStrengthDecliningWeeks", "priceBelow200DayAverage",
            "consecutiveRevenueDeceleration", "consecutiveEpsDeceleration", "guidanceTrajectoryReset",
            "quartersFlatOrUnderperformingSpy", "datedCatalyst", "convictionTierDrop"}
      [] agent = "agent-3" ->
           {"lastAnnualReunderwriteAt", "structuralFullExitTrigger", "businessEvidenceScore", "currentWeightPct",
            "valuationPercentile"}
(* What the size of a position and an addition to one are judged by.       *)
SizingIds == {"requestedWeightPct", "projectedPositionWeightPct", "projectedSectorWeightPct"}
AddIds == {"isExistingPosition", "isUnderwater", "projectedWeightPct"}
ControlledAddIds == {"priorFilledAddIds", "fullReunderwriteAt", "thesisIntact", "declineCause",
                     "criticalDataComplete", "liquidityExitCapacityWarning", "companyNondisclosure"}
OtherIds(p) == SizingIds \cup AddIds \cup {e \in {"projectedAttributedCashPct"} : p.reserve # None}
                 \cup {e \in ControlledAddIds : p.lifetimeAdds # None}

(* A mandate has two tiers at least, the first out of reach of a capped    *)
(* score and the only one that allows more than the second.                *)
PolicyIsSound(p) ==
    /\ p.agent \in {"agent-1", "agent-2", "agent-3"}
    /\ EntryIds(p.agent) \subseteq p.entry /\ HoldingIds(p.agent) \subseteq p.holding /\ OtherIds(p) \subseteq p.others
    /\ p.tiers \in Seq([min : Nat, max : Nat, top : Nat]) /\ Len(p.tiers) >= 2
    /\ p.tiers[1].min > ThinPeerCap
    /\ \A i \in 2 .. Len(p.tiers) : p.tiers[i].top <= p.tiers[2].top
Grades == 0 .. 4 \cup {None}
(* An id has a record of a clean file; what is read of a size is a number, *)
(* and what is read of the valuation cascade are grades.                   *)
RecordsAreSound(e) ==
    /\ \E r \in Records[e] : r.clean
    /\ \A r \in Records[e] : r.record.state = "fresh" /\ r.record.typed =>
          /\ e = "requestedWeightPct" => r.record.value \in Nat
          /\ e = "valuationCascade" => /\ r.record.value.history \in Grades /\ r.record.value.sector \in Grades
                                       /\ r.record.value.absolute \in Grades
ASSUME PolicyAssumption ==
    /\ \A p \in Policies : PolicyIsSound(p) /\ \A e \in p.entry \cup p.holding \cup p.others : RecordsAreSound(e)
    /\ FirstCases \subseteq MetricCases
    /\ \A m \in MetricCases : /\ m.peers \in Nat /\ m.beaten \in Nat /\ m.tied \in Nat
                              /\ m.rules \in Seq([kind : {"all", "any"}, of : SUBSET (BOOLEAN \cup {None})])
                              /\ Len(m.rules) <= Len(Fractions)

VARIABLES policy,     \* the agent's mandate
          evidence,   \* the record of every evidence id
          live,       \* the holding evidence comes from the live adapter
          candidate,  \* its metrics
          score,      \* its score observation, None when there is none
          identity,   \* the score observation carries this agent and mandate
          changes
policyVars == <<policy, evidence, live, candidate, score, identity, changes>>

-------------------------------------------------------------------------------
(* evidenceReader: a record is read only when it is well formed, in order, *)
(* not from the future, fresh and of the type asked for.                   *)
InOrder(r) == r.observed <= r.retrieved /\ r.retrieved <= AsOf
Fresh(e) == LET r == evidence[e]
            IN  r.present /\ InOrder(r) /\ r.state = "fresh" /\ r.typed
NotApplicable(e) == LET r == evidence[e]
                    IN  r.present /\ InOrder(r) /\ r.state = "not_applicable" /\ r.value = None
Val(e) == evidence[e].value
Holds(e) == Fresh(e) /\ Val(e) = TRUE
Fails(e) == Fresh(e) /\ Val(e) = FALSE
Least(e, n) == Fresh(e) /\ Val(e) >= n

-------------------------------------------------------------------------------
(* The score, through evaluateMandateScore. *)
HasScore == score # None /\ identity
ScoreClears == /\ HasScore
               /\ score.available >= MinAvailable
               /\ ~score.critical /\ score.actionable
               /\ score.thin => score.total <= ThinPeerCap
               /\ score.total >= policy.floor
\* the tier of a score, counted from the best; 0 when it reaches none
Tier == IF ~HasScore THEN 0
        ELSE LET fit == {i \in DOMAIN policy.tiers :
                           score.total >= policy.tiers[i].min /\ score.total <= policy.tiers[i].max}
             IN  IF fit = {} THEN 0 ELSE Min(fit)

-------------------------------------------------------------------------------
(* Entry, size and additions. *)
MacroReadable == Fresh("spyClose") /\ Fresh("spy200DayAverage") /\ Fresh("treasuryYieldChange")
MarketRed == Val("spyClose") <= Val("spy200DayAverage")
RatesRed == Val("treasuryYieldChange") > 50
DualRed == MacroReadable /\ MarketRed /\ RatesRed
SingleRed == MacroReadable /\ (MarketRed # RatesRed)
TierAfterDualRed == IF DualRed /\ policy.macroBinds /\ Tier = 1 THEN 2 ELSE Tier
CappedTier == IF SingleRed /\ policy.macroBinds /\ Tier = 1 THEN 2 ELSE Tier

CommonEntry == /\ Val("securityEligible") /\ Val("balanceSheetEntryPass")
               /\ ~Val("criticalCredibilityEvent") /\ Val("companyDisclosureState") = "clear"
Liquid == LET floor == IF policy.agent = "agent-1" /\ Val("marketCapitalization") < policy.microCap
                       THEN policy.microVolume ELSE policy.volume
          IN  Val("averageDollarVolume") >= floor
Trending == CASE policy.agent = "agent-1" -> Val("currentPrice") > Val("price200DayAverage")
              [] policy.agent = "agent-2" -> /\ Val("currentPrice") > Val("price50DayAverage")
                                             /\ Val("price50DayAverage") > Val("price200DayAverage")
                                             /\ Val("marketCapitalization") >= policy.minCap
              [] OTHER -> TRUE
ValuedAssumingPeers == policy.agent = "agent-3" =>
            LET fraction == Cascade(Val("valuationCascade"))
                needed == IF HasScore /\ score.thin THEN 3 ELSE 2
            IN  fraction # None /\ fraction >= needed
Valued == policy.agent = "agent-3" =>
            LET fraction == Cascade(Val("valuationCascade"))
                needed == IF HasScore /\ ~score.thin THEN 2 ELSE 3
            IN  fraction # None /\ fraction >= needed
Voluminous == policy.agent # "agent-3" => Val("entryRelativeVolume") >= policy.relVolume
\* quarters on file; an estimate history too short is only noted, not refused
Documented == policy.agent = "agent-2" => /\ Val("revenueGrowthQuarters") >= 4
                                          /\ Val("epsGrowthQuarters") >= 2

HardGates == /\ \A e \in policy.entry : Fresh(e)
             /\ ~(DualRed /\ policy.macroBinds)
             /\ CommonEntry /\ Liquid /\ Trending /\ Voluminous /\ Documented /\ Valued
ResearchEligible == HardGates
EntryEligible == HardGates /\ ScoreClears

WithinCaps == /\ Val("projectedPositionWeightPct") <= policy.maxPosition
              /\ Val("projectedSectorWeightPct") <= policy.maxSector
              /\ policy.reserve # None => Fresh("projectedAttributedCashPct")
                                          /\ Val("projectedAttributedCashPct") >= policy.reserve
SizingEligible ==
    /\ EntryEligible
    /\ \A e \in SizingIds : Fresh(e)
    /\ CappedTier # 0 /\ Val("requestedWeightPct") <= policy.tiers[CappedTier].top
    /\ WithinCaps

\* agent-3 may average down once, on a fresh re-underwrite
ControlledAdd ==
    /\ \A e \in ControlledAddIds : Fresh(e)
    /\ Cardinality(Val("priorFilledAddIds")) < policy.lifetimeAdds
    /\ ProposedAddId \notin Val("priorFilledAddIds")
    /\ Val("thesisIntact") /\ Val("criticalDataComplete")
    /\ ~Val("liquidityExitCapacityWarning") /\ ~Val("companyNondisclosure")
    /\ Val("declineCause") \in {"market", "sector", "sentiment"}
    /\ HasScore /\ score.total >= policy.reunderwriteFloor
AddEligible ==
    /\ EntryEligible
    /\ \A e \in AddIds : Fresh(e)
    /\ Val("isExistingPosition") /\ Val("projectedWeightPct") <= policy.maxPosition
    /\ IF policy.lifetimeAdds = None THEN ~Val("isUnderwater") ELSE ControlledAdd

-------------------------------------------------------------------------------
(* Holdings. *)
Covered == \A e \in policy.holding : Fresh(e) \/ (e \in Nullable /\ NotApplicable(e))

\* instants count business days, those of the annual review calendar days
Unreviewed(event, review) == Fresh(event) /\ (~Fresh(review) \/ Val(review) < Val(event))
DueReviews ==
    {r \in {"daily", "weekly", "earnings", "event", "annual"} :
       CASE r = "daily" -> Fresh("lastCompletedSessionAt") /\ Fresh("lastDailyMonitorAt")
                           /\ Val("lastDailyMonitorAt") < Val("lastCompletedSessionAt")
         [] r = "weekly" -> Fresh("lastCompletedSessionAt") /\ Fresh("lastWeeklyRescoreAt")
                            /\ Val("lastCompletedSessionAt") - Val("lastWeeklyRescoreAt") >= 5
         [] r = "earnings" -> Unreviewed("latestEarningsAt", "lastEarningsReunderwriteAt")
         [] r = "event" -> Unreviewed("latestMaterialEventAt", "lastMaterialEventReunderwriteAt")
         [] r = "annual" -> policy.agent = "agent-3" /\ Fresh("lastAnnualReunderwriteAt")
                            /\ AsOf - Val("lastAnnualReunderwriteAt") >= 365}

NoExit == 0
ReviewRequired == 1
SellPartial == 2
SellFull == 3
If(p, action) == IF p THEN {action} ELSE {}

\* agent-1: stops in tenths of ATR, the dead trade ladder, the thesis
Atr == IF Least("atrFrom20SessionHigh", 25) /\ ~(Holds("epsTrendImproving") /\ Fails("fundamentalFullExitTrigger"))
         THEN {SellFull}
       ELSE IF Least("atrFrom20SessionHigh", 20) /\ Holds("relativeStrengthBroken") THEN {SellPartial}
       ELSE If(Least("atrFrom20SessionHigh", 15), ReviewRequired)
DeadTrade == IF ~Fails("thesisProgress") THEN {}
             ELSE IF Least("tradingDaysSinceEntry", 40) /\ Fails("datedCatalyst") THEN {SellFull}
             ELSE IF Least("tradingDaysSinceEntry", 30) THEN {SellPartial}
             ELSE If(Least("tradingDaysSinceEntry", 20), ReviewRequired)
Momentum == /\ Least("consecutiveClosesBelow50Day", 5) /\ Least("relativeStrengthDecliningWeeks", 4)
TrendBreak == IF ~Momentum THEN {}
              ELSE IF Holds("priceBelow200DayAverage") THEN {SellFull} ELSE {SellPartial}
Deteriorating == \/ Least("consecutiveRevenueDeceleration", 2)
                 \/ Least("consecutiveEpsDeceleration", 2) \/ Holds("guidanceTrajectoryReset")
Triggers ==
    CASE policy.agent = "agent-1" ->
           If(Holds("fundamentalFullExitTrigger"), SellFull) \cup Atr \cup DeadTrade
             \cup If(Holds("momentumDeteriorationTrigger"), SellPartial)
             \cup If(Least("convictionTierDrop", 1), SellPartial)
      [] policy.agent = "agent-2" ->
           TrendBreak \cup If(Deteriorating, SellFull)
             \cup If(Least("quartersFlatOrUnderperformingSpy", 2) /\ Fails("datedCatalyst"), SellFull)
             \cup If(Least("convictionTierDrop", 1), SellPartial)
      [] policy.agent = "agent-3" ->
           If(Holds("structuralFullExitTrigger"), SellFull)
             \cup If(Fresh("businessEvidenceScore") /\ Val("businessEvidenceScore") < 65, ReviewRequired)
             \cup If(Fresh("currentWeightPct") /\ Val("currentWeightPct") > 25, SellPartial)
             \cup If(Least("valuationPercentile", 90), SellPartial)

\* upgradeExit keeps the strongest action
Strongest == Max(Triggers \cup If(DueReviews # {}, ReviewRequired)
                   \cup If(Holds("criticalCredibilityEvent"), SellFull) \cup {NoExit})
HoldingAction == IF ~Covered /\ Strongest = NoExit THEN ReviewRequired ELSE Strongest
AdditionsFrozen == ~Covered \/ DueReviews # {}
CanQueue == Covered /\ HoldingAction \in {SellPartial, SellFull}

-------------------------------------------------------------------------------
(* Evidence arrives. *)
Unavailable == [present |-> TRUE, state |-> "unavailable", observed |-> AsOf, retrieved |-> AsOf,
                typed |-> TRUE, value |-> None]
\* what buildLiveHoldingMandateEvidence can fill today
LiveIds ==
    {"lastCompletedSessionAt", "lastDailyMonitorAt"} \cup
    CASE policy.agent = "agent-1" -> {"atrFrom20SessionHigh", "relativeStrengthBroken", "datedCatalyst",
                                      "tradingDaysSinceEntry", "momentumDeteriorationTrigger"}
      [] policy.agent = "agent-2" -> {"consecutiveClosesBelow50Day", "relativeStrengthDecliningWeeks",
                                      "priceBelow200DayAverage", "quartersFlatOrUnderperformingSpy",
                                      "datedCatalyst"}
      [] policy.agent = "agent-3" -> {"currentWeightPct"}

Ids == policy.entry \cup policy.holding \cup policy.others
Clean(e) == CHOOSE r \in Records[e] : r.clean
PolicyInit == /\ policy \in Policies /\ live \in BOOLEAN
              /\ evidence = [e \in Ids |-> IF \/ live /\ e \in policy.holding \ LiveIds
                                              \/ live /\ e = "momentumDeteriorationTrigger"
                                           THEN Unavailable ELSE Clean(e).record]
              /\ \E c \in FirstCases :
                   candidate = [metrics |-> [m \in Metrics |-> c], special |-> FALSE, override |-> FALSE]
              /\ score = IF live THEN None ELSE Observation(candidate)
              /\ identity = TRUE /\ changes = 0

Count == changes < MaxChanges /\ changes' = changes + 1
Observe(e) == /\ Count
              /\ live => e \in LiveIds \ {"lastDailyMonitorAt"}
              /\ \E r \in Records[e] :
                   /\ live /\ e = "momentumDeteriorationTrigger" => r.record.value # FALSE
                   /\ evidence' = [evidence EXCEPT ![e] = r.record]
              /\ UNCHANGED <<policy, live, candidate, score, identity>>
Rescore(m) == /\ Count /\ score # None
              /\ \E c \in MetricCases : candidate' = [candidate EXCEPT !.metrics[m] = c]
              /\ score' = Observation(candidate')
              /\ UNCHANGED <<policy, live, evidence, identity>>
Reclassify == /\ Count /\ score # None
              /\ \/ candidate' = [candidate EXCEPT !.special = ~@]
                 \/ candidate' = [candidate EXCEPT !.override = ~@]
              /\ score' = Observation(candidate')
              /\ UNCHANGED <<policy, live, evidence, identity>>
LoseScore == /\ Count
             /\ \/ score' = None /\ UNCHANGED identity
                \/ identity' = FALSE /\ UNCHANGED score
             /\ UNCHANGED <<policy, live, evidence, candidate>>
Settled == changes = MaxChanges /\ UNCHANGED policyVars

PolicyNext == \/ \E e \in Ids : Observe(e)
              \/ \E m \in Metrics : Rescore(m)
              \/ Reclassify \/ LoseScore \/ Settled
PolicySpec == PolicyInit /\ [][PolicyNext]_policyVars

-------------------------------------------------------------------------------
(* Losing a record, or the score, never opens anything: no entry, research *)
(* synthesis, size or addition becomes eligible, frozen additions stay     *)
(* frozen, no exit becomes queueable, and the holding is not declared      *)
(* free of exits.                                                          *)
Lost == \/ /\ evidence' # evidence
           /\ \E e \in Ids : evidence'[e] # evidence[e] /\ Fresh(e) /\ ~Fresh(e)' /\ ~NotApplicable(e)'
        \/ HasScore /\ ~HasScore'
UnreadableNeverHelps ==
    [][Lost => /\ EntryEligible' => EntryEligible
               /\ ResearchEligible' => ResearchEligible
               /\ SizingEligible' => SizingEligible
               /\ AddEligible' => AddEligible
               /\ AdditionsFrozen => AdditionsFrozen'
               /\ CanQueue' => CanQueue
               /\ HoldingAction' = NoExit => HoldingAction = NoExit]_policyVars

(* A stock whose peer set is thin is never sized as a top-tier position,   *)
(* with an operator's override or without it.                              *)
ThinPeersNeverTopTier == HasScore /\ score.thin /\ SizingEligible => CappedTier >= 2

(* A size passes only inside every bound it is subject to, whatever the    *)
(* score: under one red macro flag the top tier is out of reach of the     *)
(* mandates macro binds, and under two nothing passes.                     *)
SizeWithinMacro ==
    MacroReadable /\ (MarketRed \/ RatesRed) /\ policy.macroBinds /\ SizingEligible =>
      SingleRed /\ Val("requestedWeightPct") <= policy.tiers[2].top

(* A severe trigger that can be read ends the holding whatever else cannot *)
(* be read; an exit is queued only when all the evidence can be, which the *)
(* live adapter does not supply: its exits are reviews.                    *)
SevereTriggersDominate ==
    /\ \/ "criticalCredibilityEvent" \in policy.holding /\ Holds("criticalCredibilityEvent")
       \/ policy.agent = "agent-1" /\ Holds("fundamentalFullExitTrigger")
       \/ policy.agent = "agent-3" /\ Holds("structuralFullExitTrigger")
       => HoldingAction = SellFull
    /\ CanQueue => ~live /\ \A e \in policy.holding : Fresh(e) \/ e \in Nullable

(* What bounds a position's size and what ends it.                         *)
PositionIsBounded == ThinPeersNeverTopTier /\ SizeWithinMacro /\ SevereTriggersDominate
================================================================================
