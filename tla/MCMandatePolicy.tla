---------------------------- MODULE MCMandatePolicy ----------------------------
(* The three mandates of config/agents/mandate-policy.js on the records the *)
(* evidence may have: numbers on both sides of each threshold (ATR and      *)
(* relative volume in tenths, dollars in millions), and every way a record  *)
(* can be unreadable.  Instants count days back from the decision's.        *)
EXTENDS MandatePolicy, TLC

CONSTANTS m1, m2, m3
MCMetrics == {m1, m2, m3}
MCPoints == m1 :> 50 @@ m2 :> 30 @@ m3 :> 20
MCSpecial == {m2}

Tiers(a, b, c) == <<[min |-> 85, max |-> 100, top |-> a], [min |-> 65, max |-> 84, top |-> b],
                    [min |-> 45, max |-> 64, top |-> c]>>
Mandate(agent, floor, tiers, binds, position, sector, reserve, adds) ==
    [agent |-> agent, entry |-> EntryIds(agent), holding |-> HoldingIds(agent),
     others |-> OtherIds([reserve |-> reserve, lifetimeAdds |-> adds]), floor |-> floor, tiers |-> tiers,
     macroBinds |-> binds, microCap |-> 300, microVolume |-> 3, volume |-> 10, minCap |-> 300, relVolume |-> 12,
     maxPosition |-> position, maxSector |-> sector, reserve |-> reserve, lifetimeAdds |-> adds,
     reunderwriteFloor |-> 65]
MCPolicies ==
    {Mandate("agent-1", 45, Tiers(15, 10, 5), TRUE, 15, 75, 5, None),
     Mandate("agent-2", 45, Tiers(12, 8, 4), TRUE, 12, 60, 5, None),
     Mandate("agent-3", 65, SubSeq(Tiers(15, 10, 5), 1, 2), FALSE, 15, 60, None, 1)}

\* the readings of an id, the one of a clean file first
MCAsOf == 1000
Valuation(years, quarters, months, fraction) ==
    [known |-> TRUE, years |-> years, quarters |-> quarters, months |-> months, observations |-> 36,
     history |-> fraction, sectorCount |-> 8, sector |-> fraction, absolute |-> fraction]
Readings(e) ==
    CASE e \in {"securityEligible", "balanceSheetEntryPass", "epsTrendImproving", "thesisProgress",
                "datedCatalyst", "isExistingPosition", "thesisIntact", "criticalDataComplete"} -> <<TRUE, FALSE>>
      [] e = "companyDisclosureState" -> <<"clear", "company_nondisclosure">>
      [] e = "declineCause" -> <<"market", "company">>
      [] e = "valuationCascade" -> <<Valuation(3, 12, 0, 3), Valuation(3, 0, 36, 2), Valuation(1, 12, 0, 2)>>
      [] e = "averageDollarVolume" -> <<10, 5, 2>>
      [] e = "marketCapitalization" -> <<500, 200>>
      [] e = "currentPrice" -> <<60, 50, 40>>
      [] e = "price50DayAverage" -> <<50, 60>>
      [] e = "price200DayAverage" -> <<40, 60>>
      [] e = "entryRelativeVolume" -> <<12, 11>>
      [] e = "revenueGrowthQuarters" -> <<4, 3>>
      [] e = "epsGrowthQuarters" -> <<2, 1>>
      [] e = "spyClose" -> <<50, 40>>
      [] e = "spy200DayAverage" -> <<40, 50>>
      [] e = "treasuryYieldChange" -> <<50, 51>>
      [] e = "lastCompletedSessionAt" -> <<999, 1000>>
      [] e = "lastDailyMonitorAt" -> <<999, 998>>
      [] e = "lastWeeklyRescoreAt" -> <<995, 994>>
      [] e \in {"latestEarningsAt", "latestMaterialEventAt"} -> <<900, 950>>
      [] e \in {"lastEarningsReunderwriteAt", "lastMaterialEventReunderwriteAt"} -> <<900, 899>>
      [] e = "lastAnnualReunderwriteAt" -> <<636, 635>>
      [] e = "atrFrom20SessionHigh" -> <<10, 15, 20, 25>>
      [] e = "tradingDaysSinceEntry" -> <<19, 20, 30, 40>>
      [] e = "convictionTierDrop" -> <<0, 1>>
      [] e = "consecutiveClosesBelow50Day" -> <<4, 5>>
      [] e = "relativeStrengthDecliningWeeks" -> <<4, 3>>
      [] e \in {"consecutiveRevenueDeceleration", "consecutiveEpsDeceleration",
                "quartersFlatOrUnderperformingSpy"} -> <<1, 2>>
      [] e = "businessEvidenceScore" -> <<65, 64>>
      [] e = "currentWeightPct" -> <<25, 26>>
      [] e = "valuationPercentile" -> <<89, 90>>
      [] e \in {"requestedWeightPct", "projectedPositionWeightPct", "projectedWeightPct"} -> <<8, 12, 15, 16>>
      [] e = "projectedSectorWeightPct" -> <<60, 76>>
      [] e = "projectedAttributedCashPct" -> <<5, 4>>
      [] e = "priorFilledAddIds" -> <<{}, {"add-1"}>>
      [] e = "fullReunderwriteAt" -> <<999>>
      [] OTHER -> <<FALSE, TRUE>>

Entry(value, state, present, observed, retrieved, typed) ==
    [present |-> present, state |-> state, observed |-> observed, retrieved |-> retrieved,
     typed |-> typed, value |-> value]
\* these are also absent, observed after they were retrieved, or from the future
Disordered == {"currentPrice", "lastCompletedSessionAt", "convictionTierDrop", "structuralFullExitTrigger",
               "requestedWeightPct", "thesisIntact"}
MCRecords ==
    [e \in UNION {p.entry \cup p.holding \cup p.others : p \in MCPolicies} |->
       LET clean == Readings(e)[1]
       IN  {[record |-> Entry(Readings(e)[i], "fresh", TRUE, 998, 999, TRUE), clean |-> i = 1]
              : i \in DOMAIN Readings(e)}
           \cup {[record |-> r, clean |-> FALSE]
                   : r \in {Entry(clean, "stale", TRUE, 998, 999, TRUE), Entry(clean, "fresh", TRUE, 998, 999, FALSE),
                            Entry(None, "not_applicable", TRUE, 998, 999, TRUE)}
                           \cup IF e \notin Disordered THEN {}
                                ELSE {Entry(clean, "fresh", FALSE, 998, 999, TRUE),
                                      Entry(clean, "fresh", TRUE, 999, 998, TRUE),
                                      Entry(clean, "fresh", TRUE, 998, 1001, TRUE)}}]

Case(known, peers, beaten, tied, rules) ==
    [known |-> known, peers |-> peers, beaten |-> beaten, tied |-> tied, rules |-> rules]
Rules(top, next, known) ==
    <<[kind |-> "all", of |-> {top, known}], [kind |-> "all", of |-> {next}], [kind |-> "any", of |-> {next, known}]>>
Top == Rules(TRUE, TRUE, TRUE)
Strong == Case(TRUE, 10, 10, 0, Top)
Good == Case(TRUE, 8, 6, 0, Rules(FALSE, TRUE, TRUE))
Blended == Case(TRUE, 7, 7, 0, Top)
MCFirstCases == {Strong, Blended}
MCMetricCases == {Strong, Good, Blended, Case(TRUE, 10, 5, 1, Top), Case(TRUE, 5, 5, 0, Rules(FALSE, FALSE, TRUE)),
                  Case(FALSE, 10, 0, 0, Top), Case(TRUE, 5, 5, 0, Rules(TRUE, TRUE, None)),
                  Case(TRUE, 5, 5, 0, Rules(FALSE, FALSE, FALSE))}
================================================================================
