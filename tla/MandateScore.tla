----------------------------- MODULE MandateScore -----------------------------
(***************************************************************************)
(* The mandate conviction score: each metric is ranked among its peers,    *)
(* held to an absolute table, or half of each, by how many peers it has;   *)
(* what is missing leaves the score's numerator and denominator, and a     *)
(* thin peer set caps the total.                                           *)
(*                                                                         *)
(* A fraction is counted in quarters, 0 .. 4, and points in eighths, so    *)
(* that a blend of two fractions stays whole.  None stands for null.       *)
(***************************************************************************)
EXTENDS FiniteSetsExt, Totals

CONSTANTS Metrics,   \* the metrics of a mandate's categories
          Points,    \* points of a metric; they add up to 100
          Special,   \* metrics a special sector replaces by its own table
          None

ASSUME ScoreAssumption ==
    /\ IsFiniteSet(Metrics) /\ Points \in [Metrics -> Nat \ {0}] /\ Special \subseteq Metrics
    /\ None \notin Int

PeerRelativeMin == 8
BlendedMin == 6
ThinPeerCap == 84
MinAvailable == 80

Mode(peers) == CASE peers >= PeerRelativeMin -> "peer_relative"
                 [] peers >= BlendedMin /\ peers < PeerRelativeMin -> "blended_50_50"
                 [] OTHER -> "absolute"

\* the band of a percentile num / den
Band(num, den) ==
    CASE 10 * num >= 9 * den -> 4
      [] 10 * num < 9 * den /\ 4 * num >= 3 * den -> 3
      [] 4 * num < 3 * den /\ 10000 * num >= 6667 * den -> 2
      [] 10000 * num < 6667 * den /\ 2 * num >= den -> 1
      [] OTHER -> 0

\* an absolute table: rules from the best band down, each a condition over the
\* evidence.  What cannot be evaluated is None, and a rule that cannot be
\* evaluated ends the search: no weaker band is awarded in its stead.
All(answers) == IF FALSE \in answers THEN FALSE ELSE IF None \in answers THEN None ELSE TRUE
AnyOf(answers) == IF TRUE \in answers THEN TRUE ELSE IF None \in answers THEN None ELSE FALSE
Condition(c) == IF c.kind = "all" THEN All(c.of) ELSE AnyOf(c.of)
Fractions == <<4, 3, 2>>
Absolute(rules) ==
    LET open == {i \in DOMAIN rules : Condition(rules[i]) # FALSE}
    IN  IF open = {} THEN 0
        ELSE IF Condition(rules[Min(open)]) = None THEN None ELSE Fractions[Min(open)]

\* a metric of a candidate: [known, peers, beaten, tied, rules]
PeerFraction(m) == IF ~m.known \/ m.peers = 0 THEN None ELSE Band(2 * m.beaten + m.tied, 2 * m.peers)
Eighths(m) ==
    LET peer == PeerFraction(m)
        absolute == Absolute(m.rules)
    IN  CASE Mode(m.peers) = "peer_relative" -> IF peer = None THEN None ELSE 2 * peer
          [] Mode(m.peers) = "blended_50_50" ->
               IF peer = None \/ absolute = None THEN None ELSE peer + absolute
          [] Mode(m.peers) = "absolute" -> IF absolute = None THEN None ELSE 2 * absolute

\* a candidate: a record of its metrics, whether its sector is special, and an override
Scored(c) == {m \in Metrics : Eighths(c.metrics[m]) # None}
Available(c) == Total(Points, Scored(c))
Earned(c) == Total([m \in Scored(c) |-> Points[m] * Eighths(c.metrics[m])], Scored(c))
Critical(c) == c.special /\ Special \ Scored(c) # {}
Thin(c) == \E m \in Metrics : Mode(c.metrics[m].peers) # "peer_relative"
Rounded(num, den) == (2 * num + den) \div (2 * den)
Capped(total, thin, override) == IF thin /\ ~override /\ total > ThinPeerCap THEN ThinPeerCap ELSE total
PointsTotal(c) == IF Available(c) = 0 THEN 0
                  ELSE Capped(Rounded(100 * Earned(c), 8 * Available(c)), Thin(c), c.override)
Actionable(c) == ~Critical(c) /\ Available(c) >= MinAvailable
\* what scoreMandateCandidate returns, the score observation that is stored
Observation(c) == [total |-> PointsTotal(c), available |-> Available(c), critical |-> Critical(c),
                   thin |-> Thin(c), actionable |-> Actionable(c)]

\* the valuation cascade: own history, by quarters or else by months, then the
\* sector, then the absolute table
OwnHistory(v) ==
    /\ v.years >= 3 /\ (v.quarters >= 12 \/ v.months >= 36)
    /\ v.observations >= IF v.quarters >= 12 THEN 12 ELSE 36
Cascade(v) ==
    CASE ~v.known -> None
      [] v.known /\ OwnHistory(v) -> v.history
      [] v.known /\ ~OwnHistory(v) /\ v.sectorCount >= 8 -> v.sector
      [] OTHER -> v.absolute
===============================================================================
