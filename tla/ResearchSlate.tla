---------------------------- MODULE ResearchSlate ----------------------------
(***************************************************************************)
(* How one agent's scan narrows the universe to the names it reviews: the  *)
(* ownership projection, the mandate screen of the catalog, the day's      *)
(* slate, the same screen on the freshly fetched facts, the priority of    *)
(* the review slots and the peer cohort every review needs.                *)
(*                                                                         *)
(* One case is one agent on one day.  Names are compared by number, so the *)
(* ticker order of the code is <.  A missing number is Missing.             *)
(***************************************************************************)
EXTENDS Integers, Sequences, FiniteSets, SequencesExt, FiniteSetsExt

CONSTANTS
    Cases,          \* the days a scan may meet, see the fields used below
    SlateSize,      \* universe.json slateSize
    ReviewBudget,   \* universe.json aiReviewBudget
    Exploration,    \* universe.json explorationSlots
    Cooldown,       \* universe.json researchCooldownDays
    ScanLimit,      \* selectMarketScanTickers: at most this many
    MicroCap,       \* below this capitalization a company is a micro cap
    MicroFloor,     \* Agent One's dollar volume floor for a micro cap
    VolumeFloor,    \* every agent's ordinary dollar volume floor
    CapFloor,       \* Agent Two's capitalization floor
    RecordYears,    \* Agent Three's years of public record
    PeerRelativeMin, \* peers of the industry that make it the cohort
    PeersNeeded     \* the smallest usable peer cohort

Missing == -1

ASSUME SlateAssumption ==
    /\ {SlateSize, ReviewBudget, Exploration, Cooldown, ScanLimit} \subseteq Nat
    /\ ReviewBudget > 0 /\ PeersNeeded \in Nat \ {0} /\ PeerRelativeMin \in Nat

(* A day's lots and catalog are finite, its tickers are numbers and so are *)
(* the figures names are ranked and scored by; the watchlist and the tab   *)
(* of movers are read with each name once.                                 *)
CaseFits(c) ==
    /\ IsFiniteSet(c.lots) /\ \A l \in c.lots : l.ticker \in Nat
    /\ IsFiniteSet(DOMAIN c.catalog) /\ DOMAIN c.catalog \subseteq Nat
    /\ \A t \in DOMAIN c.catalog : /\ {c.catalog[t].cap, c.catalog[t].volume} \subseteq Int
                                   /\ c.catalog[t].change \in Int /\ c.score[t] \in Int
    /\ c.movers \in Seq(Nat) /\ IsInjective(c.movers) /\ c.watchlist \in Seq(Nat) /\ IsInjective(c.watchlist)
    /\ c.day \in Nat
ASSUME CaseAssumption == \A c \in Cases : CaseFits(c)

VARIABLES
    case,   \* the day
    pick    \* how far the narrowing is, and what it kept
slateVars == <<case, pick>>

Larger(a, b) == IF a > b THEN a ELSE b
FirstOf(s, n) == SubSeq(s, 1, IF n < Len(s) THEN n ELSE Len(s))
(* A finite set in the order that puts before[t] ahead of t, the elements  *)
(* of a sequence that are in S, and those that are not, in their order.    *)
InOrder(S, before) == [i \in 1 .. Cardinality(S) |-> CHOOSE t \in S : Cardinality(before[t]) = i - 1]
Ascending(S) == InOrder(S, [t \in S |-> {u \in S : u < t}])
Only(s, S) == LET at == Ascending({i \in DOMAIN s : s[i] \in S}) IN [k \in DOMAIN at |-> s[at[k]]]
Without(s, S) == Only(s, ToSet(s) \ S)
Nothing == [pc |-> "owned", held |-> {}, movers |-> <<>>, universe |-> <<>>, explore |-> <<>>, eligible |-> <<>>,
            slots |-> <<>>, reviewed |-> <<>>, deferred |-> 0, verdict |-> "none"]

-------------------------------------------------------------------------------
(* Ownership: an agent owns what its open lots say, and the lots of all    *)
(* agents together must be what the Holdings tab shows.                    *)
OwnershipMismatch(c) ==
    \E t \in DOMAIN c.holdings \cup {l.ticker : l \in c.lots} :
        (IF t \in DOMAIN c.holdings THEN c.holdings[t] ELSE 0)
            # MapThenSumSet(LAMBDA l : l.shares, {k \in c.lots : k.ticker = t})
ProjectAgentOwnedHoldings(c) == {l.ticker : l \in {k \in c.lots : k.agent = c.agent /\ k.shares > 0}}

(* The mandate screen.  It reads three facts and refuses one it misses.    *)
Passes(agent, f) ==
    /\ f.volume # Missing
    /\ CASE agent = "agent-1" ->
                f.cap # Missing /\ f.volume >= IF f.cap < MicroCap THEN MicroFloor ELSE VolumeFloor
         [] agent = "agent-2" -> f.cap # Missing /\ f.cap >= CapFloor /\ f.volume >= VolumeFloor
         [] agent = "agent-3" -> f.years # Missing /\ f.years >= RecordYears /\ f.volume >= VolumeFloor
         [] OTHER -> FALSE
ScreenCatalog(c) == {t \in DOMAIN c.catalog : Passes(c.agent, c.catalog[t])}

(* The attention order of the screened names.                              *)
Preferred(f) == f.cap # Missing /\ f.cap >= MicroCap
Attention(c, t) ==
    LET f == c.catalog[t] IN
    CASE c.agent = "agent-1" -> <<IF Preferred(f) THEN 1 ELSE 0, f.change>>
      [] c.agent = "agent-2" -> <<f.change, f.volume>>
      [] OTHER -> <<f.cap, f.volume>>
Outranks(c, t, u) ==
    LET a == Attention(c, t) b == Attention(c, u) IN
    \/ a[1] > b[1]
    \/ a[1] = b[1] /\ (a[2] > b[2] \/ (a[2] = b[2] /\ t < u))
RankScreenedCandidates(c, S) == InOrder(S, [t \in S |-> {u \in S : Outranks(c, u, t)}])

(* The movers: names the Market Scans tab has for the agent that are not   *)
(* on the list it already has, in the order of the tab.                    *)
SelectMarketScanTickers(c, known) ==
    FirstOf(Without(c.movers, known), ScanLimit)

-------------------------------------------------------------------------------
(* The day's slate: holdings always, movers while there is room, then the  *)
(* ranked names outside their cooldown, what is left kept for a rotation   *)
(* through the names nobody has researched.                                *)
Bucket(S, b) == [i \in 1 .. Len(S) |-> [ticker |-> S[i], bucket |-> b]]
Tickers(slate) == {slate[i].ticker : i \in 1 .. Len(slate)}

Rotation(c, fresh) ==
    LET order == Ascending(fresh) n == Len(order)
        many == IF Exploration < n THEN Exploration ELSE n
    IN  [i \in 1 .. many |-> order[((c.day + i - 1) % n) + 1]]

BuildSlate(c, held, movers) ==
    LET first   == Bucket(Ascending(held), "holdings")
        room    == Larger(SlateSize - Len(first), 0)
        start   == first \o Bucket(FirstOf(Without(movers, held), room), "movers")
        open    == ScreenCatalog(c) \ Tickers(start)
        explore == Rotation(c, {t \in open : t \notin DOMAIN c.ledger})
        cool    == {t \in open : t \in DOMAIN c.ledger /\ c.day - c.ledger[t] < Cooldown}
        ranked  == RankScreenedCandidates(c, (open \ ToSet(explore)) \ cool)
        budget  == Larger(SlateSize - Len(start) - Len(explore), 0)
        filled  == start \o Bucket(FirstOf(ranked, budget), "ranked")
    IN  filled \o Bucket(FirstOf(explore, Larger(SlateSize - Len(filled), 0)), "exploration")

(* Facts of a freshly fetched candidate: a quote has a capitalization and  *)
(* its bars a volume, but nothing gives it a listing date.                 *)
FreshFacts(c, t) == [c.catalog[t] EXCEPT !.years = Missing]

-------------------------------------------------------------------------------
(* A plausible slip: the budget holds for the holdings too.                *)
AddWithinBudget(slots, S, exempt) ==
    slots \o FirstOf(Without(S, ToSet(slots)), Larger(ReviewBudget - Len(slots), 0))
(* The slots of the AI review: holdings past any budget, then exploration, *)
(* movers and the best scores while the budget lasts.                      *)
AddToReview(slots, S, exempt) ==
    LET fresh == Without(S, ToSet(slots))
    IN  slots \o IF exempt THEN fresh
                 ELSE FirstOf(fresh, Larger(ReviewBudget - Len(slots), 0))
(* scoreCandidates sorts by score and leaves equal scores as they came.    *)
ByScore(c, s) ==
    LET ahead(i, j) == c.score[s[i]] > c.score[s[j]] \/ (c.score[s[i]] = c.score[s[j]] /\ i < j)
        at == InOrder(DOMAIN s, [j \in DOMAIN s |-> {i \in DOMAIN s : ahead(i, j)}])
    IN  [k \in DOMAIN at |-> s[at[k]]]
ToReview(c, p) ==
    LET eligible == ToSet(p.eligible)
        owned == AddToReview(<<>>, Only(Ascending(p.held), eligible), TRUE)
        tried == AddToReview(owned, Only(p.explore, eligible), FALSE)
        moved == AddToReview(tried, Only(p.movers, eligible), FALSE)
    IN  AddToReview(moved, ByScore(c, p.eligible), FALSE)

(* A review needs a cohort: the narrow industry when it has enough peers,  *)
(* else the wider of the two levels, and never fewer than PeersNeeded; and *)
(* enough figures of its own to be ranked in it.                           *)
ResolvePeerSet(p) == IF p.industry >= PeerRelativeMin THEN p.industry ELSE Larger(p.industry, p.sector)
AssessPeerCoverage(c, t) == t \in DOMAIN c.peers /\ ResolvePeerSet(c.peers[t]) >= PeersNeeded
Usable(c, t) == AssessPeerCoverage(c, t) /\ t \notin c.unscored
SelectPeerReadyCandidates(c, slots, eligible) ==
    LET ready(S) == Only(S, {t \in ToSet(S) : Usable(c, t)})
        backfill == Without(ready(ByScore(c, eligible)), ToSet(slots))
    IN  FirstOf(ready(slots) \o backfill, Len(slots))

-------------------------------------------------------------------------------
SlateInit == case \in Cases /\ pick = Nothing

(* A mismatch between the lots and the Holdings tab stops the agent.       *)
ReadOwned ==
    /\ pick.pc = "owned"
    /\ pick' = IF OwnershipMismatch(case)
               THEN [pick EXCEPT !.pc = "done", !.verdict = "failed"]
               ELSE [pick EXCEPT !.pc = "slate", !.held = ProjectAgentOwnedHoldings(case)]

(* The catalog's slate, the holdings alone when the screen keeps nothing,  *)
(* or the seed list when the catalog is missing or rolled back.            *)
ChooseUniverse ==
    LET known  == IF case.mode = "catalog" THEN pick.held ELSE ToSet(case.watchlist)
        movers == SelectMarketScanTickers(case, known)
        slate  == BuildSlate(case, pick.held, movers)
        names  == [i \in DOMAIN slate |-> slate[i].ticker]
        tried  == {s.ticker : s \in {x \in ToSet(slate) : x.bucket = "exploration"}}
        listed == Ascending(pick.held) \o Without(case.watchlist, pick.held)
        seed   == listed \o Without(movers, ToSet(listed))
        uses(U, v) == [pick EXCEPT !.pc = "fresh", !.movers = movers, !.universe = U, !.verdict = v]
    IN
    /\ pick.pc = "slate"
    /\ pick' = CASE case.mode = "catalog" /\ case.bus /\ ScreenCatalog(case) # {} ->
                        [uses(names, "complete") EXCEPT !.explore = Only(names, tried)]
                 [] case.mode = "catalog" /\ case.bus /\ ScreenCatalog(case) = {} ->
                        uses(Ascending(pick.held), "degraded")
                 [] OTHER -> uses(seed, IF case.mode = "watchlist" THEN "legacy" ELSE "degraded")

(* The names with market data pass the screen again; a holding that does   *)
(* not is monitored all the same, after those that do.                     *)
FreshScreen ==
    LET fetched == Only(pick.universe, DOMAIN case.catalog \ case.noData)
        passed  == Only(fetched, {t \in DOMAIN case.catalog : Passes(case.agent, FreshFacts(case, t))})
        mandatory == Without(Only(fetched, pick.held), ToSet(passed))
    IN
    /\ pick.pc = "fresh"
    /\ pick' = [pick EXCEPT !.pc = "review", !.eligible = passed \o mandatory]

SelectReviews ==
    LET slots == ToReview(case, pick)
        chosen == SelectPeerReadyCandidates(case, slots, pick.eligible)
    IN
    /\ pick.pc = "review"
    /\ pick' = [pick EXCEPT !.pc = "done", !.slots = slots, !.reviewed = chosen,
                            !.deferred = Cardinality({t \in ToSet(slots) : ~ Usable(case, t)})]

SlateNext == (ReadOwned \/ ChooseUniverse \/ FreshScreen \/ SelectReviews) /\ UNCHANGED case
SlateSpec == SlateInit /\ [][SlateNext]_slateVars

-------------------------------------------------------------------------------
Reviewed == ToSet(pick.reviewed)
Decided == pick.pc = "done" /\ pick.verdict # "failed"

(* A position is never left unwatched because other names filled the day:  *)
(* a holding with market data and a usable cohort is reviewed, whatever    *)
(* the budget, the slate size and the screens say, and a holding that is   *)
(* not reviewed is counted as deferred or had no market data.              *)
HoldingsWatched ==
    Decided => \A t \in pick.held : \/ t \in Reviewed
                                    \/ t \in case.noData \/ t \notin DOMAIN case.catalog
                                    \/ t \in ToSet(pick.slots) /\ ~ Usable(case, t)

(* No name reaches the model without the cohort its score is relative to,  *)
(* and the backfill of deferred names never takes more calls than the      *)
(* slots that were granted.                                                *)
NoReviewWithoutCohort ==
    Decided => /\ \A t \in Reviewed : Usable(case, t)
               /\ Len(pick.reviewed) <= Larger(ReviewBudget, Cardinality(pick.held))

(* A new position can only come from the mandate's own universe: a name    *)
(* the agent does not hold is reviewed only if it passes the mandate's     *)
(* screen on the facts fetched that day.                                   *)
DiscoveryIsScreened ==
    Decided => \A t \in Reviewed \ pick.held : Passes(case.agent, FreshFacts(case, t))

(* All of the day's slate.                                                 *)
SlateIsSound == HoldingsWatched /\ NoReviewWithoutCohort /\ DiscoveryIsScreened

(* What research-scan.js says of the second screen: it is the same screen, *)
(* re-applied to fresh facts.  So a name whose facts did not change        *)
(* overnight passes it again.                                              *)
SameScreenSameVerdict ==
    pick.pc \in {"review", "done"} /\ pick.verdict = "complete" =>
        \A t \in ToSet(pick.universe) :
            t \in ScreenCatalog(case) /\ t \notin case.noData => t \in ToSet(pick.eligible)
===============================================================================
