------------------------------ MODULE ShadowParity ------------------------------
(***************************************************************************)
(* The books in Redis and Sheets, their shadow in Postgres, and the daily  *)
(* comparison of the two.  A writer changes the books and then copies what *)
(* it wrote; the copy may fail (it is swallowed), come late, or never.  A  *)
(* rebuild copies what it read.  The comparison reads both sides domain by *)
(* domain while all of this goes on, and any of its reads may fail.  The   *)
(* proposals are a domain of many objects, each read by a call of its own, *)
(* and reading one that was left undecided too long expires it.            *)
(***************************************************************************)
EXTENDS Integers

CONSTANTS
    Proposals,      \* the proposals of the list in Redis
    Tables,         \* the other compared domains, each read as a whole
    Scribes,        \* processes that write or rebuild
    MaxValue,       \* bound: contents of an object; 0 is no object
    MaxWrites,      \* bound: changes of the books
    MaxLosses       \* bound: failed calls

VARIABLES
    books,          \* [Objects -> content]: Redis and Sheets
    quotes,         \* the quote snapshot behind the market values, on each side
    shadow,         \* [Objects -> content]: Postgres
    snapshots,      \* nav_snapshots: every content ever inserted
    scribe,         \* [Scribes -> what it is about to copy]
    check,          \* the comparison: what it has read, and what moved meanwhile
    writes, losses
parityVars == <<books, quotes, shadow, snapshots, scribe, check, writes, losses>>

ASSUME ParityConstants ==
    /\ Tables \subseteq {"positions", "lots", "capital_entries", "accounting_snapshot"}
    /\ Proposals \cap {"positions", "lots", "capital_entries", "accounting_snapshot", "proposals"} = {}

Nil == 0
Content == 0..MaxValue
Expired == MaxValue + 1     \* a proposal nobody decided in time
Objects == Proposals \cup Tables
Domains == Tables \cup {"proposals"}
Members(d) == IF d = "proposals" THEN Proposals ELSE {d}
AtRest == [pc |-> "idle", object |-> "none", content |-> Nil, quote |-> Nil]
(* The order in which gatherPostgresShadow reads its tables.               *)
PgOrder == [proposals |-> 1, positions |-> 2, lots |-> 3, capital_entries |-> 4, accounting_snapshot |-> 5]
(* left and right: what was read of each object; unread: the domains with  *)
(* an error; stale and expired: proposals being expired on the way; blind: *)
(* proposals dropped for a failed read; moved: what changed meanwhile.     *)
NoCheck == [pc |-> "idle", left |-> [x \in {} |-> Nil], right |-> [x \in {} |-> Nil], unread |-> {},
            quotes |-> [left |-> Nil, right |-> Nil], stale |-> {}, expired |-> {}, blind |-> {}, moved |-> {},
            matched |-> {}, ok |-> FALSE]
(* Written under the holdings-sync or accounting lock, one writer at a time.*)
Serial == {"lots", "positions", "accounting_snapshot"}

ParityInit ==
    /\ books = [x \in Objects |-> Nil] /\ shadow = books /\ quotes = [left |-> Nil, right |-> Nil] /\ snapshots = {}
    /\ scribe = [w \in Scribes |-> AtRest] /\ check = NoCheck /\ writes = 0 /\ losses = 0

Answered == UNCHANGED losses
Unanswered == losses < MaxLosses /\ losses' = losses + 1
Moved(x) == check' = IF check.pc # "idle" THEN [check EXCEPT !.moved = @ \cup {x}] ELSE check

-------------------------------------------------------------------------------
(* The authoritative write.  Capital entries are appended and never        *)
(* changed; the others are replaced, a proposal by one who expires it too. *)
WritesBooks(w) ==
    /\ scribe[w].pc = "idle" /\ writes < MaxWrites /\ writes' = writes + 1
    /\ \E x \in Objects, v \in (Content \cup {Expired}) \ {Nil}, q \in Content :
          /\ v # books[x] /\ (x = "capital_entries" => books[x] = Nil) /\ (x # "positions" => q = Nil)
          /\ IF x \in Proposals THEN books[x] # Expired /\ (v = Expired => books[x] # Nil) ELSE v # Expired
          /\ x \in Serial => \A u \in Scribes : scribe[u].pc = "rebuild" \/ scribe[u].object # x
          /\ books' = [books EXCEPT ![x] = v] /\ quotes' = IF x = "positions" THEN [quotes EXCEPT !.left = q] ELSE quotes
          /\ scribe' = [scribe EXCEPT ![w] = [pc |-> "copy", object |-> x, content |-> v, quote |-> q]] /\ Moved(x)
    /\ UNCHANGED <<shadow, snapshots, losses>>
(* db-backfill.mjs and refresh-shadow-positions.js read and copy, under no *)
(* lock; the backfill copies positions without their quotes.               *)
ReadsForRebuild(w) ==
    /\ scribe[w].pc = "idle" /\ Answered
    /\ \E x \in Objects, q \in {Nil, quotes.left} :
          /\ books[x] # Nil /\ (x # "positions" => q = Nil)
          /\ scribe' = [scribe EXCEPT ![w] = [pc |-> "rebuild", object |-> x, content |-> books[x], quote |-> q]]
    /\ UNCHANGED <<books, quotes, shadow, snapshots, check, writes>>

(* The copy, by the statement of its table: upserts for proposals, lots    *)
(* and positions (all of them in one transaction), an insert that gives    *)
(* way for capital entries, and one that skips a snapshot already there.   *)
Copied(x, v) ==
    CASE x = "capital_entries" -> IF shadow[x] = Nil THEN v ELSE shadow[x]
      [] x = "accounting_snapshot" -> IF v \in snapshots THEN shadow[x] ELSE v
      [] OTHER -> v
RunShadowOperation(w) ==
    /\ scribe[w].pc \in {"copy", "rebuild"} /\ scribe' = [scribe EXCEPT ![w] = AtRest]
    /\ LET x == scribe[w].object  v == scribe[w].content
       IN  \/ /\ Answered /\ shadow' = [shadow EXCEPT ![x] = Copied(x, v)] /\ Moved(x)
              /\ snapshots' = IF x = "accounting_snapshot" THEN snapshots \cup {v} ELSE snapshots
              /\ quotes' = IF x = "positions" THEN [quotes EXCEPT !.right = scribe[w].quote] ELSE quotes
           \/ Unanswered /\ UNCHANGED <<shadow, snapshots, quotes, check>>
    /\ UNCHANGED <<books, writes>>

-------------------------------------------------------------------------------
(* runParityCheck: both sides are gathered at once.  A comparison changes  *)
(* nothing the next one reads but the proposals it expires, as any reader  *)
(* of the list does, so one of them stands for all.                        *)
StartCheck ==
    /\ check.pc = "idle" /\ check' = [check EXCEPT !.pc = "reading"]
    /\ UNCHANGED <<books, quotes, shadow, snapshots, scribe, writes, losses>>
Reads(side, S, found) == [x \in DOMAIN side \cup S |-> IF x \in S THEN found[x] ELSE side[x]]
Nothing == [x \in Objects |-> Nil]
Lapsed == [p \in Proposals |-> Expired]
ToGet == Proposals \ (DOMAIN check.left \cup check.stale \cup check.expired)

(* listAllProposals: no list, no proposals; a proposal whose own read      *)
(* fails is dropped and the others are listed.                             *)
ListFails ==
    /\ check.pc = "reading" /\ ToGet = Proposals /\ Unanswered
    /\ check' = [check EXCEPT !.left = Reads(@, Proposals, Nothing), !.blind = Proposals]
    /\ UNCHANGED <<books, quotes, shadow, snapshots, scribe, writes>>
GetProposal(p) ==
    /\ check.pc = "reading" /\ p \in ToGet
    /\ \/ Answered /\ check' = [check EXCEPT !.left = Reads(@, {p}, books)]
       \/ /\ Answered /\ books[p] \notin {Nil, Expired}
          /\ check' = [check EXCEPT !.stale = @ \cup {p}, !.moved = @ \cup {p}]
       \/ Unanswered /\ check' = [check EXCEPT !.left = Reads(@, {p}, Nothing), !.blind = @ \cup {p}]
    /\ UNCHANGED <<books, quotes, shadow, snapshots, scribe, writes>>
(* expireProposalIfNeeded: Redis, then the shadow; a failure of either is  *)
(* swallowed and the expired copy is what is compared.                     *)
ExpireProposal(p) ==
    /\ check.pc = "reading" /\ p \in check.stale
    /\ \/ /\ Answered /\ books' = [books EXCEPT ![p] = Expired]
          /\ check' = [check EXCEPT !.stale = @ \ {p}, !.expired = @ \cup {p}]
       \/ /\ Unanswered /\ books' \in {books, [books EXCEPT ![p] = Expired]}
          /\ check' = [check EXCEPT !.stale = @ \ {p}, !.left = Reads(@, {p}, Lapsed)]
    /\ UNCHANGED <<quotes, shadow, snapshots, scribe, writes>>
ShadowExpired(p) ==
    /\ check.pc = "reading" /\ p \in check.expired
    /\ check' = [check EXCEPT !.expired = @ \ {p}, !.left = Reads(@, {p}, Lapsed)]
    /\ \/ Answered /\ shadow' = [shadow EXCEPT ![p] = Expired]
       \/ Unanswered /\ UNCHANGED shadow
    /\ UNCHANGED <<books, quotes, snapshots, scribe, writes>>
(* The sheets are read together after the proposals; one failed read       *)
(* spoils all of them.                                                     *)
GatherSheets ==
    /\ check.pc = "reading" /\ Proposals \subseteq DOMAIN check.left
    /\ \/ /\ Answered
          /\ \E d \in Tables \ DOMAIN check.left :
                check' = [check EXCEPT !.left = Reads(@, {d}, books),
                                       !.quotes.left = IF d = "positions" THEN quotes.left ELSE @]
       \/ /\ Unanswered /\ Tables \ DOMAIN check.left # {}
          /\ check' = [check EXCEPT !.left = Reads(@, Tables, Nothing), !.unread = @ \cup Tables]
    /\ UNCHANGED <<books, quotes, shadow, snapshots, scribe, writes>>
GatherAuthoritativeState ==
    \/ ListFails \/ GatherSheets
    \/ \E p \in Proposals : GetProposal(p) \/ ExpireProposal(p) \/ ShadowExpired(p)
(* gatherPostgresShadow: table after table, each with its own error.       *)
PgLeft == {d \in Domains : ~(Members(d) \subseteq DOMAIN check.right)}
GatherPostgresShadow ==
    /\ check.pc = "reading"
    /\ \E d \in PgLeft :
          /\ \A e \in PgLeft : PgOrder[d] <= PgOrder[e]
          /\ \/ Answered /\ check' = [check EXCEPT !.right = Reads(@, Members(d), shadow),
                                                !.quotes.right = IF d = "positions" THEN quotes.right ELSE @]
             \/ Unanswered /\ check' = [check EXCEPT !.right = Reads(@, Members(d), Nothing), !.unread = @ \cup {d}]
    /\ UNCHANGED <<books, quotes, shadow, snapshots, scribe, writes>>

(* What the two sides agree on.  No accounting snapshot on a side is an    *)
(* error of that side, not an empty inventory.                             *)
CompareParity == {d \in Domains : \A x \in Members(d) : check.left[x] = check.right[x]}
FailClosedOnReadErrors(agreed) ==
    agreed \ (check.unread \cup {d \in {"accounting_snapshot"} \cap Tables : Nil \in {check.left[d], check.right[d]}})
(* Market values are comparable only under the same quote snapshot; under  *)
(* it they follow the shares.                                              *)
ComparePositionValuation ==
    IF "positions" \notin Tables THEN "EXACT_MATCH"
    ELSE IF "positions" \in check.unread THEN "UNREADABLE"
    ELSE IF Nil \in {check.quotes.left, check.quotes.right} THEN "NON_COMPARABLE"
    ELSE IF check.quotes.left # check.quotes.right THEN "PROVENANCE_MISMATCH"
    ELSE IF check.left["positions"] = check.right["positions"] THEN "EXACT_MATCH" ELSE "VALUE_MISMATCH"
(* A plausible slip: the error of a side is compared like its inventory.   *)
RunParityCheckOpen ==
    /\ check.pc = "reading" /\ DOMAIN check.left = Objects /\ DOMAIN check.right = Objects
    /\ check' = [check EXCEPT !.pc = "done", !.matched = CompareParity, !.ok = CompareParity = Domains]
    /\ UNCHANGED <<books, quotes, shadow, snapshots, scribe, writes, losses>>
RunParityCheck ==
    /\ check.pc = "reading" /\ DOMAIN check.left = Objects /\ DOMAIN check.right = Objects
    /\ LET matched == FailClosedOnReadErrors(CompareParity)
       IN  check' = [check EXCEPT !.pc = "done", !.matched = matched,
                                  !.ok = matched = Domains /\ ComparePositionValuation \notin {"VALUE_MISMATCH", "UNREADABLE"}]
    /\ UNCHANGED <<books, quotes, shadow, snapshots, scribe, writes, losses>>

ParityNext ==
    \/ \E w \in Scribes : WritesBooks(w) \/ ReadsForRebuild(w) \/ RunShadowOperation(w)
    \/ StartCheck \/ GatherAuthoritativeState \/ GatherPostgresShadow \/ RunParityCheck
ParitySpec == ParityInit /\ [][ParityNext]_parityVars

-------------------------------------------------------------------------------
(* What the two sides of an object are to each other, as the comparison    *)
(* can tell: a proposal it could not read counts as absent, and a side     *)
(* without an accounting snapshot is in error.                             *)
InStep(x) ==
    IF x \in check.blind THEN shadow[x] = Nil
    ELSE books[x] = shadow[x] /\ (x = "accounting_snapshot" => books[x] # Nil)
(* The verdict tells the truth about everything that stood still while it  *)
(* was taken: a domain it matches was read on both sides and every object  *)
(* of it is in step, a domain it does not match was not read or has one    *)
(* that is not, and it says MATCH only of every domain.  "Missing/         *)
(* unreadable stores are divergences, never an empty successful sample"    *)
(* (parity-runner.js) holds of tables and sheets, but not of proposals:    *)
(* listAllProposals drops the ones it cannot read, all of them when it     *)
(* cannot read the list, and a shadow that lacks them too matches.         *)
VerdictIsTrue ==
    check.pc = "done" =>
        /\ check.ok => check.matched = Domains
        /\ \A d \in Domains :
              /\ d \in check.matched =>
                    d \notin check.unread /\ \A x \in Members(d) \ check.moved : InStep(x)
              /\ d \notin check.matched \cup check.unread /\ Members(d) \cap check.moved = {} =>
                    \E x \in Members(d) : ~InStep(x)
===============================================================================
