----------------------------- MODULE TotalsProofs -----------------------------
(***************************************************************************)
(* What the proofs about shares, spend and capital need to know of a sum:  *)
(* it is a natural number, it grows with its amounts, it splits over sets  *)
(* that have nothing in common, over owners and over amounts that are      *)
(* added, it does not mind a renaming, and it keeps the books of a run of  *)
(* additions and withdrawals; and that a set of naturals has a least       *)
(* element, which stands for induction.                                    *)
(***************************************************************************)
EXTENDS Totals, FiniteSetTheorems, WellFoundedInduction, TLAPS

\* A pair stands for one unit of one amount.
LEMMA UnitIs ==
  ASSUME NEW f, NEW S, NEW u
  PROVE  u \in Units(f, S) <=> \E c \in S : \E n \in 1 .. f[c] : u = <<c, n>>
  BY DEF Units

\* Two functions of the same amounts have the same units.
LEMMA TotalSame ==
  ASSUME NEW f, NEW g, NEW S, \A c \in S : f[c] = g[c]
  PROVE  Total(f, S) = Total(g, S)
  <1>1. Units(f, S) = Units(g, S)
    BY DEF Units
  <1> QED BY <1>1 DEF Total

\* The units of finitely many amounts are a finite set.
LEMMA UnitsFinite ==
  ASSUME NEW S, IsFiniteSet(S), NEW f, \A c \in S : f[c] \in Nat
  PROVE  IsFiniteSet(Units(f, S))
  <1> DEFINE Rows == {{c} \X (1 .. f[c]) : c \in S}
             row == [c \in S |-> {c} \X (1 .. f[c])]
  <1>1. row \in Surjection(S, Rows)
    BY DEF Surjection
  <1>2. IsFiniteSet(Rows)
    BY <1>1, FS_Surjection
  <1>3. ASSUME NEW T \in Rows PROVE IsFiniteSet(T)
    <2>1. PICK c \in S : T = {c} \X (1 .. f[c])
      OBVIOUS
    <2>2. f[c] \in Nat /\ 1 \in Int /\ f[c] \in Int
      OBVIOUS
    <2>3. IsFiniteSet({c})
      BY FS_Singleton
    <2>4. IsFiniteSet(1 .. f[c])
      BY <2>2, FS_Interval
    <2> HIDE DEF Rows, row
    <2> QED BY <2>1, <2>3, <2>4, FS_Product
  <1> HIDE DEF Rows, row
  <1>4. IsFiniteSet(UNION Rows)
    BY <1>2, <1>3, FS_UNION
  <1> QED BY <1>4 DEF Units, Rows

\* A sum is a natural number.
LEMMA TotalType ==
  ASSUME NEW S, IsFiniteSet(S), NEW f, \A c \in S : f[c] \in Nat
  PROVE  Total(f, S) \in Nat
  BY UnitsFinite, FS_CardinalityType DEF Total

\* A sum grows with its amounts and with the set it is over.
LEMMA TotalGrows ==
  ASSUME NEW T, IsFiniteSet(T), NEW S \in SUBSET T, NEW f, NEW g,
         \A c \in S : f[c] \in Nat /\ f[c] <= g[c], \A c \in T : g[c] \in Nat
  PROVE  Total(f, S) <= Total(g, T)
  <1>1. ASSUME NEW u \in Units(f, S) PROVE u \in Units(g, T)
    <2>1a. PICK c \in S : \E n \in 1 .. f[c] : u = <<c, n>>
      BY UnitIs
    <2>1. PICK n \in 1 .. f[c] : u = <<c, n>>
      BY <2>1a
    <2>2. n \in 1 .. g[c]
      BY <2>1
    <2> QED BY <2>1, <2>2, UnitIs
  <1>2. IsFiniteSet(Units(g, T))
    BY UnitsFinite
  <1> QED BY <1>1, <1>2, FS_Subset DEF Total

\* The sum over two sets that have nothing in common.
LEMMA TotalSplits ==
  ASSUME NEW S, IsFiniteSet(S), NEW T, IsFiniteSet(T), S \cap T = {},
         NEW f, \A c \in S \cup T : f[c] \in Nat
  PROVE  Total(f, S \cup T) = Total(f, S) + Total(f, T)
  <1>1. Units(f, S \cup T) = Units(f, S) \cup Units(f, T)
    BY DEF Units
  <1>2. Units(f, S) \cap Units(f, T) = {}
    <2> SUFFICES ASSUME NEW u \in Units(f, S), u \in Units(f, T) PROVE FALSE
      OBVIOUS
    <2>1a. PICK c \in S : \E n \in 1 .. f[c] : u = <<c, n>>
      BY UnitIs
    <2>1. PICK n \in 1 .. f[c] : u = <<c, n>>
      BY <2>1a
    <2>2a. PICK d \in T : \E m \in 1 .. f[d] : u = <<d, m>>
      BY UnitIs
    <2>2. PICK m \in 1 .. f[d] : u = <<d, m>>
      BY <2>2a
    <2> QED BY <2>1, <2>2
  <1>3. IsFiniteSet(Units(f, S)) /\ IsFiniteSet(Units(f, T))
    BY UnitsFinite
  <1>4. Cardinality(Units(f, S) \cup Units(f, T))
          = Cardinality(Units(f, S)) + Cardinality(Units(f, T)) - 0
    BY <1>2, <1>3, FS_Union, FS_EmptySet
  <1>5. /\ Cardinality(Units(f, S)) \in Nat
        /\ Cardinality(Units(f, T)) \in Nat
    BY <1>3, FS_CardinalityType
  <1>6. /\ Total(f, S \cup T) = Cardinality(Units(f, S) \cup Units(f, T))
        /\ Total(f, S) = Cardinality(Units(f, S))
        /\ Total(f, T) = Cardinality(Units(f, T))
    BY <1>1, Zenon DEF Total
  <1> QED BY <1>4, <1>5, <1>6

\* No amounts add up to nothing, and one amount to itself.
LEMMA TotalOfNone == ASSUME NEW f PROVE Total(f, {}) = 0
  <1>1. Units(f, {}) = {}
    BY DEF Units
  <1> QED BY <1>1, FS_EmptySet DEF Total

LEMMA TotalOfOne ==
  ASSUME NEW f, NEW c, f[c] \in Nat
  PROVE  Total(f, {c}) = f[c]
  <1> DEFINE U == Units(f, {c})
             g == [n \in 1 .. f[c] |-> <<c, n>>]
  <1>1. g \in Bijection(1 .. f[c], U)
    <2>1. g \in [1 .. f[c] -> U]
      BY DEF Units
    <2>2. \A m, n \in 1 .. f[c] : g[m] = g[n] => m = n
      OBVIOUS
    <2>3. \A u \in U : \E n \in 1 .. f[c] : g[n] = u
      BY DEF Units
    <2> HIDE DEF U, g
    <2> QED BY <2>1, <2>2, <2>3 DEF Bijection, Injection, Surjection, IsInjective
  <1>2. ExistsBijection(1 .. f[c], U)
    BY <1>1 DEF ExistsBijection
  <1>3. Cardinality(U) = f[c]
    BY <1>2, FS_CountingElements
  <1> QED BY <1>3 DEF Total

\* Taking a part away, or adding one.
LEMMA TotalWithout ==
  ASSUME NEW S, IsFiniteSet(S), NEW D \in SUBSET S, NEW f, \A c \in S : f[c] \in Nat
  PROVE  Total(f, S) = Total(f, S \ D) + Total(f, D)
  <1>1. S = (S \ D) \cup D /\ (S \ D) \cap D = {} /\ IsFiniteSet(S \ D) /\ IsFiniteSet(D)
    BY FS_Subset
  <1> QED BY <1>1, TotalSplits

\* One amount changes: the sum changes by as much.
LEMMA TotalChanges ==
  ASSUME NEW S, IsFiniteSet(S), NEW f, NEW g, NEW d \in S,
         \A c \in S : f[c] \in Nat /\ g[c] \in Nat, \A c \in S \ {d} : g[c] = f[c]
  PROVE  Total(g, S) + f[d] = Total(f, S) + g[d]
  <1>1. Total(g, S \ {d}) = Total(f, S \ {d})
    BY TotalSame
  <1>2. Total(f, {d}) = f[d] /\ Total(g, {d}) = g[d]
    BY TotalOfOne
  <1>3. Total(f, S) = Total(f, S \ {d}) + f[d] /\ Total(g, S) = Total(g, S \ {d}) + g[d]
    <2>1. {d} \in SUBSET S /\ (\A c \in S : f[c] \in Nat) /\ (\A c \in S : g[c] \in Nat)
      OBVIOUS
    <2>2. Total(f, S) = Total(f, S \ {d}) + Total(f, {d})
      BY <2>1, TotalWithout
    <2>3. Total(g, S) = Total(g, S \ {d}) + Total(g, {d})
      BY <2>1, TotalWithout
    <2> QED BY <1>2, <2>2, <2>3
  <1>4. IsFiniteSet(S \ {d})
    BY FS_Subset
  <1>5. Total(f, S \ {d}) \in Nat
    BY <1>4, TotalType
  <1> QED BY <1>1, <1>3, <1>5

\* Amounts that are added amount by amount: the units of the second come
\* after those of the first.
LEMMA TotalAdds ==
  ASSUME NEW S, IsFiniteSet(S), NEW f, NEW g, NEW h,
         \A c \in S : f[c] \in Nat /\ g[c] \in Nat /\ h[c] = f[c] + g[c]
  PROVE  Total(h, S) = Total(f, S) + Total(g, S)
  <1> DEFINE Rest == Units(h, S) \ Units(f, S)
             shift == [u \in Units(g, S) |-> <<u[1], f[u[1]] + u[2]>>]
  <1>1. \A c \in S : h[c] \in Nat
    OBVIOUS
  <1>2. Units(f, S) \subseteq Units(h, S)
    <2> SUFFICES ASSUME NEW u \in Units(f, S) PROVE u \in Units(h, S)
      OBVIOUS
    <2>1a. PICK c \in S : \E n \in 1 .. f[c] : u = <<c, n>>
      BY UnitIs
    <2>1. PICK n \in 1 .. f[c] : u = <<c, n>>
      BY <2>1a
    <2>2. n \in 1 .. h[c]
      BY <2>1
    <2> QED BY <2>1, <2>2, UnitIs
  <1>3. ASSUME NEW u \in Rest
        PROVE  \E c \in S : \E n \in 1 .. g[c] : u = <<c, f[c] + n>>
    <2>1a. PICK c \in S : \E n \in 1 .. h[c] : u = <<c, n>>
      BY UnitIs
    <2>1. PICK n \in 1 .. h[c] : u = <<c, n>>
      BY <2>1a
    <2>2. n \notin 1 .. f[c]
      BY <2>1, UnitIs
    <2>3. n - f[c] \in 1 .. g[c] /\ n = f[c] + (n - f[c])
      BY <2>1, <2>2
    <2> QED BY <2>1, <2>3
  <1>4. ASSUME NEW c \in S, NEW n \in 1 .. g[c]
        PROVE  <<c, f[c] + n>> \in Rest
    <2>1. f[c] + n \in 1 .. h[c] /\ f[c] + n \notin 1 .. f[c]
      OBVIOUS
    <2>2. <<c, f[c] + n>> \in Units(h, S)
      BY <2>1, UnitIs
    <2>3. <<c, f[c] + n>> \notin Units(f, S)
      <3> SUFFICES ASSUME <<c, f[c] + n>> \in Units(f, S) PROVE FALSE
        OBVIOUS
      <3>1a. PICK d \in S : \E m \in 1 .. f[d] : <<c, f[c] + n>> = <<d, m>>
        BY UnitIs
      <3>1. PICK m \in 1 .. f[d] : <<c, f[c] + n>> = <<d, m>>
        BY <3>1a
      <3> QED BY <2>1, <3>1
    <2> QED BY <2>2, <2>3
  <1>5. shift \in Bijection(Units(g, S), Rest)
    <2>1. \A u \in Units(g, S) : \E c \in S : \E n \in 1 .. g[c] : u = <<c, n>> /\ shift[u] = <<c, f[c] + n>>
      BY UnitIs
    <2>2. shift \in [Units(g, S) -> Rest]
      <3>1. \A u \in Units(g, S) : shift[u] \in Rest
        BY <2>1, <1>4
      <3> QED BY <3>1
    <2>3. ASSUME NEW u \in Units(g, S), NEW v \in Units(g, S), shift[u] = shift[v]
          PROVE  u = v
      <3>1a. PICK c \in S : \E n \in 1 .. g[c] : u = <<c, n>> /\ shift[u] = <<c, f[c] + n>>
        BY <2>1
      <3>1. PICK n \in 1 .. g[c] : u = <<c, n>> /\ shift[u] = <<c, f[c] + n>>
        BY <3>1a
      <3>2a. PICK d \in S : \E m \in 1 .. g[d] : v = <<d, m>> /\ shift[v] = <<d, f[d] + m>>
        BY <2>1
      <3>2. PICK m \in 1 .. g[d] : v = <<d, m>> /\ shift[v] = <<d, f[d] + m>>
        BY <3>2a
      <3>3. c = d /\ f[c] + n = f[d] + m
        BY <2>3, <3>1, <3>2
      <3> QED BY <3>1, <3>2, <3>3
    <2>4. ASSUME NEW u \in Rest PROVE \E v \in Units(g, S) : shift[v] = u
      <3>1a. PICK c \in S : \E n \in 1 .. g[c] : u = <<c, f[c] + n>>
        BY <1>3
      <3>1. PICK n \in 1 .. g[c] : u = <<c, f[c] + n>>
        BY <3>1a
      <3>2. <<c, n>> \in Units(g, S)
        BY UnitIs
      <3> QED BY <3>1, <3>2
    <2> HIDE DEF Rest, shift
    <2> QED BY <2>2, <2>3, <2>4 DEF Bijection, Injection, Surjection, IsInjective
  <1>6. IsFiniteSet(Units(g, S)) /\ IsFiniteSet(Units(f, S)) /\ IsFiniteSet(Units(h, S))
    BY <1>1, UnitsFinite
  <1>7. Cardinality(Rest) = Cardinality(Units(g, S)) /\ IsFiniteSet(Rest)
    BY <1>5, <1>6, FS_Bijection DEF ExistsBijection
  <1>8. Units(h, S) = Units(f, S) \cup Rest /\ Units(f, S) \cap Rest = {}
    BY <1>2
  <1> HIDE DEF Rest
  <1>9. Cardinality(Units(f, S) \cup Rest) = Cardinality(Units(f, S)) + Cardinality(Rest) - 0
    BY <1>6, <1>7, <1>8, FS_Union, FS_EmptySet
  <1>10. Cardinality(Units(f, S)) \in Nat /\ Cardinality(Rest) \in Nat
    BY <1>6, <1>7, FS_CardinalityType
  <1> QED BY <1>7, <1>8, <1>9, <1>10 DEF Total

\* A sum of nothing is a sum of nothings.
LEMMA TotalZero ==
  ASSUME NEW S, IsFiniteSet(S), NEW f, \A c \in S : f[c] \in Nat, Total(f, S) = 0, NEW d \in S
  PROVE  f[d] = 0
  <1>1. Total(f, {d}) <= Total(f, S)
    <2>1. {d} \in SUBSET S /\ \A c \in {d} : f[c] \in Nat /\ f[c] <= f[c]
      OBVIOUS
    <2> QED BY <2>1, TotalGrows
  <1> QED BY <1>1, TotalOfOne

-------------------------------------------------------------------------------
(* The least counterexample                                                *)

(* The library's well-founded orders give induction in this form: a set of *)
(* naturals that is not empty has a least element.                         *)
Below == {pair \in Nat \X Nat : pair[1] < pair[2]}
LEMMA BelowWellFounded == IsWellFoundedOn(Below, Nat)
  BY NatLessThanWellFounded DEF OpToRel, Below
LEMMA LeastNatural ==
  ASSUME NEW T \in SUBSET Nat, T # {} PROVE \E x \in T : \A y \in T : x <= y
  <1>1. \A x, y \in Nat : x < y => <<x, y>> \in Below
    BY DEF Below
  <1>2. PICK x \in T : \A y \in T : ~ (<<y, x>> \in Below)
    BY BelowWellFounded, WFMin
  <1>3. \A y \in T : ~ (y < x)
    BY <1>1, <1>2
  <1> QED BY <1>2, <1>3

\* What holds at 0 and passes from each number to the next holds up to n.
LEMMA Stepwise ==
  ASSUME NEW n \in Nat, NEW T, 0 \in T, \A k \in 0 .. n - 1 : k \in T => k + 1 \in T
  PROVE  \A k \in 0 .. n : k \in T
  <1> DEFINE Bad == {k \in 0 .. n : k \notin T}
  <1>1. ASSUME Bad # {} PROVE FALSE
    <2>1. Bad \in SUBSET Nat
      OBVIOUS
    <2>2. PICK m \in Bad : \A y \in Bad : m <= y
      BY <1>1, <2>1, LeastNatural
    <2>3. m \in 0 .. n /\ m \notin T /\ m # 0
      OBVIOUS
    <2>4. m - 1 \in 0 .. n - 1 /\ m - 1 \in 0 .. n /\ m = (m - 1) + 1
      BY <2>3
    <2>5. m - 1 \notin Bad
      <3> HIDE DEF Bad
      <3> QED
        BY <2>2, <2>3, <2>4
    <2> QED
      BY <2>3, <2>4, <2>5
  <1> QED
    BY <1>1

\* A sum is the same under other names for what is summed.
LEMMA TotalRenamed ==
  ASSUME NEW S, IsFiniteSet(S), NEW T, NEW r \in Bijection(S, T), NEW f, NEW g,
         \A c \in S : f[c] \in Nat /\ g[r[c]] = f[c]
  PROVE  Total(g, T) = Total(f, S)
  <1> DEFINE move == [u \in Units(f, S) |-> <<r[u[1]], u[2]>>]
  <1>0. /\ r \in [S -> T]
        /\ \A c, d \in S : r[c] = r[d] => c = d
        /\ \A e \in T : \E c \in S : r[c] = e
    BY DEF Bijection, Injection, Surjection, IsInjective
  <1>1. \A u \in Units(f, S) : \E c \in S : \E n \in 1 .. f[c] : u = <<c, n>> /\ move[u] = <<r[c], n>>
    BY UnitIs
  <1> HIDE DEF move
  <1>2. ASSUME NEW u \in Units(f, S) PROVE move[u] \in Units(g, T)
    <2>1. PICK c \in S : \E n \in 1 .. f[c] : u = <<c, n>> /\ move[u] = <<r[c], n>>
      BY <1>1
    <2>2. PICK n \in 1 .. f[c] : u = <<c, n>> /\ move[u] = <<r[c], n>>
      BY <2>1
    <2>3. r[c] \in T /\ n \in 1 .. g[r[c]]
      BY <1>0, <2>2
    <2> QED
      BY <2>2, <2>3, UnitIs
  <1>3. ASSUME NEW u \in Units(f, S), NEW v \in Units(f, S), move[u] = move[v] PROVE u = v
    <2>1. PICK c \in S : \E n \in 1 .. f[c] : u = <<c, n>> /\ move[u] = <<r[c], n>>
      BY <1>1
    <2>2. PICK n \in 1 .. f[c] : u = <<c, n>> /\ move[u] = <<r[c], n>>
      BY <2>1
    <2>3. PICK d \in S : \E m \in 1 .. f[d] : v = <<d, m>> /\ move[v] = <<r[d], m>>
      BY <1>1
    <2>4. PICK m \in 1 .. f[d] : v = <<d, m>> /\ move[v] = <<r[d], m>>
      BY <2>3
    <2>5. r[c] = r[d] /\ n = m
      BY <1>3, <2>2, <2>4
    <2> QED
      BY <1>0, <2>2, <2>4, <2>5
  <1>4. ASSUME NEW v \in Units(g, T) PROVE \E u \in Units(f, S) : move[u] = v
    <2>1. PICK e \in T : \E n \in 1 .. g[e] : v = <<e, n>>
      BY UnitIs
    <2>2. PICK n \in 1 .. g[e] : v = <<e, n>>
      BY <2>1
    <2>3. PICK c \in S : r[c] = e
      BY <1>0
    <2>4. <<c, n>> \in Units(f, S)
      <3>1. n \in 1 .. f[c]
        BY <2>2, <2>3
      <3> QED
        BY <3>1, UnitIs
    <2>5. move[<<c, n>>] = <<e, n>>
      BY <2>3, <2>4 DEF move
    <2> QED
      BY <2>2, <2>4, <2>5
  <1>5. move \in [Units(f, S) -> Units(g, T)]
    BY <1>2 DEF move
  <1>6. move \in Bijection(Units(f, S), Units(g, T))
    BY <1>3, <1>4, <1>5 DEF Bijection, Injection, Surjection, IsInjective
  <1>7. IsFiniteSet(Units(f, S))
    BY UnitsFinite
  <1> QED
    BY <1>6, <1>7, FS_Bijection DEF ExistsBijection, Total

\* A sum over the first numbers, one number at a time.
LEMMA TotalNext ==
  ASSUME NEW S, NEW k \in Nat, NEW f, \A c \in S \cap (1 .. k + 1) : f[c] \in Nat
  PROVE  /\ IsFiniteSet(S \cap (1 .. k)) /\ Total(f, S \cap (1 .. k)) \in Nat
         /\ Total(f, S \cap (1 .. k + 1))
              = Total(f, S \cap (1 .. k)) + IF k + 1 \in S THEN f[k + 1] ELSE 0
  <1>1. IsFiniteSet(1 .. k) /\ S \cap (1 .. k) \in SUBSET (1 .. k)
    BY FS_Interval
  <1>2. IsFiniteSet(S \cap (1 .. k))
    BY <1>1, FS_Subset
  <1>3. \A c \in S \cap (1 .. k) : f[c] \in Nat
    OBVIOUS
  <1>4. Total(f, S \cap (1 .. k)) \in Nat
    BY <1>2, <1>3, TotalType
  <1>5. CASE k + 1 \notin S
    <2>1. S \cap (1 .. k + 1) = S \cap (1 .. k)
      BY <1>5
    <2> QED
      BY <1>2, <1>4, <1>5, <2>1
  <1>6. CASE k + 1 \in S
    <2>1. S \cap (1 .. k + 1) = (S \cap (1 .. k)) \cup {k + 1}
      BY <1>6
    <2>2. (S \cap (1 .. k)) \cap {k + 1} = {} /\ IsFiniteSet({k + 1})
      <3>1. (S \cap (1 .. k)) \cap {k + 1} = {}
        OBVIOUS
      <3> QED
        BY <3>1, FS_Singleton
    <2>3. f[k + 1] \in Nat
      BY <1>6
    <2>4. Total(f, {k + 1}) = f[k + 1]
      BY <2>3, TotalOfOne
    <2>5. Total(f, (S \cap (1 .. k)) \cup {k + 1}) = Total(f, S \cap (1 .. k)) + Total(f, {k + 1})
      BY <1>2, <1>3, <2>2, <2>3, TotalSplits
    <2>6. Total(f, S \cap (1 .. k + 1)) = Total(f, S \cap (1 .. k)) + f[k + 1]
      BY <2>1, <2>4, <2>5
    <2> QED
      BY <1>2, <1>4, <1>6, <2>6
  <1> QED
    BY <1>5, <1>6

\* A sum over numbers is the sum, over their owners, of what each one owns.
LEMMA TotalByOwner ==
  ASSUME NEW n \in Nat, NEW t, \A c \in 1 .. n : t[c] \in Nat,
         NEW A, IsFiniteSet(A), NEW own, \A c \in 1 .. n : own[c] \in A
  PROVE  Total(t, 1 .. n) = Total([a \in A |-> Total(t, {c \in 1 .. n : own[c] = a})], A)
  <1> DEFINE Of(a) == {c \in 1 .. n : own[c] = a}
             part(k) == [a \in A |-> Total(t, Of(a) \cap (1 .. k))]
             T == {k \in 0 .. n : Total(t, (1 .. n) \cap (1 .. k)) = Total(part(k), A)}
  <1>1. 0 \in T
    <2>1. (1 .. n) \cap (1 .. 0) = {} /\ \A a \in A : Of(a) \cap (1 .. 0) = {}
      OBVIOUS
    <2>2. Total(t, (1 .. n) \cap (1 .. 0)) = 0 /\ \A a \in A : part(0)[a] = 0
      BY <2>1, TotalOfNone
    <2> DEFINE p == part(0)
    <2>3. \A a \in A : p[a] = 0
      BY <2>2
    <2> HIDE DEF p
    <2>4. Units(p, A) = {}
      <3>1. \A u : u \notin Units(p, A)
        BY <2>3, UnitIs
      <3> QED
        BY <3>1
    <2>5. Total(p, A) = 0
      BY <2>4, FS_EmptySet DEF Total
    <2>6. Total(part(0), A) = 0
      BY <2>5 DEF p
    <2> QED
      BY <2>2, <2>6
  <1>2. ASSUME NEW k \in 0 .. n - 1, k \in T PROVE k + 1 \in T
    <2> DEFINE p == part(k)
               q == part(k + 1)
               d == own[k + 1]
    <2>1. d \in A /\ k + 1 \in 1 .. n /\ k \in Nat /\ t[k + 1] \in Nat
      OBVIOUS
    <2>2. Total(t, (1 .. n) \cap (1 .. k + 1)) = Total(t, (1 .. n) \cap (1 .. k)) + t[k + 1]
          /\ Total(t, (1 .. n) \cap (1 .. k)) \in Nat
      BY <2>1, TotalNext
    <2>3. ASSUME NEW a \in A
          PROVE  p[a] \in Nat /\ q[a] = p[a] + IF a = d THEN t[k + 1] ELSE 0
      <3>0. \A c \in Of(a) \cap (1 .. k + 1) : t[c] \in Nat
        OBVIOUS
      <3>1. k + 1 \in Of(a) <=> a = d
        BY <2>1
      <3>2. p[a] = Total(t, Of(a) \cap (1 .. k)) /\ q[a] = Total(t, Of(a) \cap (1 .. k + 1))
        OBVIOUS
      <3> HIDE DEF Of, p, q
      <3>3. /\ Total(t, Of(a) \cap (1 .. k)) \in Nat
            /\ Total(t, Of(a) \cap (1 .. k + 1))
                 = Total(t, Of(a) \cap (1 .. k)) + IF k + 1 \in Of(a) THEN t[k + 1] ELSE 0
        <4>1. k \in Nat
          BY <2>1
        <4> QED
          BY <3>0, <4>1, TotalNext
      <3> QED
        BY <3>1, <3>2, <3>3
    <2>4. Total(t, (1 .. n) \cap (1 .. k)) = Total(p, A)
      BY <1>2
    <2> HIDE DEF p, q, d, T, part
    <2>5. \A a \in A : p[a] \in Nat /\ q[a] \in Nat
      BY <2>1, <2>3
    <2>6. \A a \in A \ {d} : q[a] = p[a]
      BY <2>3
    <2>7. Total(q, A) + p[d] = Total(p, A) + q[d]
      BY <2>1, <2>5, <2>6, TotalChanges
    <2>8. Total(p, A) \in Nat /\ Total(q, A) \in Nat
      BY <2>5, TotalType
    <2>9. Total(q, A) = Total(p, A) + t[k + 1]
      BY <2>1, <2>3, <2>7, <2>8
    <2> QED
      BY <2>1, <2>2, <2>4, <2>9 DEF T, q
  <1>3. n \in T
    <2> HIDE DEF T
    <2> QED
      BY <1>1, <1>2, Stepwise
  <1>4. (1 .. n) \cap (1 .. n) = 1 .. n /\ \A a \in A : Of(a) \cap (1 .. n) = Of(a)
    OBVIOUS
  <1>5. part(n) = [a \in A |-> Total(t, Of(a))]
    BY <1>4
  <1> QED
    BY <1>3, <1>4, <1>5

\* Amounts s that a step adds z to, takes z from, or leaves.
Books(n, s, P, R, z) ==
    /\ P \in SUBSET (1 .. n) /\ R \in SUBSET (1 .. n) /\ P \cap R = {}
    /\ \A k \in 0 .. n : s[k] \in Nat
    /\ \A i \in P \cup R : z[i] \in Nat
    /\ \A i \in P : s[i] = s[i - 1] + z[i]
    /\ \A i \in R : s[i] + z[i] = s[i - 1]
    /\ \A i \in (1 .. n) \ (P \cup R) : s[i] = s[i - 1]

\* What is added in some steps and taken in others is what changed in all.
LEMMA BooksBalance ==
  ASSUME NEW n \in Nat, NEW s, NEW P, NEW R, NEW z, Books(n, s, P, R, z)
  PROVE  s[n] + Total(z, R) = s[0] + Total(z, P)
  <1> DEFINE T == {k \in 0 .. n : s[k] + Total(z, R \cap (1 .. k)) = s[0] + Total(z, P \cap (1 .. k))}
  <1>1. 0 \in T
    <2>1. R \cap (1 .. 0) = {} /\ P \cap (1 .. 0) = {}
      OBVIOUS
    <2> QED
      BY <2>1
  <1>2. ASSUME NEW k \in 0 .. n - 1, k \in T PROVE k + 1 \in T
    <2>1. /\ k \in Nat /\ k \in 0 .. n /\ k + 1 \in 1 .. n /\ k + 1 \in 0 .. n /\ (k + 1) - 1 = k
          /\ \A c \in P \cap (1 .. k + 1) : z[c] \in Nat
          /\ \A c \in R \cap (1 .. k + 1) : z[c] \in Nat
      BY DEF Books
    <2>2. /\ Total(z, P \cap (1 .. k)) \in Nat
          /\ Total(z, P \cap (1 .. k + 1))
               = Total(z, P \cap (1 .. k)) + IF k + 1 \in P THEN z[k + 1] ELSE 0
      BY <2>1, TotalNext
    <2>3. /\ Total(z, R \cap (1 .. k)) \in Nat
          /\ Total(z, R \cap (1 .. k + 1))
               = Total(z, R \cap (1 .. k)) + IF k + 1 \in R THEN z[k + 1] ELSE 0
      BY <2>1, TotalNext
    <2>4. s[k] + Total(z, R \cap (1 .. k)) = s[0] + Total(z, P \cap (1 .. k))
      BY <1>2
    <2>5. s[k] \in Nat /\ s[k + 1] \in Nat /\ s[0] \in Nat
      BY <2>1 DEF Books
    <2>6. /\ k + 1 \in P => k + 1 \notin R /\ z[k + 1] \in Nat /\ s[k + 1] = s[k] + z[k + 1]
          /\ k + 1 \in R => k + 1 \notin P /\ z[k + 1] \in Nat /\ s[k + 1] + z[k + 1] = s[k]
          /\ k + 1 \notin P \cup R => s[k + 1] = s[k]
      BY <2>1 DEF Books
    <2>7. s[k + 1] + Total(z, R \cap (1 .. k + 1)) = s[0] + Total(z, P \cap (1 .. k + 1))
      BY <2>2, <2>3, <2>4, <2>5, <2>6
    <2> QED
      BY <2>1, <2>7
  <1>3. n \in T
    <2> HIDE DEF T
    <2> QED
      BY <1>1, <1>2, Stepwise
  <1>4. P \cap (1 .. n) = P /\ R \cap (1 .. n) = R
    BY DEF Books
  <1> QED
    BY <1>3, <1>4

\* Amounts f over A where the places r of R hold nothing, and amounts g where
\* those places have been filled with z.
Fills(A, R, r, f, g, z) ==
    /\ \A i \in R : r[i] \in A /\ f[r[i]] = 0 /\ z[i] \in Nat /\ g[r[i]] = z[i]
    /\ \A i, j \in R : r[i] = r[j] => i = j
    /\ \A c \in A : f[c] \in Nat
    /\ \A c \in A : (\E i \in R : r[i] = c) \/ g[c] = f[c]

\* What fills empty places is what the sum grows by.
LEMMA TotalFilled ==
  ASSUME NEW A, IsFiniteSet(A), NEW R, IsFiniteSet(R), NEW r, NEW f, NEW g, NEW z,
         Fills(A, R, r, f, g, z)
  PROVE  Total(g, A) = Total(f, A) + Total(z, R)
  <1> DEFINE D == {r[i] : i \in R}
             p == [i \in R |-> r[i]]
  <1>1. D \in SUBSET A /\ IsFiniteSet(A \ D) /\ IsFiniteSet(D)
    BY FS_Subset DEF Fills
  <1>2. \A c \in A : f[c] \in Nat /\ g[c] \in Nat
    <2> SUFFICES ASSUME NEW c \in A PROVE f[c] \in Nat /\ g[c] \in Nat
      OBVIOUS
    <2>1. f[c] \in Nat /\ ((\E i \in R : r[i] = c) \/ g[c] = f[c])
      BY DEF Fills
    <2>2. ASSUME NEW i \in R, r[i] = c PROVE g[c] \in Nat
      BY <2>2 DEF Fills
    <2> QED
      BY <2>1, <2>2
  <1>3. \A c \in A \ D : g[c] = f[c]
    BY DEF Fills
  <1>4. \A c \in D : f[c] = 0
    BY DEF Fills
  <1>5. \A i \in R : z[i] \in Nat /\ g[p[i]] = z[i]
    BY DEF Fills
  <1>6. p \in Bijection(R, D)
    <2>1. p \in [R -> D] /\ \A d \in D : \E i \in R : p[i] = d
      OBVIOUS
    <2>2. \A i, j \in R : p[i] = p[j] => i = j
      BY DEF Fills
    <2> HIDE DEF p, D
    <2> QED
      BY <2>1, <2>2 DEF Bijection, Injection, Surjection, IsInjective
  <1> HIDE DEF D, p
  <1>7. Total(g, D) = Total(z, R)
    BY <1>5, <1>6, TotalRenamed
  <1>8. Total(f, D) = 0
    <2>1. Units(f, D) = {}
      <3>1. ASSUME NEW u \in Units(f, D) PROVE FALSE
        <4>1. PICK c \in D : \E n \in 1 .. f[c] : u = <<c, n>>
          BY UnitIs
        <4> QED
          BY <1>4, <4>1
      <3> QED
        BY <3>1
    <2> QED
      BY <2>1, FS_EmptySet DEF Total
  <1>9. Total(g, A \ D) = Total(f, A \ D)
    BY <1>3, TotalSame
  <1>10. Total(f, A \ D) \in Nat /\ Total(z, R) \in Nat
    BY <1>1, <1>2, <1>5, TotalType
  <1>11. /\ Total(g, A) = Total(g, A \ D) + Total(g, D)
         /\ Total(f, A) = Total(f, A \ D) + Total(f, D)
    BY <1>1, <1>2, TotalWithout
  <1> QED
    BY <1>7, <1>8, <1>9, <1>10, <1>11

===============================================================================
