------------------------------ MODULE SumLemmas ------------------------------
(***************************************************************************)
(* Sums of numbers over a finite set, as MapThenSumSet takes them: in the  *)
(* order in which CHOOSE picks.  The order does not matter.  Every proof   *)
(* is by the smallest set that would be an exception.                      *)
(***************************************************************************)
EXTENDS Integers, FiniteSetsExt, FiniteSetTheorems, WellFoundedInduction, TLAPS

SumOver(a, S) == MapThenSumSet(LAMBDA x : a[x], S)

Pick(s) == CHOOSE x \in s : TRUE

(* What MapThenSumSet computes for every subset of S.                      *)
Sums(f, a, S) == f = [s \in SUBSET S |-> IF s = {} THEN 0 ELSE a[Pick(s)] + f[s \ {Pick(s)}]]

Fold(a, S) == CHOOSE f : Sums(f, a, S)

LEMMA SumIsFold ==
  ASSUME NEW S, NEW a
  PROVE  SumOver(a, S) = Fold(a, S)[S]
BY Zenon DEF SumOver, MapThenSumSet, MapThenFoldSet, Fold, Sums, Pick

LEMMA Least ==
  ASSUME NEW T \in SUBSET Nat, T # {}
  PROVE  \E m \in T : \A n \in T : m <= n
<1>1. PICK m \in T : \A n \in T : ~(<<n, m>> \in OpToRel(<, Nat))
  BY NatLessThanWellFounded, WFMin
<1>2. \A n \in T : ~(n < m)
  BY <1>1 DEF OpToRel
<1> QED BY <1>2

(* Without the element picked, a set is one smaller.                       *)
LEMMA Picked ==
  ASSUME NEW S, IsFiniteSet(S), NEW s \in SUBSET S
  PROVE  /\ IsFiniteSet(s) /\ Cardinality(s) \in Nat /\ (s = {} <=> Cardinality(s) = 0)
         /\ s # {} => Pick(s) \in s
         /\ \A x \in s : s \ {x} \in SUBSET S /\ Cardinality(s \ {x}) = Cardinality(s) - 1
<1>1. IsFiniteSet(s)
  BY FS_Subset
<1>2. Cardinality(s) \in Nat /\ (s = {} <=> Cardinality(s) = 0)
  BY <1>1, FS_CardinalityType, FS_EmptySet
<1>3. \A x \in s : Cardinality(s \ {x}) = Cardinality(s) - 1
  BY <1>1, FS_RemoveElement
<1>4. s # {} => Pick(s) \in s
  BY DEF Pick
<1> QED BY <1>1, <1>2, <1>3, <1>4

-----------------------------------------------------------------------------
(* There is such a fold, for sets of at most n elements first.             *)
Small(S, n) == {s \in SUBSET S : Cardinality(s) <= n}

Partly(f, a, S, n) == f = [s \in Small(S, n) |-> IF s = {} THEN 0 ELSE a[Pick(s)] + f[s \ {Pick(s)}]]

LEMMA PartlyEmpty ==
  ASSUME NEW S, IsFiniteSet(S), NEW a
  PROVE  \E f : Partly(f, a, S, 0)
<1> DEFINE f == [s \in Small(S, 0) |-> 0]
<1>1. ASSUME NEW s \in Small(S, 0) PROVE s = {}
  <2>1. s \in SUBSET S /\ Cardinality(s) <= 0
    BY DEF Small
  <2> QED BY <2>1, Picked
<1>2. Partly(f, a, S, 0)
  BY <1>1 DEF Partly
<1> QED BY <1>2

LEMMA PartlyMore ==
  ASSUME NEW S, IsFiniteSet(S), NEW a, NEW n \in Nat, NEW f, Partly(f, a, S, n)
  PROVE  \E g : Partly(g, a, S, n + 1)
<1> DEFINE g == [s \in Small(S, n + 1) |-> IF s = {} THEN 0 ELSE a[Pick(s)] + f[s \ {Pick(s)}]]
<1>1. ASSUME NEW s \in Small(S, n + 1), s # {} PROVE g[s \ {Pick(s)}] = f[s \ {Pick(s)}]
  <2> DEFINE t == s \ {Pick(s)}
  <2>1. s \in SUBSET S /\ Cardinality(s) <= n + 1
    BY DEF Small
  <2>2. t \in SUBSET S /\ Cardinality(t) = Cardinality(s) - 1 /\ Cardinality(s) \in Nat
    BY <1>1, <2>1, Picked
  <2>3. t \in Small(S, n) /\ t \in Small(S, n + 1)
    BY <2>1, <2>2 DEF Small
  <2>4. f[t] = IF t = {} THEN 0 ELSE a[Pick(t)] + f[t \ {Pick(t)}]
    BY <2>3 DEF Partly
  <2>5. g[t] = IF t = {} THEN 0 ELSE a[Pick(t)] + f[t \ {Pick(t)}]
    BY <2>3
  <2> QED BY <2>4, <2>5
<1>2. g = [s \in Small(S, n + 1) |-> IF s = {} THEN 0 ELSE a[Pick(s)] + g[s \ {Pick(s)}]]
  BY <1>1
<1>3. Partly(g, a, S, n + 1)
  BY <1>2 DEF Partly
<1> QED BY <1>3

LEMMA FoldExists ==
  ASSUME NEW S, IsFiniteSet(S), NEW a
  PROVE  Sums(Fold(a, S), a, S)
<1> DEFINE Bad == {n \in Nat : ~\E f : Partly(f, a, S, n)}
<1>1. ASSUME Bad # {} PROVE FALSE
  <2>1. PICK m \in Bad : \A n \in Bad : m <= n
    BY <1>1, Least
  <2>2. m # 0
    BY PartlyEmpty
  <2>3. m - 1 \in Nat /\ m - 1 \notin Bad
    BY <2>1, <2>2
  <2>4. PICK f : Partly(f, a, S, m - 1)
    BY <2>3
  <2>5. \E g : Partly(g, a, S, (m - 1) + 1)
    BY <2>3, <2>4, PartlyMore
  <2>6. (m - 1) + 1 = m
    BY <2>1
  <2> QED BY <2>1, <2>5, <2>6
<1>2. Cardinality(S) \in Nat
  BY FS_CardinalityType
<1>3. PICK f : Partly(f, a, S, Cardinality(S))
  BY <1>1, <1>2
<1>4. Small(S, Cardinality(S)) = SUBSET S
  BY FS_Subset DEF Small
<1>5. Sums(f, a, S)
  BY <1>3, <1>4 DEF Sums, Partly
<1> QED BY <1>5 DEF Fold

-----------------------------------------------------------------------------
(* What a fold gives for one set.                                          *)
LEMMA FoldType ==
  ASSUME NEW S, IsFiniteSet(S), NEW a, \A x \in S : a[x] \in Int, NEW f, Sums(f, a, S)
  PROVE  \A s \in SUBSET S : f[s] \in Int
<1> DEFINE Bad == {Cardinality(s) : s \in {t \in SUBSET S : f[t] \notin Int}}
<1>1. ASSUME Bad # {} PROVE FALSE
  <2>1. Bad \in SUBSET Nat
    BY Picked
  <2>2. PICK m \in Bad : \A n \in Bad : m <= n
    BY <1>1, <2>1, Least
  <2>3. PICK s \in SUBSET S : f[s] \notin Int /\ Cardinality(s) = m
    BY <2>2
  <2>4. s # {} /\ f[s] = a[Pick(s)] + f[s \ {Pick(s)}]
    <3>1. f[s] = IF s = {} THEN 0 ELSE a[Pick(s)] + f[s \ {Pick(s)}]
      BY DEF Sums
    <3> QED BY <2>3, <3>1
  <2>5. /\ Pick(s) \in S /\ a[Pick(s)] \in Int
        /\ s \ {Pick(s)} \in SUBSET S /\ Cardinality(s \ {Pick(s)}) = m - 1 /\ m \in Nat
    BY <2>3, <2>4, Picked
  <2>6. f[s \ {Pick(s)}] \in Int
    <3>1. ASSUME f[s \ {Pick(s)}] \notin Int PROVE m - 1 \in Bad
      BY <2>5, <3>1
    <3> QED BY <2>2, <2>5, <3>1
  <2> QED BY <2>3, <2>4, <2>5, <2>6
<1> QED BY <1>1

(* Any element may be the one that is added last.                          *)
LEMMA FoldRemove ==
  ASSUME NEW S, IsFiniteSet(S), NEW a, \A x \in S : a[x] \in Int, NEW f, Sums(f, a, S)
  PROVE  \A s \in SUBSET S : \A k \in s : f[s] = a[k] + f[s \ {k}]
<1> DEFINE Bad == {Cardinality(s) : s \in {t \in SUBSET S : \E k \in t : f[t] # a[k] + f[t \ {k}]}}
<1>0. \A s \in SUBSET S : f[s] \in Int
  BY FoldType
<1>1. ASSUME Bad # {} PROVE FALSE
  <2>1. Bad \in SUBSET Nat
    BY Picked
  <2>2. PICK m \in Bad : \A n \in Bad : m <= n
    BY <1>1, <2>1, Least
  <2>3. PICK s \in SUBSET S : (\E k \in s : f[s] # a[k] + f[s \ {k}]) /\ Cardinality(s) = m
    BY <2>2
  <2>4. PICK k \in s : f[s] # a[k] + f[s \ {k}]
    BY <2>3
  <2> DEFINE x == Pick(s)
             u == (s \ {x}) \ {k}
  <2>5. s # {} /\ f[s] = a[x] + f[s \ {x}]
    <3>1. f[s] = IF s = {} THEN 0 ELSE a[Pick(s)] + f[s \ {Pick(s)}]
      BY DEF Sums
    <3> QED BY <2>4, <3>1
  <2>6. x \in s /\ x # k
    BY <2>4, <2>5, <2>3, Picked
  <2>7. m \in Nat /\ \A y \in s : s \ {y} \in SUBSET S /\ Cardinality(s \ {y}) = m - 1
    BY <2>3, Picked
  <2>8. ASSUME NEW y \in s, NEW z \in s \ {y} PROVE f[s \ {y}] = a[z] + f[(s \ {y}) \ {z}]
    <3>1. ASSUME f[s \ {y}] # a[z] + f[(s \ {y}) \ {z}] PROVE m - 1 \in Bad
      BY <2>7, <2>8, <3>1
    <3> QED BY <2>2, <2>7, <3>1
  <2>9. f[s \ {x}] = a[k] + f[u] /\ f[s \ {k}] = a[x] + f[(s \ {k}) \ {x}]
    BY <2>4, <2>6, <2>8
  <2>10. (s \ {k}) \ {x} = u /\ u \in SUBSET S
    OBVIOUS
  <2>11. a[x] \in Int /\ a[k] \in Int /\ f[u] \in Int
    BY <1>0, <2>4, <2>6, <2>10
  <2>12. f[s] = a[x] + (a[k] + f[u]) /\ f[s \ {k}] = a[x] + f[u]
    BY <2>5, <2>9, <2>10
  <2>13. a[x] + (a[k] + f[u]) = a[k] + (a[x] + f[u])
    BY <2>11
  <2> QED BY <2>4, <2>12, <2>13
<1> QED BY <1>1

(* Two folds agree where what they add agrees.                             *)
LEMMA FoldsAgree ==
  ASSUME NEW S, NEW T, IsFiniteSet(S), NEW a, NEW b, NEW f, NEW g, Sums(f, a, S), Sums(g, b, T),
         S \subseteq T, \A x \in S : a[x] = b[x]
  PROVE  f[S] = g[S]
<1> DEFINE Bad == {Cardinality(s) : s \in {t \in SUBSET S : f[t] # g[t]}}
<1>1. ASSUME Bad # {} PROVE FALSE
  <2>1. Bad \in SUBSET Nat
    BY Picked
  <2>2. PICK m \in Bad : \A n \in Bad : m <= n
    BY <1>1, <2>1, Least
  <2>3. PICK s \in SUBSET S : f[s] # g[s] /\ Cardinality(s) = m
    BY <2>2
  <2>4. /\ f[s] = IF s = {} THEN 0 ELSE a[Pick(s)] + f[s \ {Pick(s)}]
        /\ g[s] = IF s = {} THEN 0 ELSE b[Pick(s)] + g[s \ {Pick(s)}]
    <3>1. s \in SUBSET S /\ s \in SUBSET T
      OBVIOUS
    <3> QED BY <3>1 DEF Sums
  <2>5. s # {}
    BY <2>3, <2>4
  <2>6. Pick(s) \in s /\ m \in Nat /\ s \ {Pick(s)} \in SUBSET S /\ Cardinality(s \ {Pick(s)}) = m - 1
    BY <2>3, <2>5, Picked
  <2>7. f[s \ {Pick(s)}] = g[s \ {Pick(s)}]
    <3>1. ASSUME f[s \ {Pick(s)}] # g[s \ {Pick(s)}] PROVE m - 1 \in Bad
      BY <2>6, <3>1
    <3> QED BY <2>2, <2>6, <3>1
  <2> QED BY <2>3, <2>4, <2>5, <2>6, <2>7
<1> QED BY <1>1

-----------------------------------------------------------------------------
(* The facts to cite.                                                      *)
LEMMA SumEmpty ==
  ASSUME NEW a
  PROVE  SumOver(a, {}) = 0
<1>1. Sums(Fold(a, {}), a, {})
  BY FoldExists, FS_EmptySet
<1> QED BY <1>1, SumIsFold DEF Sums

LEMMA SumType ==
  ASSUME NEW S, IsFiniteSet(S), NEW a, \A x \in S : a[x] \in Int
  PROVE  SumOver(a, S) \in Int
<1>1. Sums(Fold(a, S), a, S)
  BY FoldExists
<1> QED BY <1>1, SumIsFold, FoldType

LEMMA SumSame ==
  ASSUME NEW S, IsFiniteSet(S), NEW a, NEW b, \A x \in S : a[x] = b[x]
  PROVE  SumOver(a, S) = SumOver(b, S)
<1>1. Sums(Fold(a, S), a, S) /\ Sums(Fold(b, S), b, S)
  BY FoldExists
<1>2. Fold(a, S)[S] = Fold(b, S)[S]
  <2> DEFINE f == Fold(a, S)
             g == Fold(b, S)
  <2>1. Sums(f, a, S) /\ Sums(g, b, S) /\ S \subseteq S
    BY <1>1
  <2> HIDE DEF f, g
  <2>2. f[S] = g[S]
    BY <2>1, FoldsAgree
  <2> QED BY <2>2 DEF f, g
<1> QED BY <1>2, SumIsFold

LEMMA SumAdd ==
  ASSUME NEW S, IsFiniteSet(S), NEW a, NEW k \in S, \A x \in S : a[x] \in Int
  PROVE  SumOver(a, S) = a[k] + SumOver(a, S \ {k})
<1> DEFINE T == S \ {k}
<1>1. IsFiniteSet(T) /\ T \subseteq S
  BY FS_Subset
<1>2. Sums(Fold(a, S), a, S) /\ Sums(Fold(a, T), a, T)
  BY <1>1, FoldExists
<1>3. Fold(a, T)[T] = Fold(a, S)[T]
  <2> DEFINE f == Fold(a, T)
             g == Fold(a, S)
  <2>1. Sums(f, a, T) /\ Sums(g, a, S) /\ T \subseteq S /\ IsFiniteSet(T)
    BY <1>1, <1>2
  <2> HIDE DEF f, g, T
  <2>2. f[T] = g[T]
    BY <2>1, FoldsAgree
  <2> QED BY <2>2 DEF f, g
<1>4. Fold(a, S)[S] = a[k] + Fold(a, S)[T]
  BY <1>2, FoldRemove
<1> QED BY <1>3, <1>4, SumIsFold
=============================================================================
