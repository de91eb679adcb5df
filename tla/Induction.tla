----------------------------- MODULE Induction -----------------------------
(* Facts about finite data that the proofs need and that call for induction.  *)
(* The induction is on a set of naturals: a theorem of the library gives the  *)
(* least element of its complement.                                           *)
EXTENDS Integers, FiniteSets, FiniteSetsExt,
        FiniteSetTheorems, WellFoundedInduction, TLAPS

Less == {ss \in Nat \X Nat : ss[1] < ss[2]}

\* Every set of naturals with an element has a least one.
LEMMA Least ==
  ASSUME NEW S, S \subseteq Nat, S # {}
  PROVE  \E x \in S : \A y \in S : x <= y
<1>1. IsWellFoundedOn(Less, Nat)
  BY NatLessThanWellFounded DEF OpToRel, Less
<1>2. PICK x \in S : \A y \in S : ~ (<<y, x>> \in Less)
  BY <1>1, WFMin, Zenon
<1>3. \A y \in S : ~ (y < x)
  BY <1>2, Zenon DEF Less
<1> QED BY <1>3

\* Induction up to a bound.
LEMMA UpTo ==
  ASSUME NEW n \in Nat, NEW S, 0 \in S, \A i \in 1..n : i - 1 \in S => i \in S
  PROVE  0..n \subseteq S
<1> SUFFICES ASSUME (0..n) \ S # {} PROVE FALSE
  OBVIOUS
<1> DEFINE T == (0..n) \ S
<1>0. T \subseteq Nat /\ T # {}
  OBVIOUS
<1> HIDE DEF T
<1>1. PICK x \in T : \A y \in T : x <= y
  BY <1>0, Least, Zenon
<1> USE DEF T
<1>2. x \in 1..n /\ x - 1 \in 0..n /\ ~ (x <= x - 1)
  BY <1>1
<1> QED BY <1>1, <1>2

\* The values of a loop of n rounds, each of which makes the next value from the
\* last one.
Rounds(n, X, base, F, g) ==
  /\ g \in [0..n -> X]
  /\ g[0] = base
  /\ \A i \in 1..n : g[i] = F[<<i, g[i - 1]>>]

\* There are such values.
LEMMA LoopExists ==
  ASSUME NEW n \in Nat, NEW X, NEW base \in X, NEW F,
         \A i \in 1..n, x \in X : F[<<i, x>>] \in X
  PROVE  \E g : Rounds(n, X, base, F, g)
<1> DEFINE Sol(k, g) == Rounds(k, X, base, F, g)
           S == {k \in 0..n : \E g : Sol(k, g)}
<1>1. 0 \in S
  <2>1. Sol(0, [i \in 0..0 |-> base])
    BY DEF Rounds
  <2> HIDE DEF Sol
  <2> QED BY <2>1
<1>2. ASSUME NEW k \in 1..n, k - 1 \in S PROVE k \in S
  <2> HIDE DEF Sol
  <2>1. PICK g : Sol(k - 1, g)
    BY <1>2
  <2> DEFINE e == F[<<k, g[k - 1]>>]
             h == [i \in 0..k |-> IF i = k THEN e ELSE g[i]]
  <2>2. /\ g \in [0..(k - 1) -> X] /\ g[0] = base
        /\ \A i \in 1..(k - 1) : g[i] = F[<<i, g[i - 1]>>]
    BY <2>1 DEF Sol, Rounds
  <2>3. g[k - 1] \in X /\ e \in X
    BY <2>2
  <2> HIDE DEF e
  <2>4. h \in [0..k -> X] /\ h[k] = e /\ \A i \in 0..(k - 1) : h[i] = g[i]
    BY <2>2, <2>3
  <2> HIDE DEF h
  <2>5. ASSUME NEW i \in 1..k PROVE h[i] = F[<<i, h[i - 1]>>]
    <3>1. i - 1 \in 0..(k - 1)
      OBVIOUS
    <3>2. CASE i = k
      BY <2>4, <3>1, <3>2 DEF e
    <3>3. CASE i # k
      <4>1. i \in 1..(k - 1) /\ i \in 0..(k - 1)
        BY <3>3
      <4> QED BY <2>2, <2>4, <3>1, <4>1
    <3> QED BY <3>2, <3>3
  <2>6. h[0] = base
    BY <2>2, <2>4
  <2>7. Sol(k, h)
    BY <2>4, <2>5, <2>6 DEF Sol, Rounds
  <2> QED BY <2>7
<1>3. 0..n \subseteq S
  <2> HIDE DEF S
  <2> QED BY <1>1, <1>2, UpTo
<1> QED BY <1>3

(********************************** sums ***********************************)

\* Induction over the subsets of a finite set.
LEMMA OverSubsets ==
  ASSUME NEW S, IsFiniteSet(S), NEW P, {} \in P,
         \A s \in SUBSET S : s # {} /\ (\A x \in s : s \ {x} \in P) => s \in P
  PROVE  SUBSET S \subseteq P
<1> DEFINE Out == (SUBSET S) \ P
           N == {k \in Nat : \E s \in Out : Cardinality(s) = k}
<1> SUFFICES ASSUME Out # {} PROVE FALSE
  OBVIOUS
<1>1. \A s \in SUBSET S : IsFiniteSet(s) /\ Cardinality(s) \in Nat
  BY FS_Subset, FS_CardinalityType
<1>2. N # {} /\ N \subseteq Nat
  BY <1>1
<1>3. PICK k \in N : \A n \in N : k <= n
  <2> HIDE DEF N
  <2> QED BY <1>2, Least, Zenon
<1>4. PICK s \in Out : Cardinality(s) = k
  BY <1>3
<1>5. PICK x \in s : s \ {x} \notin P
  BY Zenon
<1>6. s \ {x} \in Out /\ Cardinality(s \ {x}) = k - 1
  BY <1>1, <1>4, <1>5, FS_RemoveElement
<1>7. k - 1 \in N
  BY <1>1, <1>6
<1> QED BY <1>3, <1>7

\* The sum of f over S.
Total(f, S) == MapThenSumSet(LAMBDA x : f[x], S)

\* f[x] units for every x of S.
Units(f, S) == {u \in S \X Nat : u[2] \in 1..f[u[1]]}

\* The units are finitely many, and one x adds its own.
LEMMA UnitsCount ==
  ASSUME NEW S, IsFiniteSet(S), NEW f, \A x \in S : f[x] \in Nat
  PROVE  /\ \A s \in SUBSET S : IsFiniteSet(Units(f, s)) /\ Cardinality(Units(f, s)) \in Nat
         /\ Cardinality(Units(f, {})) = 0
         /\ \A s \in SUBSET S : \A x \in s :
              Cardinality(Units(f, s)) = f[x] + Cardinality(Units(f, s \ {x}))
<1> DEFINE P == {s \in SUBSET S : IsFiniteSet(Units(f, s))}
<1>1. Units(f, {}) = {}
  BY DEF Units
<1>2. ASSUME NEW s \in SUBSET S, NEW x \in s
      PROVE  /\ Units(f, s) = Units(f, s \ {x}) \cup ({x} \X (1..f[x]))
             /\ Units(f, s \ {x}) \cap ({x} \X (1..f[x])) = {}
             /\ IsFiniteSet({x} \X (1..f[x]))
             /\ Cardinality({x} \X (1..f[x])) = f[x]
  <2>1. f[x] \in Nat
    OBVIOUS
  <2>2. Units(f, s) = Units(f, s \ {x}) \cup ({x} \X (1..f[x]))
    BY <2>1 DEF Units
  <2>3. Units(f, s \ {x}) \cap ({x} \X (1..f[x])) = {}
    BY DEF Units
  <2>4. IsFiniteSet(1..f[x]) /\ Cardinality(1..f[x]) = f[x]
    <3> DEFINE n == f[x]
    <3>1. n \in Int /\ 1 \in Int /\ n - 1 + 1 = n /\ (1 > n => n = 0)
      BY <2>1
    <3> HIDE DEF n
    <3>2. /\ IsFiniteSet(1..n)
          /\ Cardinality(1..n) = IF 1 > n THEN 0 ELSE n - 1 + 1
      BY <3>1, FS_Interval, Zenon
    <3>3. IsFiniteSet(1..n) /\ Cardinality(1..n) = n
      BY <3>1, <3>2
    <3> QED BY <3>3 DEF n
  <2>5. IsFiniteSet({x}) /\ Cardinality({x}) = 1
    BY FS_Singleton, Zenon
  <2>6. IsFiniteSet({x} \X (1..f[x])) /\ Cardinality({x} \X (1..f[x])) = f[x]
    <3> DEFINE A == {x}
               B == 1..f[x]
    <3>1. IsFiniteSet(A) /\ Cardinality(A) = 1 /\ IsFiniteSet(B) /\ Cardinality(B) = f[x]
      BY <2>4, <2>5
    <3> HIDE DEF A, B
    <3>2. IsFiniteSet(A \X B) /\ Cardinality(A \X B) = 1 * f[x]
      BY <3>1, FS_Product
    <3>3. 1 * f[x] = f[x]
      BY <2>1
    <3> QED BY <3>2, <3>3 DEF A, B
  <2> QED BY <2>2, <2>3, <2>6
<1>3. {} \in P
  BY <1>1, FS_EmptySet
<1>4. ASSUME NEW s \in SUBSET S, s # {}, \A x \in s : s \ {x} \in P PROVE s \in P
  <2>1. PICK x \in s : TRUE
    BY <1>4
  <2>2. IsFiniteSet(Units(f, s \ {x})) /\ IsFiniteSet({x} \X (1..f[x]))
    BY <1>2, <1>4, Zenon
  <2>3. IsFiniteSet(Units(f, s \ {x}) \cup ({x} \X (1..f[x])))
    BY <2>2, FS_Union, Zenon
  <2> QED BY <1>2, <2>3, Zenon
<1> HIDE DEF P
<1>5. SUBSET S \subseteq P
  BY <1>3, <1>4, OverSubsets, Zenon
<1>6. \A s \in SUBSET S : IsFiniteSet(Units(f, s)) /\ Cardinality(Units(f, s)) \in Nat
  BY <1>5, FS_CardinalityType DEF P
<1>7. ASSUME NEW s \in SUBSET S, NEW x \in s
      PROVE  Cardinality(Units(f, s)) = f[x] + Cardinality(Units(f, s \ {x}))
  <2> DEFINE A == Units(f, s \ {x})
             B == {x} \X (1..f[x])
  <2>1. /\ Units(f, s) = A \cup B /\ A \cap B = {}
        /\ IsFiniteSet(A) /\ IsFiniteSet(B) /\ Cardinality(B) = f[x]
        /\ Cardinality(A) \in Nat /\ f[x] \in Nat
    BY <1>2, <1>6, Zenon
  <2> HIDE DEF A, B
  <2>2. Cardinality(A \cup B) = Cardinality(A) + Cardinality(B) - Cardinality({})
    BY <2>1, FS_Union
  <2>3. Cardinality(Units(f, s)) = f[x] + Cardinality(A)
    BY <2>1, <2>2, FS_EmptySet
  <2> QED BY <2>3 DEF A
<1> QED BY <1>1, <1>6, <1>7, FS_EmptySet

\* The sum counts the units, in whatever order it is taken.
LEMMA TotalCounts ==
  ASSUME NEW S, IsFiniteSet(S), NEW f, \A x \in S : f[x] \in Nat
  PROVE  Total(f, S) = Cardinality(Units(f, S))
<1> DEFINE c(s) == CHOOSE x \in s : TRUE
           Eq(g) == g = [s \in SUBSET S |->
                           IF s = {} THEN 0 ELSE f[c(s)] + g[s \ {c(s)}]]
           count == [s \in SUBSET S |-> Cardinality(Units(f, s))]
           g == CHOOSE g : Eq(g)
<1>1. Total(f, S) = g[S]
  BY DEF Total, MapThenSumSet, MapThenFoldSet
<1>2. ASSUME NEW s \in SUBSET S, s # {} PROVE c(s) \in s /\ s \ {c(s)} \in SUBSET S
  BY <1>2
<1> HIDE DEF c
<1>3. \A s \in SUBSET S : count[s] = IF s = {} THEN 0 ELSE f[c(s)] + count[s \ {c(s)}]
  <2> SUFFICES ASSUME NEW s \in SUBSET S
               PROVE  count[s] = IF s = {} THEN 0 ELSE f[c(s)] + count[s \ {c(s)}]
    BY Zenon
  <2>1. CASE s = {}
    BY <2>1, UnitsCount
  <2>2. CASE s # {}
    <3>1. Cardinality(Units(f, s)) = f[c(s)] + Cardinality(Units(f, s \ {c(s)}))
      BY <1>2, <2>2, UnitsCount
    <3> QED BY <1>2, <2>2, <3>1
  <2> QED BY <2>1, <2>2
<1>4. Eq(count)
  <2>1. count = [s \in SUBSET S |-> count[s]]
    OBVIOUS
  <2> HIDE DEF count
  <2> QED BY <1>3, <2>1, Zenon
<1>5. Eq(g)
  <2> HIDE DEF Eq, count
  <2> QED BY <1>4
<1> HIDE DEF g
<1>6. \A s \in SUBSET S : g[s] = IF s = {} THEN 0 ELSE f[c(s)] + g[s \ {c(s)}]
  BY <1>5, Zenon
<1> HIDE DEF Eq, count
<1> DEFINE P == {s \in SUBSET S : g[s] = count[s]}
<1>7. {} \in P
  BY <1>3, <1>6, Zenon
<1>8. ASSUME NEW s \in SUBSET S, s # {}, \A x \in s : s \ {x} \in P PROVE s \in P
  <2>1. g[s \ {c(s)}] = count[s \ {c(s)}]
    BY <1>2, <1>8
  <2> QED BY <1>3, <1>6, <1>8, <2>1
<1> HIDE DEF P
<1>9. SUBSET S \subseteq P
  BY <1>7, <1>8, OverSubsets, Zenon
<1>10. g[S] = count[S]
  BY <1>9 DEF P
<1> QED BY <1>1, <1>10 DEF count

\* Sums are naturals, grow with the set, and one element more adds its own.
LEMMA TotalFacts ==
  ASSUME NEW S, IsFiniteSet(S), NEW f, \A x \in S : f[x] \in Nat
  PROVE  /\ Total(f, S) \in Nat /\ Total(f, {}) = 0
         /\ \A T \in SUBSET S : Total(f, T) \in Nat /\ Total(f, T) <= Total(f, S)
         /\ \A x \in S : Total(f, S) = f[x] + Total(f, S \ {x})
<1>1. \A T \in SUBSET S : IsFiniteSet(T) /\ \A x \in T : f[x] \in Nat
  BY FS_Subset
<1>2. \A T \in SUBSET S : Total(f, T) = Cardinality(Units(f, T))
  BY <1>1, TotalCounts
<1>3. ASSUME NEW T \in SUBSET S PROVE Cardinality(Units(f, T)) <= Cardinality(Units(f, S))
  <2>1. Units(f, T) \in SUBSET Units(f, S)
    BY DEF Units
  <2>2. IsFiniteSet(Units(f, S))
    BY UnitsCount
  <2> QED BY <2>1, <2>2, FS_Subset
<1>4. {} \in SUBSET S /\ S \in SUBSET S /\ \A x \in S : S \ {x} \in SUBSET S
  OBVIOUS
<1> QED BY <1>2, <1>3, <1>4, UnitsCount

(********************************** orders *********************************)

\* A finite set with an element has one that nothing precedes.
LEMMA FirstExists ==
  ASSUME NEW S, IsFiniteSet(S), S # {}, NEW R,
         \A x \in S : <<x, x>> \notin R,
         \A x, y, z \in S : <<x, y>> \in R /\ <<y, z>> \in R => <<x, z>> \in R
  PROVE  \E x \in S : \A y \in S : <<y, x>> \notin R
<1> DEFINE below(x) == {y \in S : <<y, x>> \in R}
           N == {k \in Nat : \E x \in S : Cardinality(below(x)) = k}
<1>1. \A x \in S : IsFiniteSet(below(x)) /\ Cardinality(below(x)) \in Nat
  <2> SUFFICES ASSUME NEW x \in S PROVE IsFiniteSet(below(x)) /\ Cardinality(below(x)) \in Nat
    OBVIOUS
  <2>1. below(x) \in SUBSET S
    OBVIOUS
  <2> HIDE DEF below
  <2> QED BY <2>1, FS_Subset, FS_CardinalityType
<1>2. N # {} /\ N \subseteq Nat
  <2> HIDE DEF below
  <2> QED BY <1>1
<1>3. PICK k \in N : \A n \in N : k <= n
  <2> HIDE DEF N
  <2> QED BY <1>2, Least, Zenon
<1>4. PICK x \in S : Cardinality(below(x)) = k
  BY <1>3
<1> SUFFICES ASSUME NEW y \in S, <<y, x>> \in R PROVE FALSE
  OBVIOUS
<1>5. below(y) \in SUBSET below(x) /\ y \in below(x) /\ y \notin below(y)
  OBVIOUS
<1> HIDE DEF below
<1>6. Cardinality(below(y)) < Cardinality(below(x))
  BY <1>1, <1>5, FS_Subset
<1>7. Cardinality(below(y)) \in N
  BY <1>1
<1> QED BY <1>1, <1>3, <1>4, <1>6, <1>7
=============================================================================
