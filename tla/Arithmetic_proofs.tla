-------------------------- MODULE Arithmetic_proofs --------------------------
(***************************************************************************)
(* Facts about data of any size that the proofs about the two services     *)
(* rest on: induction over the naturals, stated for sets so that a prover  *)
(* can use it; the powers of two, as the numbers of subsets; and the sum   *)
(* of a function over a finite set, which does not depend on the order in  *)
(* which its values are added.                                             *)
(***************************************************************************)
EXTENDS Integers, Functions, FiniteSetTheorems, WellFoundedInduction, TLAPS

(* Every set of naturals has a least element.                              *)
LEMMA LeastNatural ==
    ASSUME NEW T \in SUBSET Nat, T # {}
    PROVE  \E n \in T : \A m \in T : n <= m
<1>1. PICK R : R = OpToRel(<, Nat)
  OBVIOUS
<1>2. IsWellFoundedOn(R, Nat)
  BY <1>1, NatLessThanWellFounded, Zenon
<1>3. \E n \in T : \A m \in T : ~ (<<m, n>> \in R)
  BY <1>2, WFMin
<1>4. \A m, n \in Nat : m < n => <<m, n>> \in R
  BY <1>1 DEF OpToRel
<1>5. ASSUME NEW n \in T, NEW m \in T, ~ (m < n)
      PROVE  n <= m
  BY <1>5
<1> QED
  BY <1>3, <1>4, <1>5, Zenon

(* Induction: a set that contains 0 and every successor contains Nat.      *)
LEMMA Induction ==
    ASSUME NEW P, 0 \in P, \A n \in Nat : n \in P => n + 1 \in P
    PROVE  \A n \in Nat : n \in P
<1> SUFFICES ASSUME Nat \ P # {} PROVE FALSE
  OBVIOUS
<1>1. PICK n \in Nat \ P : \A m \in Nat \ P : n <= m
  BY LeastNatural
<1>2. n # 0 /\ n - 1 \in Nat
  BY <1>1
<1>3. n - 1 \in P
  BY <1>1, <1>2
<1> QED
  BY <1>1, <1>2, <1>3

-----------------------------------------------------------------------------
(* There are 2^n sets of numbers from 1 to n.                              *)
LEMMA PowerCounts ==
    ASSUME NEW n \in Nat
    PROVE  IsFiniteSet(SUBSET (1..n)) /\ Cardinality(SUBSET (1..n)) = 2 ^ n
<1>1. IsFiniteSet(1..n) /\ Cardinality(1..n) = n
  BY FS_Interval
<1> QED
  BY <1>1, FS_SUBSET

(* The powers of two are positive,                                         *)
LEMMA PowerPositive ==
    ASSUME NEW n \in Nat
    PROVE  2 ^ n \in Nat \ {0}
<1>1. {} \in SUBSET (1..n)
  OBVIOUS
<1>2. Cardinality(SUBSET (1..n)) \in Nat \ {0}
  BY <1>1, PowerCounts, FS_CardinalityType, FS_EmptySet
<1> QED
  BY <1>2, PowerCounts

(* grow with the exponent,                                                 *)
LEMMA PowerGrows ==
    ASSUME NEW m \in Nat, NEW n \in Nat, m <= n
    PROVE  2 ^ m <= 2 ^ n
<1>1. 1..m \subseteq 1..n
  OBVIOUS
<1>2. SUBSET (1..m) \in SUBSET (SUBSET (1..n))
  BY <1>1
<1>3. Cardinality(SUBSET (1..m)) <= Cardinality(SUBSET (1..n))
  BY <1>2, PowerCounts, FS_Subset
<1> QED
  BY <1>3, PowerCounts

(* and double with each: a set of numbers from 1 to n + 1 is one of those  *)
(* from 1 to n, with n + 1 or without.                                     *)
LEMMA PowerDoubles ==
    ASSUME NEW n \in Nat
    PROVE  2 ^ (n + 1) = 2 * 2 ^ n
<1> DEFINE Without == SUBSET (1..n)
<1> DEFINE With == {X \cup {n + 1} : X \in Without}
<1>1. IsFiniteSet(Without) /\ Cardinality(Without) = 2 ^ n
  BY PowerCounts
<1>2. IsFiniteSet(With) /\ Cardinality(With) = 2 ^ n
  <2> DEFINE f == [X \in Without |-> X \cup {n + 1}]
  <2>1. \A X \in Without : n + 1 \notin X
    OBVIOUS
  <2>2. \A X, Y \in Without : f[X] = f[Y] => X = Y
    BY <2>1
  <2>3. f \in [Without -> With] /\ \A Y \in With : \E X \in Without : f[X] = Y
    OBVIOUS
  <2> HIDE DEF f, With, Without
  <2>4. f \in Bijection(Without, With)
    BY <2>2, <2>3 DEF Bijection, Injection, Surjection, IsInjective
  <2> QED BY <1>1, <2>4, FS_Bijection DEF ExistsBijection
<1>3. SUBSET (1..(n + 1)) = Without \cup With
  <2>1. \A Y \in SUBSET (1..(n + 1)) : Y \in Without \/ Y \in With
    <3> SUFFICES ASSUME NEW Y \in SUBSET (1..(n + 1)), n + 1 \in Y
                 PROVE  Y \in With
      OBVIOUS
    <3>1. Y \ {n + 1} \in Without /\ Y = (Y \ {n + 1}) \cup {n + 1}
      OBVIOUS
    <3> QED BY <3>1
  <2>2. Without \cup With \subseteq SUBSET (1..(n + 1))
    <3>1. \A X \in Without : X \subseteq 1..(n + 1)
      OBVIOUS
    <3>2. n + 1 \in 1..(n + 1)
      OBVIOUS
    <3>3. \A X \in Without : X \cup {n + 1} \subseteq 1..(n + 1)
      BY <3>1, <3>2
    <3> QED BY <3>1, <3>3
  <2> HIDE DEF Without, With
  <2> QED BY <2>1, <2>2
<1>4. Without \cap With = {}
  <2>1. \A X \in Without : n + 1 \notin X
    OBVIOUS
  <2>2. \A X \in With : n + 1 \in X
    OBVIOUS
  <2> QED BY <2>1, <2>2
<1>5. Cardinality(SUBSET (1..(n + 1))) = 2 ^ n + 2 ^ n - 0
  <2> HIDE DEF Without, With
  <2> QED BY <1>1, <1>2, <1>3, <1>4, FS_Union, FS_EmptySet
<1>6. PICK power \in Nat : power = 2 ^ n
  BY PowerPositive
<1>7. PICK m \in Nat : m = n + 1
  OBVIOUS
<1>8. 2 ^ m = power + power - 0
  BY <1>5, <1>6, <1>7, PowerCounts
<1> QED
  BY <1>6, <1>7, <1>8

-----------------------------------------------------------------------------
(* SumFunctionOnSet adds the value at one element after the other.         *)
Pick(s) == CHOOSE x \in s : TRUE

IsSum(g, F, S) ==
    g = [s \in SUBSET S |-> IF s = {} THEN 0 ELSE F[Pick(s)] + g[s \ {Pick(s)}]]

Totals(F, S) == CHOOSE g : IsSum(g, F, S)

(* It is the total over all elements.                                      *)
LEMMA SumUnfolds ==
    ASSUME NEW F, NEW S
    PROVE  SumFunctionOnSet(F, S) = Totals(F, S)[S]
  BY Zenon DEF SumFunctionOnSet, FoldFunctionOnSet, MapThenFoldSet, Totals, IsSum, Pick

(* A nonempty set is one larger than what is left without its first.       *)
LEMMA PickFacts ==
    ASSUME NEW s, IsFiniteSet(s), s # {}
    PROVE  /\ Pick(s) \in s
           /\ IsFiniteSet(s \ {Pick(s)})
           /\ Cardinality(s \ {Pick(s)}) = Cardinality(s) - 1
           /\ Cardinality(s) \in Nat \ {0}
<1>1. Pick(s) \in s
  BY DEF Pick
<1> QED
  BY <1>1, FS_RemoveElement, FS_CardinalityType, FS_EmptySet

Small(S, n) == {s \in SUBSET S : Cardinality(s) <= n}

SumUpTo(g, F, S, n) ==
    \A s \in Small(S, n) : g[s] = IF s = {} THEN 0 ELSE F[Pick(s)] + g[s \ {Pick(s)}]

(* There are such totals, by induction on the size of the subsets.         *)
LEMMA SumExists ==
    ASSUME NEW S, IsFiniteSet(S), NEW F, \A x \in S : F[x] \in Int
    PROVE  \E g \in [SUBSET S -> Int] : IsSum(g, F, S)
<1> DEFINE P == {n \in Nat : \E g \in [Small(S, n) -> Int] : SumUpTo(g, F, S, n)}
<1>0. \A s \in SUBSET S : IsFiniteSet(s) /\ Cardinality(s) \in Nat
  BY FS_Subset, FS_CardinalityType
<1>1. 0 \in P
  <2>1. \A s \in Small(S, 0) : s = {}
    BY <1>0, FS_EmptySet DEF Small
  <2>2. [s \in Small(S, 0) |-> 0] \in [Small(S, 0) -> Int]
    OBVIOUS
  <2>3. SumUpTo([s \in Small(S, 0) |-> 0], F, S, 0)
    BY <2>1 DEF SumUpTo
  <2> QED BY <2>2, <2>3
<1>2. ASSUME NEW n \in Nat, n \in P
      PROVE  n + 1 \in P
  <2>1. PICK g \in [Small(S, n) -> Int] : SumUpTo(g, F, S, n)
    BY <1>2
  <2> DEFINE h == [s \in Small(S, n + 1) |->
                      IF s = {} THEN 0 ELSE F[Pick(s)] + g[s \ {Pick(s)}]]
  <2>2. ASSUME NEW s \in Small(S, n + 1), s # {}
        PROVE  Pick(s) \in S /\ s \ {Pick(s)} \in Small(S, n)
    BY <1>0, <2>2, PickFacts DEF Small
  <2>3. h \in [Small(S, n + 1) -> Int]
    BY <2>2
  <2>4. \A s \in Small(S, n) : s \in Small(S, n + 1) /\ h[s] = g[s]
    BY <1>0, <2>1 DEF Small, SumUpTo
  <2>5. SumUpTo(h, F, S, n + 1)
    BY <2>2, <2>4 DEF SumUpTo
  <2> HIDE DEF h
  <2> QED BY <2>3, <2>5
<1>3. Cardinality(S) \in P
  <2> HIDE DEF P
  <2> QED BY <1>0, <1>1, <1>2, Induction
<1>4. Small(S, Cardinality(S)) = SUBSET S
  BY FS_Subset DEF Small
<1>5. PICK g \in [SUBSET S -> Int] : SumUpTo(g, F, S, Cardinality(S))
  BY <1>3, <1>4
<1>6. g = [s \in SUBSET S |-> IF s = {} THEN 0 ELSE F[Pick(s)] + g[s \ {Pick(s)}]]
  BY <1>4, <1>5 DEF SumUpTo
<1> QED
  BY <1>6 DEF IsSum

(* The totals of two functions agree on the subsets where these do.        *)
LEMMA SumUnique ==
    ASSUME NEW S, NEW T, IsFiniteSet(S), S \subseteq T, NEW F, NEW G, NEW g, NEW h,
           \A x \in S : F[x] = G[x], IsSum(g, F, S), IsSum(h, G, T)
    PROVE  \A s \in SUBSET S : g[s] = h[s]
<1> DEFINE P == {n \in Nat : \A s \in SUBSET S : Cardinality(s) = n => g[s] = h[s]}
<1>0. \A s \in SUBSET S : IsFiniteSet(s) /\ Cardinality(s) \in Nat /\ s \in SUBSET T
  BY FS_Subset, FS_CardinalityType
<1>1. \A s \in SUBSET S : g[s] = IF s = {} THEN 0 ELSE F[Pick(s)] + g[s \ {Pick(s)}]
  BY DEF IsSum
<1>2. \A s \in SUBSET S : h[s] = IF s = {} THEN 0 ELSE G[Pick(s)] + h[s \ {Pick(s)}]
  BY <1>0 DEF IsSum
<1>3. 0 \in P
  BY <1>0, <1>1, <1>2, FS_EmptySet
<1>4. ASSUME NEW n \in Nat, n \in P
      PROVE  n + 1 \in P
  <2> SUFFICES ASSUME NEW s \in SUBSET S, Cardinality(s) = n + 1
               PROVE  g[s] = h[s]
    OBVIOUS
  <2>1. s # {}
    BY FS_EmptySet
  <2>2. Pick(s) \in S /\ s \ {Pick(s)} \in SUBSET S /\ Cardinality(s \ {Pick(s)}) = n
    BY <1>0, <2>1, PickFacts
  <2> QED BY <1>1, <1>2, <1>4, <2>1, <2>2
<1>5. \A n \in Nat : n \in P
  <2> HIDE DEF P
  <2> QED BY <1>3, <1>4, Induction
<1> QED
  BY <1>0, <1>5

(* So there is one function of totals, with integer values.                *)
LEMMA TotalsFacts ==
    ASSUME NEW S, IsFiniteSet(S), NEW F, \A x \in S : F[x] \in Int
    PROVE  IsSum(Totals(F, S), F, S) /\ \A s \in SUBSET S : Totals(F, S)[s] \in Int
<1>1. PICK g \in [SUBSET S -> Int] : IsSum(g, F, S)
  BY SumExists
<1>2. IsSum(Totals(F, S), F, S)
  BY <1>1 DEF Totals
<1>3. \A s \in SUBSET S : Totals(F, S)[s] = g[s]
  BY <1>1, <1>2, SumUnique
<1> QED
  BY <1>1, <1>2, <1>3

(* Any element may be taken for the first.                                 *)
LEMMA SumInAnyOrder ==
    ASSUME NEW S, IsFiniteSet(S), NEW F, \A x \in S : F[x] \in Int,
           NEW x \in S
    PROVE  Totals(F, S)[S] = F[x] + Totals(F, S)[S \ {x}]
<1>g. PICK g : g = Totals(F, S)
  OBVIOUS
<1>s. IsSum(g, F, S) /\ \A s \in SUBSET S : g[s] \in Int
  BY <1>g, TotalsFacts
<1> DEFINE P == {n \in Nat : \A s \in SUBSET S :
                    Cardinality(s) = n => \A y \in s : g[s] = F[y] + g[s \ {y}]}
<1>0. \A s \in SUBSET S : IsFiniteSet(s) /\ Cardinality(s) \in Nat
  BY FS_Subset, FS_CardinalityType
<1>1. \A s \in SUBSET S : s # {} => g[s] = F[Pick(s)] + g[s \ {Pick(s)}]
  BY <1>s DEF IsSum
<1>2. 0 \in P
  BY <1>0, FS_EmptySet
<1>3. ASSUME NEW n \in Nat, n \in P
      PROVE  n + 1 \in P
  <2> SUFFICES ASSUME NEW s \in SUBSET S, Cardinality(s) = n + 1, NEW z \in s
               PROVE  g[s] = F[z] + g[s \ {z}]
    OBVIOUS
  <2>1. CASE z = Pick(s)
    BY <1>1, <2>1
  <2>2. CASE z # Pick(s)
    <3>1. PICK y \in s : y = Pick(s)
      BY DEF Pick
    <3>2. PICK u \in SUBSET S : u = s \ {y}
      OBVIOUS
    <3>3. PICK v \in SUBSET S : v = s \ {z}
      OBVIOUS
    <3>4. PICK w \in SUBSET S : w = u \ {z} /\ w = v \ {y}
      BY <3>2, <3>3
    <3>5. ASSUME NEW q \in s
          PROVE  Cardinality(s \ {q}) = n
      <4>1. IsFiniteSet(s)
        BY <1>0
      <4>2. Cardinality(s \ {q}) = Cardinality(s) - 1
        BY <4>1, FS_RemoveElement
      <4> QED BY <4>2
    <3>6. Cardinality(u) = n /\ Cardinality(v) = n
      BY <3>1, <3>2, <3>3, <3>5
    <3>7. z \in u /\ y \in v
      BY <2>2, <3>1, <3>2, <3>3
    <3>8. g[u] = F[z] + g[w] /\ g[v] = F[y] + g[w]
      BY <1>3, <3>4, <3>6, <3>7
    <3>9. g[s] = F[y] + g[u]
      BY <1>1, <3>1, <3>2
    <3>10. F[z] \in Int /\ F[y] \in Int /\ g[w] \in Int
      BY <1>s
    <3>11. g[s] = F[z] + g[v]
      BY <3>8, <3>9, <3>10
    <3> QED BY <3>3, <3>11
  <2> QED BY <2>1, <2>2
<1>4. \A n \in Nat : n \in P
  <2> HIDE DEF P
  <2> QED BY <1>2, <1>3, Induction
<1> QED
  BY <1>0, <1>4, <1>g

(* The sum over nothing.                                                   *)
LEMMA SumOfNothing ==
    ASSUME NEW F
    PROVE  SumFunctionOnSet(F, {}) = 0
<1>1. IsFiniteSet({})
  BY FS_EmptySet
<1>2. IsSum(Totals(F, {}), F, {})
  BY <1>1, TotalsFacts
<1> QED
  BY <1>2, SumUnfolds DEF IsSum

(* A sum of integers is an integer.                                        *)
LEMMA SumIsInteger ==
    ASSUME NEW S, IsFiniteSet(S), NEW F, \A x \in S : F[x] \in Int
    PROVE  SumFunctionOnSet(F, S) \in Int
  BY TotalsFacts, SumUnfolds

(* A sum depends on the values of its elements only.                       *)
LEMMA SumOfSame ==
    ASSUME NEW S, IsFiniteSet(S), NEW F, NEW G,
           \A x \in S : F[x] \in Int /\ G[x] = F[x]
    PROVE  SumFunctionOnSet(G, S) = SumFunctionOnSet(F, S)
<1>1. IsSum(Totals(F, S), F, S) /\ IsSum(Totals(G, S), G, S)
  BY TotalsFacts
<1>2. \A x \in S : F[x] = G[x]
  OBVIOUS
<1>3. \A s \in SUBSET S : Totals(F, S)[s] = Totals(G, S)[s]
  BY <1>1, <1>2, SumUnique
<1> QED
  BY <1>3, SumUnfolds

(* One more element adds its value, wherever it comes in the order.        *)
LEMMA SumOfOneMore ==
    ASSUME NEW S, IsFiniteSet(S), NEW x, x \notin S, NEW F, F[x] \in Int,
           \A y \in S : F[y] \in Int
    PROVE  /\ SumFunctionOnSet(F, S) \in Int
           /\ SumFunctionOnSet(F, S \cup {x}) = SumFunctionOnSet(F, S) + F[x]
<1>1. PICK T : T = S \cup {x}
  OBVIOUS
<1>2. IsFiniteSet(T) /\ \A y \in T : F[y] \in Int
  BY <1>1, FS_AddElement
<1>3. PICK g : g = Totals(F, S)
  OBVIOUS
<1>4. PICK h : h = Totals(F, T)
  OBVIOUS
<1>5. IsSum(g, F, S) /\ \A s \in SUBSET S : g[s] \in Int
  BY <1>3, TotalsFacts
<1>6. IsSum(h, F, T) /\ \A s \in SUBSET T : h[s] \in Int
  BY <1>2, <1>4, TotalsFacts
<1>7. h[T] = F[x] + h[T \ {x}]
  BY <1>1, <1>2, <1>4, SumInAnyOrder
<1>8. \A s \in SUBSET S : g[s] = h[s]
  BY <1>1, <1>5, <1>6, SumUnique
<1>9. T \ {x} = S /\ x \in T
  BY <1>1
<1>10. SumFunctionOnSet(F, S) = g[S] /\ SumFunctionOnSet(F, T) = h[T]
  BY <1>3, <1>4, SumUnfolds
<1>11. h[T] = F[x] + h[S] /\ g[S] = h[S]
  BY <1>7, <1>8, <1>9
<1> QED
  BY <1>1, <1>5, <1>10, <1>11
=============================================================================
