---------------------------- MODULE SumTheorems ----------------------------
(***************************************************************************)
(* Facts about SumFunction, which the counters of Recovery, the tables of  *)
(* WriteBehind and the penalties of TeamSplit are built from.  A sum is a  *)
(* fold, that is, a recursive function on the subsets of its domain.  What *)
(* such a function computes is found by induction; here it is in the form  *)
(* of the least counterexample, so that each step is first-order.  At the  *)
(* end, what the remainder of a counter that wraps around keeps.           *)
(***************************************************************************)
EXTENDS Integers, FiniteSets, Functions, FiniteSetTheorems, WellFoundedInduction, TLAPS

(* Every nonempty set of natural numbers has a least element. *)
LEMMA LeastNumber ==
  ASSUME NEW N \in SUBSET Nat, N # {}
  PROVE  \E n \in N : \A m \in N : n <= m
<1> DEFINE R == {ss \in Nat \X Nat : ss[1] < ss[2]}
<1>1. IsWellFoundedOn(R, Nat)
  BY NatLessThanWellFounded DEF OpToRel
<1>2. \E x \in N : \A y \in N : ~ (<<y, x>> \in R)
  <2> HIDE DEF R
  <2> QED BY <1>1, WFMin
<1>3. PICK x \in N : \A y \in N : ~ (<<y, x>> \in R)
  BY <1>2
<1>4. ASSUME NEW y \in N
      PROVE  x <= y
  <2>1. ~ (<<y, x>> \in R)
    BY <1>3
  <2>2. <<y, x>> \in Nat \X Nat
    OBVIOUS
  <2> QED BY <2>1, <2>2
<1> QED BY <1>3, <1>4

(* Induction over the subsets of a finite set, for a set G of good ones:   *)
(* when {} is good and one element more keeps a set good, the set is good. *)
LEMMA SubsetInduction ==
  ASSUME NEW S, IsFiniteSet(S), NEW G, {} \in G,
         \A T \in SUBSET S : \A x \in S \ T : T \in G => T \cup {x} \in G
  PROVE  S \in G
<1> DEFINE Missed == {n \in Nat : \E T \in SUBSET S : T \notin G /\ Cardinality(T) = n}
<1>1. SUFFICES ASSUME S \notin G
               PROVE  FALSE
  OBVIOUS
<1>2. Missed # {}
  BY <1>1, FS_CardinalityType
<1>3. PICK n \in Missed : \A m \in Missed : n <= m
  <2>1. Missed \in SUBSET Nat
    OBVIOUS
  <2> HIDE DEF Missed
  <2> QED BY <2>1, <1>2, LeastNumber
<1>4. PICK T \in SUBSET S : T \notin G /\ Cardinality(T) = n
  BY <1>3
<1>5. IsFiniteSet(T)
  BY FS_Subset
<1>6. PICK x \in T : TRUE
  BY <1>4
<1>7. /\ T \ {x} \in SUBSET S /\ x \in S \ (T \ {x}) /\ (T \ {x}) \cup {x} = T
      /\ Cardinality(T \ {x}) = n - 1 /\ Cardinality(T \ {x}) \in Nat /\ n \in Nat
  <2>1. /\ T \ {x} \in SUBSET S /\ x \in S \ (T \ {x})
        /\ IsFiniteSet(T \ {x}) /\ Cardinality(T \ {x}) = Cardinality(T) - 1
    BY <1>5, <1>6, FS_RemoveElement
  <2>2. (T \ {x}) \cup {x} = T
    BY <1>6
  <2> QED BY <2>1, <2>2, <1>3, <1>4, FS_CardinalityType
<1>8. T \ {x} \notin G
  BY <1>4, <1>7
<1>9. n - 1 \in Missed
  BY <1>7, <1>8
<1> QED
  <2>1. n <= n - 1
    BY <1>3, <1>9
  <2> QED BY <2>1, <1>7

-----------------------------------------------------------------------------
(* The element a sum takes out of its set, and the equation of the fold:   *)
(* g holds the sum of f over each subset of S.                             *)
Chosen(T) == CHOOSE x \in T : TRUE

Folds(g, f, S) ==
  g = [T \in SUBSET S |-> IF T = {} THEN 0 ELSE f[Chosen(T)] + g[T \ {Chosen(T)}]]

(* The element taken out is one of the set. *)
LEMMA ChosenIn == ASSUME NEW T, T # {} PROVE Chosen(T) \in T
BY DEF Chosen

(* There is such a g: for the sets of at most n elements, n rising. *)
LEMMA FoldExists ==
  ASSUME NEW S, IsFiniteSet(S), NEW f, \A x \in S : f[x] \in Int
  PROVE  \E g \in [SUBSET S -> Int] : Folds(g, f, S)
<1> DEFINE Upto(n, g) ==
      \A T \in SUBSET S : Cardinality(T) <= n =>
        g[T] = IF T = {} THEN 0 ELSE f[Chosen(T)] + g[T \ {Chosen(T)}]
    Missed == {n \in Nat : ~ \E g \in [SUBSET S -> Int] : Upto(n, g)}
<1>1. \A T \in SUBSET S : IsFiniteSet(T) /\ Cardinality(T) \in Nat
  BY FS_Subset, FS_CardinalityType
<1>2. \A T \in SUBSET S : T # {} =>
        /\ Chosen(T) \in T /\ f[Chosen(T)] \in Int
        /\ T \ {Chosen(T)} \in SUBSET S
        /\ Cardinality(T \ {Chosen(T)}) = Cardinality(T) - 1
  BY <1>1, ChosenIn, FS_RemoveElement
<1>3. 0 \notin Missed
  <2> DEFINE g == [T \in SUBSET S |-> 0]
  <2>1. ASSUME NEW T \in SUBSET S, Cardinality(T) <= 0
        PROVE  T = {}
    BY <2>1, <1>1, FS_EmptySet
  <2>2. g \in [SUBSET S -> Int] /\ Upto(0, g)
    BY <2>1
  <2> QED BY <2>2
<1>4. ASSUME NEW n \in Nat, n \notin Missed
      PROVE  n + 1 \notin Missed
  <2>1. PICK g \in [SUBSET S -> Int] : Upto(n, g)
    BY <1>4
  <2> DEFINE h == [T \in SUBSET S |->
        IF Cardinality(T) <= n THEN g[T] ELSE f[Chosen(T)] + g[T \ {Chosen(T)}]]
  <2>2. h \in [SUBSET S -> Int]
    <3>1. ASSUME NEW T \in SUBSET S
          PROVE  h[T] \in Int
      <4>1. CASE Cardinality(T) <= n
        BY <4>1
      <4>2. CASE ~ Cardinality(T) <= n
        <5>1. T # {}
          BY <4>2, FS_EmptySet
        <5>2. g[T \ {Chosen(T)}] \in Int /\ f[Chosen(T)] \in Int
          BY <5>1, <1>2
        <5> QED BY <4>2, <5>2
      <4> QED BY <4>1, <4>2
    <3> QED BY <3>1
  <2>3. ASSUME NEW T \in SUBSET S, Cardinality(T) <= n + 1
        PROVE  h[T] = IF T = {} THEN 0 ELSE f[Chosen(T)] + h[T \ {Chosen(T)}]
    <3>1. CASE T = {}
      <4>1. Cardinality(T) <= n
        BY <3>1, FS_EmptySet
      <4> QED BY <4>1, <3>1, <2>1
    <3>2. CASE T # {}
      <4>1. /\ Cardinality(T \ {Chosen(T)}) <= n
            /\ T \ {Chosen(T)} \in SUBSET S
        BY <3>2, <1>1, <1>2, <2>3
      <4>2. h[T \ {Chosen(T)}] = g[T \ {Chosen(T)}]
        BY <4>1
      <4>3. h[T] = f[Chosen(T)] + g[T \ {Chosen(T)}]
        BY <3>2, <2>1
      <4> QED BY <4>2, <4>3, <3>2
    <3> QED BY <3>1, <3>2
  <2>4. Upto(n + 1, h)
    BY <2>3
  <2> QED BY <2>2, <2>4
<1>5. Missed = {}
  <2>1. SUFFICES ASSUME Missed # {}
                 PROVE  FALSE
    OBVIOUS
  <2>2. Missed \in SUBSET Nat
    OBVIOUS
  <2> HIDE DEF Missed
  <2>3. PICK n \in Missed : \A m \in Missed : n <= m
    BY <2>1, <2>2, LeastNumber
  <2>4. n \in Nat /\ n # 0
    BY <2>2, <2>3, <1>3
  <2>5. n - 1 \in Nat /\ n - 1 \in Missed
    BY <2>4, <1>4, <2>3
  <2> QED BY <2>3, <2>4, <2>5
<1>6. PICK g \in [SUBSET S -> Int] : Upto(Cardinality(S), g)
  BY <1>1, <1>5
<1>7. \A T \in SUBSET S : Cardinality(T) <= Cardinality(S)
  BY FS_Subset
<1>8. Folds(g, f, S)
  <2>1. \A T \in SUBSET S : g[T] = IF T = {} THEN 0 ELSE f[Chosen(T)] + g[T \ {Chosen(T)}]
    BY <1>6, <1>7
  <2> QED BY <2>1 DEF Folds
<1> QED BY <1>8

(* And only one, whichever set it is taken over. *)
LEMMA FoldUnique ==
  ASSUME NEW S, NEW R, NEW f, NEW g, NEW h, Folds(g, f, S), Folds(h, f, R),
         NEW T \in SUBSET S, T \subseteq R, IsFiniteSet(T)
  PROVE  g[T] = h[T]
<1> DEFINE Differ == {n \in Nat : \E U \in SUBSET T : g[U] # h[U] /\ Cardinality(U) = n}
<1>1. \A U \in SUBSET T : IsFiniteSet(U) /\ Cardinality(U) \in Nat
  BY FS_Subset, FS_CardinalityType
<1>2. Differ = {}
  <2>1. SUFFICES ASSUME Differ # {}
                 PROVE  FALSE
    OBVIOUS
  <2>2. PICK n \in Differ : \A m \in Differ : n <= m
    <3>1. Differ \in SUBSET Nat
      OBVIOUS
    <3> HIDE DEF Differ
    <3> QED BY <3>1, <2>1, LeastNumber
  <2>3. PICK U \in SUBSET T : g[U] # h[U] /\ Cardinality(U) = n
    BY <2>2
  <2>4. U \in SUBSET S /\ U \in SUBSET R
    OBVIOUS
  <2>5. U # {}
    BY <2>3, <2>4 DEF Folds
  <2> DEFINE V == U \ {Chosen(U)}
  <2>6. V \in SUBSET T /\ Cardinality(V) = n - 1 /\ Cardinality(V) \in Nat
    BY <2>3, <2>5, <1>1, ChosenIn, FS_RemoveElement
  <2>7. g[U] = f[Chosen(U)] + g[V] /\ h[U] = f[Chosen(U)] + h[V]
    BY <2>4, <2>5 DEF Folds
  <2>8. g[V] # h[V]
    BY <2>3, <2>7
  <2>9. n - 1 \in Differ
    BY <2>6, <2>8
  <2> QED
    <3>1. n <= n - 1 /\ n \in Nat
      BY <2>2, <2>9
    <3> QED BY <3>1
<1> QED BY <1>1, <1>2

(* SumFunctionOnSet is that g. *)
LEMMA SumIsFold ==
  ASSUME NEW S, IsFiniteSet(S), NEW f, \A x \in S : f[x] \in Int,
         NEW g, Folds(g, f, S), NEW T \in SUBSET S
  PROVE  SumFunctionOnSet(f, T) = g[T]
<1>1. IsFiniteSet(T) /\ \A x \in T : f[x] \in Int
  BY FS_Subset
<1> DEFINE c == CHOOSE h : Folds(h, f, T)
<1>2. SumFunctionOnSet(f, T) = c[T]
  BY DEF SumFunctionOnSet, FoldFunctionOnSet, MapThenFoldSet, Folds, Chosen
<1>3. Folds(c, f, T)
  BY <1>1, FoldExists
<1> HIDE DEF c
<1> QED BY <1>1, <1>2, <1>3, FoldUnique

-----------------------------------------------------------------------------
(* The sum over no element. *)
LEMMA SumEmpty == ASSUME NEW f PROVE SumFunctionOnSet(f, {}) = 0
<1>1. PICK g \in [SUBSET {} -> Int] : Folds(g, f, {})
  BY FoldExists, FS_EmptySet
<1>2. SumFunctionOnSet(f, {}) = g[{}]
  BY <1>1, SumIsFold, FS_EmptySet
<1> QED BY <1>1, <1>2 DEF Folds

(* Sums of integers are integers. *)
LEMMA SumInt ==
  ASSUME NEW S, IsFiniteSet(S), NEW f, \A x \in S : f[x] \in Int
  PROVE  SumFunctionOnSet(f, S) \in Int
<1>1. PICK g \in [SUBSET S -> Int] : Folds(g, f, S)
  BY FoldExists
<1>2. SumFunctionOnSet(f, S) = g[S]
  BY <1>1, SumIsFold
<1> QED BY <1>1, <1>2

(* The sum does not depend on the order in which elements are taken out. *)
LEMMA SumTakeOut ==
  ASSUME NEW S, IsFiniteSet(S), NEW f, \A x \in S : f[x] \in Int, NEW x \in S
  PROVE  SumFunctionOnSet(f, S) = f[x] + SumFunctionOnSet(f, S \ {x})
<1>1. PICK g \in [SUBSET S -> Int] : Folds(g, f, S)
  BY FoldExists
<1>2. \A T \in SUBSET S : SumFunctionOnSet(f, T) = g[T]
  BY <1>1, SumIsFold
<1>3. \A T \in SUBSET S : T # {} =>
        /\ Chosen(T) \in T /\ T \ {Chosen(T)} \in SUBSET S
        /\ g[T] = f[Chosen(T)] + g[T \ {Chosen(T)}]
  BY <1>1, ChosenIn DEF Folds
<1> DEFINE Odd == {n \in Nat : \E T \in SUBSET S :
                     Cardinality(T) = n /\ \E y \in T : g[T] # f[y] + g[T \ {y}]}
<1>4. Odd = {}
  <2>1. SUFFICES ASSUME Odd # {}
                 PROVE  FALSE
    OBVIOUS
  <2>2. PICK n \in Odd : \A m \in Odd : n <= m
    <3>1. Odd \in SUBSET Nat
      OBVIOUS
    <3> HIDE DEF Odd
    <3> QED BY <3>1, <2>1, LeastNumber
  <2>3. PICK T \in SUBSET S : Cardinality(T) = n /\ \E y \in T : g[T] # f[y] + g[T \ {y}]
    BY <2>2
  <2>4. PICK y \in T : g[T] # f[y] + g[T \ {y}]
    BY <2>3
  <2> DEFINE z == Chosen(T)
  <2>5. z \in T /\ g[T] = f[z] + g[T \ {z}]
    BY <1>3
  <2>6. y # z
    BY <2>4, <2>5
  <2>7. /\ Cardinality(T \ {y}) = n - 1 /\ n - 1 \in Nat
        /\ Cardinality(T \ {z}) = n - 1
    <3>1. IsFiniteSet(T)
      BY FS_Subset
    <3>2. Cardinality(T \ {y}) = n - 1 /\ Cardinality(T \ {z}) = n - 1
      BY <3>1, <2>3, <2>5, FS_RemoveElement
    <3>3. IsFiniteSet(T \ {y})
      BY <3>1, FS_Subset
    <3> QED BY <3>2, <3>3, FS_CardinalityType
  <2>8. n - 1 \notin Odd
    <3>1. SUFFICES ASSUME n - 1 \in Odd
                   PROVE  FALSE
      OBVIOUS
    <3>2. n <= n - 1 /\ n \in Nat
      BY <2>2, <3>1
    <3> QED BY <3>2
  <2>9. /\ g[T \ {z}] = f[y] + g[(T \ {z}) \ {y}]
        /\ g[T \ {y}] = f[z] + g[(T \ {y}) \ {z}]
    <3>1. T \ {z} \in SUBSET S /\ T \ {y} \in SUBSET S /\ y \in T \ {z} /\ z \in T \ {y}
      BY <2>4, <2>5, <2>6
    <3> HIDE DEF z
    <3> QED BY <3>1, <2>7, <2>8
  <2>10. (T \ {z}) \ {y} = (T \ {y}) \ {z}
    OBVIOUS
  <2>11. f[y] \in Int /\ f[z] \in Int /\ g[(T \ {z}) \ {y}] \in Int
    BY <2>4, <2>5
  <2> HIDE DEF z
  <2>12. g[T] = f[z] + (f[y] + g[(T \ {z}) \ {y}])
    BY <2>5, <2>9
  <2>13. f[y] + g[T \ {y}] = f[y] + (f[z] + g[(T \ {z}) \ {y}])
    BY <2>9, <2>10
  <2>14. g[T] = f[y] + g[T \ {y}]
    BY <2>11, <2>12, <2>13
  <2> QED BY <2>4, <2>14
<1>5. \A T \in SUBSET S : Cardinality(T) \in Nat
  BY FS_Subset, FS_CardinalityType
<1>6. g[S] = f[x] + g[S \ {x}]
  BY <1>4, <1>5
<1> QED BY <1>2, <1>6

(* One element more adds its value. *)
LEMMA SumPutIn ==
  ASSUME NEW S, IsFiniteSet(S), NEW x, x \notin S, NEW f, \A y \in S \cup {x} : f[y] \in Int
  PROVE  SumFunctionOnSet(f, S \cup {x}) = f[x] + SumFunctionOnSet(f, S)
<1>1. IsFiniteSet(S \cup {x})
  BY FS_AddElement
<1>2. (S \cup {x}) \ {x} = S
  OBVIOUS
<1>3. SumFunctionOnSet(f, S \cup {x}) = f[x] + SumFunctionOnSet(f, (S \cup {x}) \ {x})
  BY <1>1, SumTakeOut
<1> QED BY <1>2, <1>3

(* Larger terms, larger sum. *)
LEMMA SumMonotone ==
  ASSUME NEW S, IsFiniteSet(S), NEW f, NEW g,
         \A x \in S : f[x] \in Int /\ g[x] \in Int /\ f[x] <= g[x]
  PROVE  SumFunctionOnSet(f, S) <= SumFunctionOnSet(g, S)
<1> DEFINE G == {T \in SUBSET S : SumFunctionOnSet(f, T) <= SumFunctionOnSet(g, T)}
<1>1. {} \in G
  BY SumEmpty
<1>2. ASSUME NEW T \in SUBSET S, NEW x \in S \ T, T \in G
      PROVE  T \cup {x} \in G
  <2>1. IsFiniteSet(T)
    BY FS_Subset
  <2>2. /\ SumFunctionOnSet(f, T) \in Int /\ SumFunctionOnSet(g, T) \in Int
        /\ SumFunctionOnSet(f, T) <= SumFunctionOnSet(g, T)
    BY <2>1, <1>2, SumInt
  <2>3. SumFunctionOnSet(f, T \cup {x}) = f[x] + SumFunctionOnSet(f, T)
    BY <2>1, <1>2, SumPutIn
  <2>4. SumFunctionOnSet(g, T \cup {x}) = g[x] + SumFunctionOnSet(g, T)
    BY <2>1, <1>2, SumPutIn
  <2>5. f[x] + SumFunctionOnSet(f, T) <= g[x] + SumFunctionOnSet(g, T)
    BY <2>2, <1>2
  <2> QED BY <2>3, <2>4, <2>5
<1> HIDE DEF G
<1>3. S \in G
  BY <1>1, <1>2, SubsetInduction
<1> QED BY <1>3 DEF G

(* Equal terms have equal sums. *)
LEMMA SumEqual ==
  ASSUME NEW S, IsFiniteSet(S), NEW f, NEW g, \A x \in S : f[x] \in Int /\ f[x] = g[x]
  PROVE  SumFunctionOnSet(f, S) = SumFunctionOnSet(g, S)
<1>1. /\ SumFunctionOnSet(f, S) <= SumFunctionOnSet(g, S)
      /\ SumFunctionOnSet(g, S) <= SumFunctionOnSet(f, S)
  BY SumMonotone
<1>2. SumFunctionOnSet(f, S) \in Int /\ SumFunctionOnSet(g, S) \in Int
  BY SumInt
<1> QED BY <1>1, <1>2

(* Zeros add up to zero. *)
LEMMA SumOfZeros ==
  ASSUME NEW S, IsFiniteSet(S), NEW f, \A x \in S : f[x] = 0
  PROVE  SumFunctionOnSet(f, S) = 0
<1> DEFINE G == {T \in SUBSET S : SumFunctionOnSet(f, T) = 0}
<1>1. {} \in G
  BY SumEmpty
<1>2. ASSUME NEW T \in SUBSET S, NEW x \in S \ T, T \in G
      PROVE  T \cup {x} \in G
  <2>1. IsFiniteSet(T) /\ x \notin T /\ \A y \in T \cup {x} : f[y] \in Int
    BY FS_Subset
  <2>2. SumFunctionOnSet(f, T \cup {x}) = f[x] + SumFunctionOnSet(f, T)
    BY <2>1, SumPutIn
  <2> QED BY <2>2, <1>2
<1> HIDE DEF G
<1>3. S \in G
  BY <1>1, <1>2, SubsetInduction
<1> QED BY <1>3 DEF G

(* Sums of natural numbers are natural numbers. *)
LEMMA SumNat ==
  ASSUME NEW S, IsFiniteSet(S), NEW f, \A x \in S : f[x] \in Nat
  PROVE  SumFunctionOnSet(f, S) \in Nat
<1> DEFINE zero == [x \in S |-> 0]
<1>1. SumFunctionOnSet(zero, S) = 0
  BY SumOfZeros
<1>2. SumFunctionOnSet(zero, S) <= SumFunctionOnSet(f, S)
  BY SumMonotone
<1>3. SumFunctionOnSet(f, S) \in Int
  BY SumInt
<1> QED BY <1>1, <1>2, <1>3

-----------------------------------------------------------------------------
(* The same for the sum of a whole function. *)

LEMMA SumFunctionInt ==
  ASSUME NEW S, IsFiniteSet(S), NEW f \in [S -> Int]
  PROVE  SumFunction(f) \in Int
BY SumInt DEF SumFunction

LEMMA SumFunctionNat ==
  ASSUME NEW S, IsFiniteSet(S), NEW f \in [S -> Nat]
  PROVE  SumFunction(f) \in Nat
BY SumNat DEF SumFunction

LEMMA SumFunctionZero ==
  ASSUME NEW S, IsFiniteSet(S), NEW f \in [S -> Int], \A x \in S : f[x] = 0
  PROVE  SumFunction(f) = 0
BY SumOfZeros DEF SumFunction

(* One term changes. *)
LEMMA SumChange ==
  ASSUME NEW S, IsFiniteSet(S), NEW f \in [S -> Int], NEW g \in [S -> Int],
         NEW x \in S, \A y \in S \ {x} : g[y] = f[y]
  PROVE  SumFunction(g) = SumFunction(f) - f[x] + g[x]
<1>1. IsFiniteSet(S \ {x})
  BY FS_RemoveElement
<1>2. SumFunctionOnSet(f, S \ {x}) = SumFunctionOnSet(g, S \ {x})
  BY <1>1, SumEqual
<1>3. SumFunctionOnSet(f, S \ {x}) \in Int
  BY <1>1, SumInt
<1>4. SumFunction(f) = f[x] + SumFunctionOnSet(f, S \ {x})
  BY SumTakeOut DEF SumFunction
<1>5. SumFunction(g) = g[x] + SumFunctionOnSet(g, S \ {x})
  BY SumTakeOut DEF SumFunction
<1> QED BY <1>2, <1>3, <1>4, <1>5

(* Greater terms have a greater sum. *)
LEMMA SumGrows ==
  ASSUME NEW S, IsFiniteSet(S), NEW f \in [S -> Int], NEW g \in [S -> Int],
         \A x \in S : f[x] <= g[x]
  PROVE  SumFunction(f) <= SumFunction(g)
BY SumMonotone DEF SumFunction

(* Two terms of a sum of natural numbers are no more than the sum. *)
LEMMA SumHasTwo ==
  ASSUME NEW S, IsFiniteSet(S), NEW f \in [S -> Nat], NEW x \in S, NEW y \in S, x # y
  PROVE  f[x] + f[y] <= SumFunction(f)
<1>1. IsFiniteSet(S \ {x}) /\ IsFiniteSet((S \ {x}) \ {y})
  BY FS_RemoveElement
<1>2. SumFunction(f) = f[x] + SumFunctionOnSet(f, S \ {x})
  BY SumTakeOut DEF SumFunction
<1>3. SumFunctionOnSet(f, S \ {x}) = f[y] + SumFunctionOnSet(f, (S \ {x}) \ {y})
  BY <1>1, SumTakeOut
<1>4. SumFunctionOnSet(f, (S \ {x}) \ {y}) \in Nat
  BY <1>1, SumNat
<1> QED BY <1>2, <1>3, <1>4

(* No term is greater than the sum. *)
LEMMA SumHasOne ==
  ASSUME NEW S, IsFiniteSet(S), NEW f \in [S -> Nat], NEW x \in S
  PROVE  f[x] <= SumFunction(f)
<1>1. IsFiniteSet(S \ {x})
  BY FS_RemoveElement
<1>2. SumFunction(f) = f[x] + SumFunctionOnSet(f, S \ {x})
  BY SumTakeOut DEF SumFunction
<1>3. SumFunctionOnSet(f, S \ {x}) \in Nat
  BY <1>1, SumNat
<1> QED BY <1>2, <1>3

(* A sum with a single nonzero term is that term. *)
LEMMA SumSingle ==
  ASSUME NEW S, IsFiniteSet(S), NEW f \in [S -> Int], NEW x \in S,
         \A y \in S \ {x} : f[y] = 0
  PROVE  SumFunction(f) = f[x]
<1>1. IsFiniteSet(S \ {x})
  BY FS_RemoveElement
<1>2. SumFunction(f) = f[x] + SumFunctionOnSet(f, S \ {x})
  BY SumTakeOut DEF SumFunction
<1>3. SumFunctionOnSet(f, S \ {x}) = 0
  BY <1>1, SumOfZeros
<1> QED BY <1>2, <1>3

(* The terms of a sum may be taken in another order. *)
LEMMA SumReindex ==
  ASSUME NEW S, IsFiniteSet(S), NEW T, NEW h \in Bijection(S, T), NEW f \in [T -> Int]
  PROVE  SumFunction([x \in S |-> f[h[x]]]) = SumFunction(f)
<1> DEFINE g == [x \in S |-> f[h[x]]]
           Image(U) == {h[x] : x \in U}
           G == {U \in SUBSET S : SumFunctionOnSet(g, U) = SumFunctionOnSet(f, Image(U))}
<1>1. /\ h \in [S -> T] /\ \A x, y \in S : h[x] = h[y] => x = y
      /\ \A y \in T : \E x \in S : h[x] = y
  BY DEF Bijection, Injection, Surjection, IsInjective
<1>2. g \in [S -> Int] /\ \A x \in S : g[x] = f[h[x]]
  BY <1>1
<1>3. IsFiniteSet(T)
  <2>1. ExistsBijection(S, T)
    BY DEF ExistsBijection
  <2> QED BY <2>1, FS_Bijection
<1> HIDE DEF g
<1>4. {} \in G
  <2>1. Image({}) = {}
    OBVIOUS
  <2> HIDE DEF Image
  <2> QED BY <2>1, SumEmpty
<1>5. ASSUME NEW U \in SUBSET S, NEW x \in S \ U, U \in G
      PROVE  U \cup {x} \in G
  <2>1. Image(U \cup {x}) = Image(U) \cup {h[x]} /\ Image(U) \subseteq T
    BY <1>1
  <2>2. h[x] \notin Image(U)
    BY <1>1, <1>5
  <2>3. SumFunctionOnSet(g, U) = SumFunctionOnSet(f, Image(U))
    BY <1>5
  <2> HIDE DEF Image, G
  <2>4. IsFiniteSet(U) /\ IsFiniteSet(Image(U))
    BY <1>3, <2>1, FS_Subset
  <2>5. \A y \in U \cup {x} : g[y] \in Int
    BY <1>2
  <2>6. \A y \in Image(U) \cup {h[x]} : f[y] \in Int
    BY <1>1, <2>1
  <2>7. SumFunctionOnSet(g, U \cup {x}) = g[x] + SumFunctionOnSet(g, U)
    BY <2>4, <2>5, <1>5, SumPutIn
  <2>8. SumFunctionOnSet(f, Image(U) \cup {h[x]}) = f[h[x]] + SumFunctionOnSet(f, Image(U))
    BY <2>2, <2>4, <2>6, SumPutIn
  <2> QED BY <1>2, <2>1, <2>3, <2>7, <2>8 DEF G
<1>6. S \in G
  <2> HIDE DEF G
  <2> QED BY <1>4, <1>5, SubsetInduction
<1>7. Image(S) = T /\ DOMAIN f = T /\ DOMAIN g = S
  BY <1>1, <1>2
<1>8. SumFunction(g) = SumFunction(f)
  BY <1>6, <1>7 DEF SumFunction
<1> QED
  BY <1>8 DEF g
-----------------------------------------------------------------------------
(***************************************************************************)
(* Counters that wrap around.                                              *)
(***************************************************************************)

(* The remainder is the same after n is added or subtracted any number of  *)
(* times.                                                                  *)
LEMMA SameRemainder ==
  ASSUME NEW n \in Nat \ {0}, NEW x \in Int, NEW k \in Int
  PROVE  (x - n * k) % n = x % n
<1> DEFINE y == x - n * k
           a == x \div n
           b == y \div n
           r == x % n
           s == y % n
<1>1. n * k \in Int /\ y \in Int
  OBVIOUS
<1> HIDE DEF y
<1>2. a \in Int /\ b \in Int /\ r \in 0 .. n - 1 /\ s \in 0 .. n - 1
  BY <1>1
<1>3. x = n * a + r /\ y = n * b + s
  BY <1>1
<1>4. x = y + n * k
  BY <1>1 DEF y
<1> HIDE DEF a, b, r, s
<1> DEFINE d == b + k - a
<1>5. n * d = n * b + n * k - n * a /\ n * a \in Int /\ n * b \in Int
  BY <1>2
<1>6. n * d = r - s
  BY <1>1, <1>2, <1>3, <1>4, <1>5
<1>7. d \in Int
  BY <1>2
<1> HIDE DEF d
<1>8. d = 0
  <2>1. CASE d >= 1
    <3>1. n * d >= n * 1
      BY <2>1, <1>7
    <3> QED
      BY <3>1, <1>2, <1>6
  <2>2. CASE d <= -1
    <3>1. n * d <= n * (-1) /\ n * (-1) = -n
      BY <2>2, <1>7
    <3> QED
      BY <3>1, <1>2, <1>6
  <2> QED
    BY <2>1, <2>2, <1>7
<1>9. r = s
  BY <1>2, <1>6, <1>8
<1> QED
  BY <1>9 DEF r, s, y

(* Reducing a counter before or after a subtraction is the same. *)
LEMMA ReduceFirst ==
  ASSUME NEW n \in Nat \ {0}, NEW x \in Int, NEW c \in Int
  PROVE  ((x % n) - c) % n = (x - c) % n
<1> DEFINE k == x \div n
           m == x % n
           y == x - c
           p == n * k
<1>1. k \in Int /\ m \in Int /\ y \in Int /\ x = p + m
  OBVIOUS
<1>2. (y - n * k) % n = y % n
  <2> HIDE DEF k, y
  <2> QED
    BY <1>1, SameRemainder
<1>3. p \in Int
  BY <1>1
<1> HIDE DEF m, p
<1>4. y - p = m - c
  BY <1>1, <1>3
<1> QED
  BY <1>2, <1>4 DEF m, p
=============================================================================
