------------------------- MODULE SplitSearchProofs -------------------------
(***************************************************************************)
(* Theorems about SplitSearch: for teams of any size the loop finds the    *)
(* best split, what it reports is a split in two whole teams, and the      *)
(* sanction is the least cost of pairing one team with the other.          *)
(***************************************************************************)
EXTENDS SplitSearch, SumTheorems, FunctionTheorems

(***************************************************************************)
(* Powers of two.                                                          *)
(***************************************************************************)

(* 2 ^ n counts the subsets of n elements: this gives the equations of the *)
(* power.                                                                  *)
LEMMA PowerCounts ==
  ASSUME NEW n \in Nat
  PROVE  IsFiniteSet(SUBSET (1 .. n)) /\ Cardinality(SUBSET (1 .. n)) = 2 ^ n
<1>1. IsFiniteSet(1 .. n) /\ Cardinality(1 .. n) = n
  BY FS_Interval
<1> QED
  BY <1>1, FS_SUBSET

(* The equations of 2 ^ n. *)
LEMMA PowerZero == 2 ^ 0 = 1
  OBVIOUS

LEMMA PowerType ==
  ASSUME NEW n \in Nat
  PROVE  2 ^ n \in Nat \ {0}
<1>1. /\ IsFiniteSet(SUBSET (1 .. n)) /\ Cardinality(SUBSET (1 .. n)) = 2 ^ n
      /\ SUBSET (1 .. n) # {}
  BY PowerCounts
<1> QED
  BY <1>1, FS_CardinalityType, FS_EmptySet

LEMMA PowerNext ==
  ASSUME NEW n \in Nat
  PROVE  2 ^ (n + 1) = 2 * 2 ^ n
<1> DEFINE A == SUBSET (1 .. n)
           f == [T \in A |-> T \cup {n + 1}]
           B == {f[T] : T \in A}
<1>1. IsFiniteSet(A) /\ Cardinality(A) = 2 ^ n
  BY PowerCounts
<1>2. SUBSET (1 .. n + 1) = A \cup B
  <2>1. ASSUME NEW T \in SUBSET (1 .. n + 1), T \notin A
        PROVE  T \in B
    <3>1. n + 1 \in T /\ T \ {n + 1} \in A
      BY <2>1
    <3>2. f[T \ {n + 1}] = T
      BY <3>1
    <3> QED BY <3>1, <3>2
  <2>2. \A T \in A : f[T] \in SUBSET (1 .. n + 1) /\ T \in SUBSET (1 .. n + 1)
    OBVIOUS
  <2>3. A \subseteq SUBSET (1 .. n + 1) /\ B \subseteq SUBSET (1 .. n + 1)
    BY <2>2
  <2>4. SUBSET (1 .. n + 1) \subseteq A \cup B
    BY <2>1
  <2> HIDE DEF A, B
  <2> QED BY <2>3, <2>4
<1>3. A \cap B = {}
  <2>1. \A T \in A : n + 1 \notin T
    OBVIOUS
  <2>2. \A T \in B : n + 1 \in T
    OBVIOUS
  <2> HIDE DEF A, B
  <2> QED BY <2>1, <2>2
<1>4. f \in Bijection(A, B)
  <2>1. \A T \in A : n + 1 \notin T
    OBVIOUS
  <2>2. \A T, U \in A : f[T] = f[U] => T = U
    BY <2>1
  <2>3. f \in [A -> B] /\ \A U \in B : \E T \in A : f[T] = U
    OBVIOUS
  <2> HIDE DEF f, A, B
  <2> QED BY <2>2, <2>3, Fun_IsBij
<1> HIDE DEF A, B, f
<1>5. ExistsBijection(A, B)
  BY <1>4 DEF ExistsBijection
<1>6. IsFiniteSet(B) /\ Cardinality(B) = 2 ^ n
  BY <1>1, <1>5, FS_Bijection
<1>7. Cardinality(A \cup B) = Cardinality(A) + Cardinality(B) - Cardinality(A \cap B)
  BY <1>1, <1>6, FS_Union
<1>8. Cardinality(A \cap B) = 0
  BY <1>3, FS_EmptySet
<1>9. Cardinality(SUBSET (1 .. n + 1)) = 2 ^ (n + 1)
  BY PowerCounts
<1>10. 2 ^ (n + 1) = 2 ^ n + 2 ^ n - 0
  BY <1>1, <1>2, <1>6, <1>7, <1>8, <1>9
<1>11. 2 ^ n \in Nat
  BY PowerType
<1> QED
  BY <1>10, <1>11

(* A power of two divides the larger ones. *)
LEMMA PowerDivides ==
  ASSUME NEW i \in Nat, NEW n \in Nat, i <= n
  PROVE  \E c \in Nat \ {0} : 2 ^ n = c * 2 ^ i
<1> DEFINE Missed == {m \in Nat : i <= m /\ ~ \E c \in Nat \ {0} : 2 ^ m = c * 2 ^ i}
<1>1. SUFFICES ASSUME Missed # {} PROVE FALSE
  OBVIOUS
<1>2. PICK m \in Missed : \A k \in Missed : m <= k
  BY <1>1, LeastNumber
<1>3. m # i
  <2>1. 2 ^ i = 1 * 2 ^ i
    BY PowerType
  <2> QED BY <1>2, <2>1
<1>4. m \in Nat /\ m - 1 \in Nat /\ i <= m - 1 /\ m - 1 \notin Missed
  BY <1>2, <1>3
<1>5. PICK c \in Nat \ {0} : 2 ^ (m - 1) = c * 2 ^ i
  BY <1>4
<1>6. 2 ^ m = 2 * 2 ^ (m - 1)
  <2>1. 2 ^ ((m - 1) + 1) = 2 * 2 ^ (m - 1)
    BY <1>4, PowerNext
  <2> QED BY <1>4, <2>1
<1>7. 2 * (c * 2 ^ i) = (2 * c) * 2 ^ i /\ 2 * c \in Nat \ {0}
  BY <1>5, PowerType
<1> QED
  BY <1>2, <1>5, <1>6, <1>7

(* The quotient of a division is the only number that fits. *)
LEMMA Quotient ==
  ASSUME NEW b \in Nat \ {0}, NEW q \in Nat, NEW r \in 0 .. b - 1
  PROVE  (b * q + r) \div b = q
<1> DEFINE a == b * q + r
           d == a \div b
           e == a % b
<1>1. a \in Nat /\ d \in Nat /\ e \in 0 .. b - 1 /\ b * q \in Nat
  OBVIOUS
<1>2. a = b * d + e
  BY <1>1
<1>3. a = b * q + r
  OBVIOUS
<1> HIDE DEF a, d, e
<1>4. b * d \in Nat /\ b * (q - 1) = b * q - b /\ b * (q + 1) = b * q + b
  BY <1>1
<1>5. ASSUME d <= q - 1 PROVE FALSE
  <2>1. b * d <= b * (q - 1)
    BY <1>1, <1>5
  <2> QED BY <2>1, <1>1, <1>2, <1>3, <1>4
<1>6. ASSUME d >= q + 1 PROVE FALSE
  <2>1. b * d >= b * (q + 1)
    BY <1>1, <1>6
  <2> QED BY <2>1, <1>1, <1>2, <1>3, <1>4
<1>7. d = q
  BY <1>1, <1>5, <1>6
<1> QED
  BY <1>7 DEF d, a

(* The mask of the first TeamSize slots is one the loop does not skip. *)
LEMMA FirstSplit == 2 ^ TeamSize - 1 \in Mask /\ TeamA(2 ^ TeamSize - 1) = 1 .. TeamSize
<1> DEFINE m == 2 ^ TeamSize - 1
<1>1. TeamSize \in Nat \ {0} /\ GroupSize \in Nat /\ TeamSize <= GroupSize /\ Slot = 1 .. GroupSize
  BY TeamSizeAssumption DEF GroupSize, Slot
<1>2. m \in Nat /\ 2 ^ GroupSize \in Nat
  BY <1>1, PowerType
<1>3. m \in Mask
  <2>1. PICK c \in Nat \ {0} : 2 ^ GroupSize = c * 2 ^ TeamSize
    BY <1>1, PowerDivides
  <2>2. c * 2 ^ TeamSize >= 2 ^ TeamSize
    BY <1>1, PowerType
  <2> QED BY <1>1, <1>2, <2>1, <2>2 DEF Mask
<1>4. ASSUME NEW i \in 1 .. TeamSize
      PROVE  (m \div (2 ^ (i - 1))) % 2 = 1
  <2> DEFINE p == 2 ^ (i - 1)
  <2>1. i - 1 \in Nat /\ TeamSize - 1 \in Nat /\ i - 1 <= TeamSize - 1
    BY <1>1
  <2>2. PICK c \in Nat \ {0} : 2 ^ (TeamSize - 1) = c * p
    BY <2>1, PowerDivides
  <2>3. 2 ^ TeamSize = 2 * 2 ^ (TeamSize - 1)
    <3>1. 2 ^ ((TeamSize - 1) + 1) = 2 * 2 ^ (TeamSize - 1)
      BY <2>1, PowerNext
    <3> QED BY <1>1, <3>1
  <2>4. p \in Nat \ {0}
    BY <2>1, PowerType
  <2>5. m = 2 * (c * p) - 1
    BY <2>2, <2>3
  <2> HIDE DEF p, m
  <2>6. m = p * (2 * c - 1) + (p - 1) /\ 2 * c - 1 \in Nat /\ p - 1 \in 0 .. p - 1
    BY <2>2, <2>4, <2>5
  <2>7. m \div p = 2 * c - 1
    BY <2>4, <2>6, Quotient
  <2>8. (2 * c - 1) % 2 = 1
    BY <2>2
  <2> QED BY <2>7, <2>8 DEF p
<1>5. ASSUME NEW i \in Slot, i \notin 1 .. TeamSize
      PROVE  (m \div (2 ^ (i - 1))) % 2 # 1
  <2> DEFINE p == 2 ^ (i - 1)
  <2>1. i - 1 \in Nat /\ TeamSize <= i - 1
    BY <1>1, <1>5
  <2>2. PICK c \in Nat \ {0} : p = c * 2 ^ TeamSize
    BY <1>1, <2>1, PowerDivides
  <2>3. c * 2 ^ TeamSize >= 2 ^ TeamSize
    BY <1>1, PowerType
  <2>4. p \in Nat \ {0}
    BY <2>1, PowerType
  <2>5. m \in 0 .. p - 1
    <3>1. 2 ^ TeamSize \in Nat /\ 2 ^ TeamSize <= p
      BY <1>1, <2>2, <2>3, PowerType
    <3> QED BY <1>2, <2>4, <3>1
  <2> HIDE DEF p, m
  <2>6. (p * 0 + m) \div p = 0 /\ p * 0 + m = m
    BY <2>4, <2>5, Quotient
  <2> QED BY <2>6 DEF p
<1>6. 1 .. TeamSize \subseteq Slot
  BY <1>1
<1> HIDE DEF m
<1>7. TeamA(m) = 1 .. TeamSize
  BY <1>4, <1>5, <1>6 DEF TeamA
<1> QED
  BY <1>3, <1>7 DEF m
-----------------------------------------------------------------------------
(***************************************************************************)
(* Teams and their ranking.                                                *)
(***************************************************************************)
Lobby == [Slot -> Nat]

(* The slots of a team can be put in the order of their ratings. *)
Sorts(l, r, n) == \A j, k \in 1 .. n : j < k => Before(l, r[j], r[k])

(* The slots of a lobby, and how many there are. *)
LEMMA SlotType ==
  /\ TeamSize \in Nat \ {0} /\ GroupSize = 2 * TeamSize /\ Slot = 1 .. GroupSize
  /\ IsFiniteSet(Slot) /\ Cardinality(Slot) = GroupSize /\ Slot \subseteq Nat
<1>1. TeamSize \in Nat \ {0} /\ GroupSize = 2 * TeamSize /\ Slot = 1 .. GroupSize
  BY TeamSizeAssumption DEF GroupSize, Slot
<1>2. GroupSize \in Nat /\ 1 <= GroupSize
  BY <1>1
<1> QED
  BY <1>1, <1>2, FS_Interval

(* A set of slots has one that comes first. *)
LEMMA SomeFirst ==
  ASSUME NEW l \in Lobby, NEW T \in SUBSET Slot, T # {}
  PROVE  \E x \in T : \A y \in T \ {x} : Before(l, x, y)
<1> DEFINE R == {l[i] : i \in T}
<1>1. R \in SUBSET Nat /\ R # {}
  BY DEF Lobby
<1>2. PICK least \in R : \A n \in R : least <= n
  BY <1>1, LeastNumber
<1> DEFINE L == {i \in T : l[i] = least}
<1>3. L \in SUBSET Nat /\ L # {}
  BY SlotType
<1>4. PICK x \in L : \A y \in L : x <= y
  BY <1>3, LeastNumber
<1>5. ASSUME NEW y \in T \ {x}
      PROVE  Before(l, x, y)
  <2>1. l[x] <= l[y] /\ l[x] \in Nat /\ l[y] \in Nat /\ x \in Nat /\ y \in Nat
    BY <1>2, <1>4, SlotType DEF Lobby
  <2>2. l[y] = l[x] => x <= y
    BY <1>4
  <2> QED BY <2>1, <2>2 DEF Before
<1> QED
  BY <1>4, <1>5

(* Every set of slots can be sorted: the last of it goes last. *)
LEMMA SomeRanking ==
  ASSUME NEW l \in Lobby, NEW T \in SUBSET Slot
  PROVE  \E r \in [1 .. Cardinality(T) -> T] : Sorts(l, r, Cardinality(T))
<1> DEFINE HasRanking(U) == \E r \in [1 .. Cardinality(U) -> U] : Sorts(l, r, Cardinality(U))
           Missed == {Cardinality(U) : U \in {V \in SUBSET Slot : ~ HasRanking(V)}}
<1>1. SUFFICES ASSUME ~ HasRanking(T) PROVE FALSE
  OBVIOUS
<1>2. \A U \in SUBSET Slot : IsFiniteSet(U) /\ Cardinality(U) \in Nat
  BY SlotType, FS_Subset, FS_CardinalityType
<1>3. Missed \in SUBSET Nat /\ Missed # {}
  BY <1>1, <1>2
<1>4. PICK n \in Missed : \A m \in Missed : n <= m
  BY <1>3, LeastNumber
<1>5. PICK U \in SUBSET Slot : ~ HasRanking(U) /\ n = Cardinality(U)
  BY <1>4
<1>6. U # {}
  <2> SUFFICES ASSUME U = {} PROVE FALSE
    OBVIOUS
  <2>1. Cardinality(U) = 0
    BY FS_EmptySet
  <2> DEFINE r == [k \in 1 .. 0 |-> k]
  <2>2. r \in [1 .. Cardinality(U) -> U] /\ Sorts(l, r, Cardinality(U))
    BY <2>1 DEF Sorts
  <2> QED BY <1>5, <2>2
<1>7. PICK x \in U : \A y \in U \ {x} : Before(l, x, y)
  BY <1>6, SomeFirst
<1> DEFINE V == U \ {x}
<1>8. V \in SUBSET Slot /\ n \in Nat /\ Cardinality(V) = n - 1 /\ n - 1 \in Nat
  <2>1. V \in SUBSET Slot
    OBVIOUS
  <2>2. Cardinality(V) = Cardinality(U) - 1
    BY <1>2, <1>7, FS_RemoveElement
  <2> QED BY <1>2, <1>5, <2>1, <2>2
<1>9. PICK r \in [1 .. n - 1 -> V] : Sorts(l, r, n - 1)
  <2>1. n - 1 \notin Missed
    BY <1>4, <1>8
  <2>2. HasRanking(V)
    BY <1>8, <2>1
  <2> QED BY <1>8, <2>2
<1> DEFINE s == [k \in 1 .. n |-> IF k = 1 THEN x ELSE r[k - 1]]
<1>10. \A k \in 1 .. n : k # 1 => k - 1 \in 1 .. n - 1 /\ s[k] = r[k - 1] /\ s[k] \in V
  BY <1>8, <1>9
<1>11. s \in [1 .. n -> U] /\ (1 \in 1 .. n => s[1] = x)
  BY <1>10
<1>12. Sorts(l, s, n)
  <2> SUFFICES ASSUME NEW j \in 1 .. n, NEW k \in 1 .. n, j < k
               PROVE  Before(l, s[j], s[k])
    BY DEF Sorts
  <2>1. CASE j = 1
    BY <1>7, <1>10, <1>11, <2>1
  <2>2. CASE j # 1
    <3>1. k # 1 /\ j - 1 < k - 1
      BY <1>8, <2>2
    <3> QED BY <1>9, <1>10, <2>2, <3>1 DEF Sorts
  <2> QED BY <2>1, <2>2
<1> HIDE DEF s
<1> QED
  BY <1>5, <1>11, <1>12

(* sort_unstable orders the ratings of a whole team, each slot once. *)
LEMMA RankedSorts ==
  ASSUME NEW l \in Lobby, NEW T \in SUBSET Slot, Cardinality(T) = TeamSize
  PROVE  /\ Ranked(l, T) \in [1 .. TeamSize -> T]
         /\ Sorts(l, Ranked(l, T), TeamSize)
<1>1. \E r \in [1 .. TeamSize -> T] : Sorts(l, r, TeamSize)
  BY SomeRanking
<1> QED
  BY <1>1 DEF Ranked, Sorts

(* A split of the lobby has two whole teams. *)
LEMMA WholeTeams ==
  ASSUME NEW m \in Split
  PROVE  /\ TeamA(m) \in SUBSET Slot /\ TeamB(m) \in SUBSET Slot
         /\ IsFiniteSet(TeamA(m)) /\ IsFiniteSet(TeamB(m))
         /\ Cardinality(TeamA(m)) = TeamSize /\ Cardinality(TeamB(m)) = TeamSize
         /\ TeamA(m) \cap TeamB(m) = {}
<1>1. TeamA(m) \in SUBSET Slot /\ TeamB(m) \in SUBSET Slot /\ TeamA(m) \cap TeamB(m) = {}
  BY DEF TeamA, TeamB
<1>2. IsFiniteSet(TeamA(m)) /\ IsFiniteSet(TeamB(m))
  BY <1>1, SlotType, FS_Subset
<1>3. Cardinality(TeamA(m)) = TeamSize
  BY DEF Split
<1>4. TeamA(m) \cup TeamB(m) = Slot
  BY <1>1 DEF TeamB
<1>5. Cardinality(Slot) = Cardinality(TeamA(m)) + Cardinality(TeamB(m)) - Cardinality({})
  BY <1>1, <1>2, <1>4, FS_Union
<1>6. Cardinality({}) = 0 /\ Cardinality(TeamB(m)) \in Nat
  BY <1>2, FS_EmptySet, FS_CardinalityType
<1> QED
  BY <1>1, <1>2, <1>3, <1>5, <1>6, SlotType

(* A distance is a natural number. *)
LEMMA DistanceType ==
  ASSUME NEW x \in Nat, NEW y \in Nat
  PROVE  Distance(x, y) \in Nat
  BY DEF Distance

(* The score of a split is a number. *)
LEMMA PenaltyType ==
  ASSUME NEW l \in Lobby, NEW m \in Split
  PROVE  MacroGap(l, m) \in Nat /\ Sanction(l, m) \in Nat /\ Penalty(l, m) \in Nat
<1>1. ASSUME NEW T \in SUBSET Slot
      PROVE  Strength(l, T) \in Nat
  <2>1. IsFiniteSet(T)
    BY SlotType, FS_Subset
  <2>2. [i \in T |-> l[i]] \in [T -> Nat]
    BY DEF Lobby
  <2> QED BY <2>1, <2>2, SumFunctionNat DEF Strength
<1>2. MacroGap(l, m) \in Nat
  BY <1>1, WholeTeams, DistanceType DEF MacroGap
<1>3. Sanction(l, m) \in Nat
  <2> DEFINE a == Ranked(l, TeamA(m))
             b == Ranked(l, TeamB(m))
  <2>1. a \in [1 .. TeamSize -> TeamA(m)] /\ b \in [1 .. TeamSize -> TeamB(m)]
    BY WholeTeams, RankedSorts
  <2>2. \A k \in 1 .. TeamSize : a[k] \in Slot /\ b[k] \in Slot
    BY <2>1, WholeTeams
  <2> HIDE DEF a, b
  <2>3. \A k \in 1 .. TeamSize : Distance(l[a[k]], l[b[k]]) \in Nat
    BY <2>2, DistanceType DEF Lobby
  <2>4. [k \in 1 .. TeamSize |-> Distance(l[a[k]], l[b[k]])] \in [1 .. TeamSize -> Nat]
    BY <2>3
  <2>5. IsFiniteSet(1 .. TeamSize)
    BY SlotType, FS_Interval
  <2>6. SumFunction([k \in 1 .. TeamSize |-> Distance(l[a[k]], l[b[k]])]) \in Nat
    BY <2>4, <2>5, SumFunctionNat
  <2> QED BY <2>6 DEF Sanction, a, b
<1> QED
  BY <1>2, <1>3 DEF Penalty
-----------------------------------------------------------------------------
(***************************************************************************)
(* The loop.                                                               *)
(***************************************************************************)

(* The splits among the first n masks. *)
Seen(n) == {m \in Split : m < n}

Score(m) == [mask |-> m, penalty |-> Penalty(lobby, m)]

(* What is returned is the split that was kept. *)
Returned ==
  result # NoResult =>
    /\ SearchDone
    /\ result = [team_a |-> TeamA(best.mask),
                 team_b |-> TeamB(best.mask),
                 spread |-> best.macro \div TeamSize]

LoopInv == TypeOK /\ BestSoFar /\ Returned

(* BestSoFar, of the masks seen. *)
LEMMA BestOfSeen ==
  BestSoFar <=>
    IF Seen(mask) = {}
      THEN best = NoSplit
      ELSE /\ best.mask \in Seen(mask)
           /\ best.penalty = Penalty(lobby, best.mask)
           /\ best.macro = MacroGap(lobby, best.mask)
           /\ \A m \in Seen(mask) : NoWorse(best, Score(m))
  BY DEF BestSoFar, Seen, Score

(* The masks are the numbers below 2 ^ GroupSize. *)
LEMMA MaskType ==
  /\ 2 ^ GroupSize \in Nat \ {0} /\ Mask = 0 .. 2 ^ GroupSize - 1
  /\ Mask \subseteq Nat /\ Split \subseteq Mask /\ 0 \in Mask
<1>1. 2 ^ GroupSize \in Nat \ {0}
  BY SlotType, PowerType
<1> QED
  BY <1>1 DEF Mask, Split

(* None is seen at first, all are when the loop ends, one more per step. *)
LEMMA SeenGrows ==
  /\ Seen(0) = {} /\ Seen(2 ^ GroupSize) = Split
  /\ \A n \in Nat : Seen(n + 1) = IF n \in Split THEN Seen(n) \cup {n} ELSE Seen(n)
  /\ \A n : \A m \in Seen(n) : m \in Split /\ m < n
<1>1. \A m \in Split : m \in Nat /\ 0 <= m /\ m < 2 ^ GroupSize
  BY MaskType
<1>2. Seen(0) = {} /\ Seen(2 ^ GroupSize) = Split
  BY <1>1 DEF Seen
<1>3. ASSUME NEW n \in Nat
      PROVE  Seen(n + 1) = IF n \in Split THEN Seen(n) \cup {n} ELSE Seen(n)
  <2>1. \A m \in Split : m < n + 1 <=> m < n \/ m = n
    BY <1>1
  <2> QED BY <2>1 DEF Seen
<1> QED
  BY <1>2, <1>3 DEF Seen

LEMMA LobbyType == TypeOK => lobby \in Lobby
  BY InputAssumption DEF TypeOK, Lobby

(* Before the first mask nothing is seen, kept or returned. *)
LEMMA InitLoop == Init => LoopInv
<1> SUFFICES ASSUME Init PROVE LoopInv
  OBVIOUS
<1>1. TypeOK
  BY MaskType DEF Init, TypeOK, NoSplit, NoResult
<1>2. BestSoFar
  <2>1. Seen(mask) = {}
    BY SeenGrows DEF Init
  <2> QED BY <2>1, BestOfSeen DEF Init
<1>3. Returned
  BY DEF Init, Returned
<1> QED
  BY <1>1, <1>2, <1>3 DEF LoopInv

(* A mask that is no split changes nothing but the loop variable. *)
LEMMA SkipLoop == LoopInv /\ SkipMask => LoopInv'
<1> SUFFICES ASSUME LoopInv, SkipMask PROVE LoopInv'
  OBVIOUS
<1>1. mask \in Mask /\ mask \notin Split /\ mask' = mask + 1
  BY DEF SkipMask
<1>2. UNCHANGED <<lobby, best, result>>
  BY DEF SkipMask
<1>3. TypeOK'
  BY <1>1, <1>2, MaskType DEF LoopInv, TypeOK
<1>4. Seen(mask') = Seen(mask)
  BY <1>1, MaskType, SeenGrows
<1>5. BestSoFar'
  <2>1. \A m : Score(m)' = Score(m)
    BY <1>2 DEF Score
  <2>2. BestSoFar' <=>
          IF Seen(mask') = {}
            THEN best' = NoSplit
            ELSE /\ best'.mask \in Seen(mask')
                 /\ best'.penalty = Penalty(lobby', best'.mask)
                 /\ best'.macro = MacroGap(lobby', best'.mask)
                 /\ \A m \in Seen(mask') : NoWorse(best', Score(m)')
    BY DEF BestSoFar, Seen, Score
  <2> QED BY <1>2, <1>4, <2>1, <2>2, BestOfSeen DEF LoopInv
<1>6. Returned'
  BY <1>1, <1>2, MaskType DEF LoopInv, Returned, SearchDone
<1> QED
  BY <1>3, <1>5, <1>6 DEF LoopInv

(* The strict < keeps the first of the best. *)
LEMMA ConsiderLoop == LoopInv /\ Consider => LoopInv'
<1> SUFFICES ASSUME LoopInv, Consider PROVE LoopInv'
  OBVIOUS
<1>1. mask \in Split /\ mask' = mask + 1 /\ mask \in Mask
  BY MaskType DEF Consider
<1>2. UNCHANGED <<lobby, result>>
  BY DEF Consider
<1> DEFINE new == [mask |-> mask, penalty |-> Penalty(lobby, mask), macro |-> MacroGap(lobby, mask)]
<1>3. best' = IF Improves THEN new ELSE best
  BY DEF Consider
<1>4. lobby \in Lobby
  BY LobbyType DEF LoopInv
<1>5. \A m \in Split : Penalty(lobby, m) \in Nat /\ MacroGap(lobby, m) \in Nat /\ m \in Nat
  BY <1>4, PenaltyType, MaskType
<1>6. best \in [mask : Mask, penalty : Nat \cup {-1}, macro : Nat]
  BY DEF LoopInv, TypeOK
<1>7. TypeOK'
  <2>1. new \in [mask : Mask, penalty : Nat \cup {-1}, macro : Nat]
    BY <1>1, <1>5
  <2>2. best' \in [mask : Mask, penalty : Nat \cup {-1}, macro : Nat]
    BY <1>3, <1>6, <2>1
  <2> QED BY <1>1, <1>2, <2>2, MaskType DEF LoopInv, TypeOK
<1>8. Seen(mask') = Seen(mask) \cup {mask} /\ \A m \in Seen(mask) : m < mask /\ m \in Split
  BY <1>1, MaskType, SeenGrows
<1>9. BestSoFar'
  <2>1. /\ best'.mask \in Seen(mask')
        /\ best'.penalty = Penalty(lobby, best'.mask)
        /\ best'.macro = MacroGap(lobby, best'.mask)
        /\ \A m \in Seen(mask') : NoWorse(best', Score(m))
    <3>1. CASE Seen(mask) = {}
      <4>1. best = NoSplit
        BY <3>1, BestOfSeen DEF LoopInv
      <4>2. best' = new
        BY <1>3, <4>1 DEF Improves
      <4> QED BY <1>5, <1>1, <1>8, <3>1, <4>2 DEF NoWorse, Score
    <3>2. CASE Seen(mask) # {}
      <4>1. /\ best.mask \in Seen(mask)
            /\ best.penalty = Penalty(lobby, best.mask)
            /\ best.macro = MacroGap(lobby, best.mask)
            /\ \A m \in Seen(mask) : NoWorse(best, Score(m))
        BY <3>2, BestOfSeen DEF LoopInv
      <4>2. best # NoSplit /\ best.penalty \in Nat /\ best.mask < mask /\ best.mask \in Nat
        BY <1>5, <1>8, <4>1 DEF NoSplit
      <4>3. CASE Improves
        <5>1. best' = new /\ Penalty(lobby, mask) < best.penalty
          BY <1>3, <4>2, <4>3 DEF Improves
        <5>2. ASSUME NEW m \in Seen(mask)
              PROVE  Penalty(lobby, mask) < Penalty(lobby, m)
          <6>1. best.penalty <= Penalty(lobby, m)
            BY <1>5, <1>8, <4>1, <4>2 DEF NoWorse, Score
          <6> QED BY <1>1, <1>5, <1>8, <4>2, <5>1, <6>1
        <5> QED BY <1>1, <1>5, <1>8, <5>1, <5>2 DEF NoWorse, Score
      <4>4. CASE ~ Improves
        <5>1. best' = best /\ best.penalty <= Penalty(lobby, mask)
          BY <1>1, <1>3, <1>5, <4>2, <4>4 DEF Improves
        <5>2. NoWorse(best, Score(mask))
          BY <1>1, <1>5, <4>2, <5>1 DEF NoWorse, Score
        <5> QED BY <1>8, <4>1, <5>1, <5>2
      <4> QED BY <4>3, <4>4
    <3> QED BY <3>1, <3>2
  <2>2. Seen(mask') # {}
    BY <1>8
  <2>3. \A m : Score(m)' = Score(m)
    BY <1>2 DEF Score
  <2>4. BestSoFar' <=>
          IF Seen(mask') = {}
            THEN best' = NoSplit
            ELSE /\ best'.mask \in Seen(mask')
                 /\ best'.penalty = Penalty(lobby', best'.mask)
                 /\ best'.macro = MacroGap(lobby', best'.mask)
                 /\ \A m \in Seen(mask') : NoWorse(best', Score(m)')
    BY DEF BestSoFar, Seen, Score
  <2> HIDE DEF new
  <2> QED BY <1>2, <2>1, <2>2, <2>3, <2>4
<1>10. Returned'
  BY <1>1, <1>2, MaskType DEF LoopInv, Returned, SearchDone
<1> QED
  BY <1>7, <1>9, <1>10 DEF LoopInv

(* Return reads the kept mask back, when every mask has been seen. *)
LEMMA ReturnLoop == LoopInv /\ Return => LoopInv'
<1> SUFFICES ASSUME LoopInv, Return PROVE LoopInv'
  OBVIOUS
<1>1. /\ UNCHANGED <<lobby, mask, best>> /\ SearchDone
      /\ result' = [team_a |-> TeamA(best.mask),
                    team_b |-> TeamB(best.mask),
                    spread |-> best.macro \div TeamSize]
  BY DEF Return
<1>2. TypeOK'
  <2>1. TeamA(best.mask) \in SUBSET Slot /\ TeamB(best.mask) \in SUBSET Slot
    BY DEF TeamA, TeamB
  <2>2. best.macro \in Nat
    BY DEF LoopInv, TypeOK
  <2>3. best.macro \div TeamSize \in Nat
    BY <2>2, SlotType
  <2> QED BY <1>1, <2>1, <2>3 DEF LoopInv, TypeOK
<1>3. BestSoFar'
  BY <1>1 DEF LoopInv, BestSoFar
<1>4. Returned'
  BY <1>1 DEF Returned, SearchDone
<1> QED
  BY <1>2, <1>3, <1>4 DEF LoopInv

(* Every step of the loop keeps it. *)
LEMMA NextLoop == LoopInv /\ [Next]_vars => LoopInv'
<1> SUFFICES ASSUME LoopInv, [Next]_vars PROVE LoopInv'
  OBVIOUS
<1>1. CASE UNCHANGED vars
  BY <1>1 DEF vars, LoopInv, TypeOK, BestSoFar, Returned, SearchDone
<1> QED
  BY <1>1, SkipLoop, ConsiderLoop, ReturnLoop DEF Next

(* The best mask is one: of two equally good ones, the smaller. *)
LEMMA BestIsOne ==
  ASSUME TypeOK, NEW m \in Split, \A n \in Split : NoWorse(Score(m), Score(n))
  PROVE  BestMask(lobby) = m
<1> DEFINE Scores == {Score(n) : n \in Split}
           Best == CHOOSE s \in Scores : \A t \in Scores : NoWorse(s, t)
<1>1. \A n \in Split : Penalty(lobby, n) \in Nat /\ n \in Nat
  BY LobbyType, PenaltyType, MaskType
<1>2. Score(m) \in Scores /\ \A t \in Scores : NoWorse(Score(m), t)
  OBVIOUS
<1>3. Best \in Scores /\ \A t \in Scores : NoWorse(Best, t)
  BY <1>2
<1>4. PICK n \in Split : Best = Score(n)
  BY <1>3
<1>5. NoWorse(Score(m), Score(n)) /\ NoWorse(Score(n), Score(m))
  BY <1>2, <1>3, <1>4
<1>6. m = n
  BY <1>1, <1>5 DEF NoWorse, Score
<1>7. BestMask(lobby) = Best.mask
  BY DEF BestMask, Score
<1> HIDE DEF Scores, Best
<1> QED
  BY <1>4, <1>6, <1>7 DEF Score

(* When every mask has been seen, the best so far is the best there is. *)
LEMMA LoopFair == LoopInv => FairResult
<1> SUFFICES ASSUME LoopInv, result # NoResult
             PROVE  /\ result.team_a \cap result.team_b = {}
                    /\ Cardinality(result.team_a) = TeamSize
                    /\ Cardinality(result.team_b) = TeamSize
                    /\ result.team_a = TeamA(BestMask(lobby))
                    /\ result.spread = Spread(lobby, BestMask(lobby))
  BY DEF FairResult
<1>1. /\ mask = 2 ^ GroupSize
      /\ result = [team_a |-> TeamA(best.mask),
                   team_b |-> TeamB(best.mask),
                   spread |-> best.macro \div TeamSize]
  BY DEF LoopInv, Returned, SearchDone
<1>2. Seen(mask) = Split
  BY <1>1, SeenGrows
<1>3. Split # {}
  <2>1. Cardinality(1 .. TeamSize) = TeamSize
    BY SlotType, FS_Interval
  <2>2. 2 ^ TeamSize - 1 \in Split
    BY <2>1, FirstSplit DEF Split
  <2> QED BY <2>2
<1>4. /\ best.mask \in Split
      /\ best.penalty = Penalty(lobby, best.mask)
      /\ best.macro = MacroGap(lobby, best.mask)
      /\ \A m \in Split : NoWorse(best, Score(m))
  BY <1>2, <1>3, BestOfSeen DEF LoopInv
<1>5. BestMask(lobby) = best.mask
  <2>1. \A m \in Split : NoWorse(Score(best.mask), Score(m))
    BY <1>4 DEF NoWorse, Score
  <2> QED BY <1>4, <2>1, BestIsOne DEF LoopInv
<1> QED
  BY <1>1, <1>4, <1>5, WholeTeams DEF Spread

(* Every score, gap and mask stays in its range. *)
THEOREM SearchTypes == Spec => []TypeOK
<1>1. LoopInv => TypeOK
  BY DEF LoopInv
<1> QED
  BY <1>1, InitLoop, NextLoop, PTL DEF Spec

(* Whatever the ratings and the size of the teams, the loop has kept the   *)
(* first of the best splits it has seen.                                   *)
THEOREM KeepsBest == Spec => []BestSoFar
<1>1. LoopInv => BestSoFar
  BY DEF LoopInv
<1> QED
  BY <1>1, InitLoop, NextLoop, PTL DEF Spec

(* What optimize_split returns are two whole teams, the best split there   *)
(* is and the gap of that split.  That there is a split at all, so that    *)
(* best_mask is never the initial 0, is part of it.                        *)
THEOREM ReturnsFairTeams == Spec => []FairResult
  BY InitLoop, NextLoop, LoopFair, PTL DEF Spec
-----------------------------------------------------------------------------
(***************************************************************************)
(* The sanction is the cost of an optimal transport.                       *)
(***************************************************************************)

(* Crossing two pairs costs no less than not crossing them. *)
LEMMA Uncross ==
  ASSUME NEW x1 \in Nat, NEW x2 \in Nat, NEW y1 \in Nat, NEW y2 \in Nat, x1 <= x2, y1 <= y2
  PROVE  Distance(x1, y1) + Distance(x2, y2) <= Distance(x1, y2) + Distance(x2, y1)
  BY DEF Distance

(* What it costs to pair the k-th of n with the q[k]-th. *)
Pairing(x, y, q, n) == [k \in 1 .. n |-> Distance(x[k], y[q[k]])]
InOrder(x, y, n)    == [k \in 1 .. n |-> Distance(x[k], y[k])]

Rising(x, n)   == \A j, k \in 1 .. n : j < k => x[j] <= x[k]
Permutes(q, n) == \A j, k \in 1 .. n : q[j] = q[k] => j = k
From(q, n, m)  == \A k \in 1 .. n : k > m => q[k] = k

(* Costs are natural numbers, and so are their sums. *)
LEMMA PairingType ==
  ASSUME NEW n \in Nat, NEW x \in [1 .. n -> Nat], NEW y \in [1 .. n -> Nat],
         NEW q \in [1 .. n -> 1 .. n]
  PROVE  /\ Pairing(x, y, q, n) \in [1 .. n -> Nat] /\ InOrder(x, y, n) \in [1 .. n -> Nat]
         /\ Pairing(x, y, q, n) \in [1 .. n -> Int]
         /\ SumFunction(Pairing(x, y, q, n)) \in Nat /\ SumFunction(InOrder(x, y, n)) \in Nat
<1>1. ASSUME NEW k \in 1 .. n
      PROVE  Distance(x[k], y[q[k]]) \in Nat /\ Distance(x[k], y[k]) \in Nat
  <2>1. x[k] \in Nat /\ y[k] \in Nat /\ y[q[k]] \in Nat
    OBVIOUS
  <2> QED BY <2>1, DistanceType
<1>2. Pairing(x, y, q, n) \in [1 .. n -> Nat]
  <2>1. \A k \in 1 .. n : Distance(x[k], y[q[k]]) \in Nat
    BY <1>1
  <2> QED BY <2>1 DEF Pairing
<1>3. InOrder(x, y, n) \in [1 .. n -> Nat]
  <2>1. \A k \in 1 .. n : Distance(x[k], y[k]) \in Nat
    BY <1>1
  <2> QED BY <2>1 DEF InOrder
<1>4. Pairing(x, y, q, n) \in [1 .. n -> Int]
  <2>1. \A k \in 1 .. n : Distance(x[k], y[q[k]]) \in Int
    BY <1>1
  <2> QED BY <2>1 DEF Pairing
<1>5. IsFiniteSet(1 .. n)
  BY FS_Interval
<1> QED
  BY <1>2, <1>3, <1>4, <1>5, SumFunctionNat

(* Two changes of a sum that together add nothing. *)
LEMMA TwoChanges ==
  ASSUME NEW S, IsFiniteSet(S), NEW j \in S, NEW m \in S,
         NEW f \in [S -> Int], NEW g \in [S -> Int], NEW h \in [S -> Int],
         \A k \in S \ {m} : g[k] = f[k], \A k \in S \ {j} : h[k] = g[k],
         h[j] + g[m] <= g[j] + f[m]
  PROVE  SumFunction(h) <= SumFunction(f)
<1>1. SumFunction(g) = SumFunction(f) - f[m] + g[m]
  BY SumChange
<1>2. SumFunction(h) = SumFunction(g) - g[j] + h[j]
  BY SumChange
<1>3. SumFunction(f) \in Int /\ SumFunction(g) \in Int /\ SumFunction(h) \in Int
  BY SumFunctionInt
<1> QED
  BY <1>1, <1>2, <1>3

(* One exchange puts the last position that is not in place into place. *)
LEMMA Exchange ==
  ASSUME NEW n \in Nat, NEW x \in [1 .. n -> Nat], NEW y \in [1 .. n -> Nat],
         Rising(x, n), Rising(y, n),
         NEW q \in [1 .. n -> 1 .. n], Permutes(q, n),
         NEW m \in 1 .. n, From(q, n, m), q[m] # m
  PROVE  \E r \in [1 .. n -> 1 .. n] :
           /\ Permutes(r, n) /\ From(r, n, m - 1)
           /\ SumFunction(Pairing(x, y, r, n)) <= SumFunction(Pairing(x, y, q, n))
<1>1. IsFiniteSet(1 .. n) /\ Cardinality(1 .. n) = n
  BY FS_Interval
<1>2. PICK j \in 1 .. n : q[j] = m
  <2>1. q \in Injection(1 .. n, 1 .. n)
    BY DEF Injection, IsInjective, Permutes
  <2>2. q \in Surjection(1 .. n, 1 .. n)
    BY <1>1, <2>1, FS_Injection
  <2> QED BY <2>2 DEF Surjection
<1>3. j < m /\ q[m] < m /\ j # m /\ q[m] \in 1 .. n
  <2>1. ~ (j > m) /\ j # m
    BY <1>2 DEF From
  <2>2. q[m] \in 1 .. n
    OBVIOUS
  <2>3. ~ (q[m] > m)
    <3>1. q[m] > m => q[q[m]] = q[m]
      BY <2>2 DEF From
    <3>2. q[q[m]] = q[m] => q[m] = m
      BY <2>2 DEF Permutes
    <3> QED BY <3>1, <3>2
  <2> QED BY <2>1, <2>2, <2>3
<1> DEFINE s == [q EXCEPT ![m] = m]
           r == [s EXCEPT ![j] = q[m]]
<1>4. /\ s \in [1 .. n -> 1 .. n] /\ r \in [1 .. n -> 1 .. n]
      /\ s[m] = m /\ s[j] = m /\ \A k \in 1 .. n : k # m => s[k] = q[k]
      /\ r[j] = q[m] /\ r[m] = m /\ \A k \in 1 .. n : k # j => r[k] = s[k]
  BY <1>2, <1>3
<1> HIDE DEF s, r
<1>5. Permutes(r, n)
  <2>1. \A k \in 1 .. n : k # j /\ k # m => r[k] = q[k] /\ q[k] # q[m] /\ q[k] # m
    BY <1>2, <1>4 DEF Permutes
  <2> SUFFICES ASSUME NEW i \in 1 .. n, NEW k \in 1 .. n, r[i] = r[k] PROVE i = k
    BY DEF Permutes
  <2>2. CASE i = j \/ i = m
    BY <1>3, <1>4, <2>1, <2>2
  <2>3. CASE i # j /\ i # m /\ k = j
    <3>1. r[i] = q[i] /\ q[i] # q[m] /\ r[k] = q[m]
      BY <1>4, <2>1, <2>3
    <3> QED BY <3>1
  <2>4. CASE i # j /\ i # m /\ k = m
    <3>1. r[i] = q[i] /\ q[i] # m /\ r[k] = m
      BY <1>4, <2>1, <2>4
    <3> QED BY <3>1
  <2>5. CASE i # j /\ i # m /\ k # j /\ k # m
    BY <2>1, <2>5 DEF Permutes
  <2> QED BY <2>2, <2>3, <2>4, <2>5
<1>6. From(r, n, m - 1)
  <2> SUFFICES ASSUME NEW k \in 1 .. n, k > m - 1 PROVE r[k] = k
    BY DEF From
  <2>1. k = m \/ k > m
    OBVIOUS
  <2>2. CASE k > m
    BY <1>3, <1>4, <2>2 DEF From
  <2> QED BY <1>4, <2>1, <2>2
<1> DEFINE cq == Pairing(x, y, q, n)
           cs == Pairing(x, y, s, n)
           cr == Pairing(x, y, r, n)
<1>7. /\ cq \in [1 .. n -> Nat] /\ cs \in [1 .. n -> Nat] /\ cr \in [1 .. n -> Nat]
      /\ cq \in [1 .. n -> Int] /\ cs \in [1 .. n -> Int] /\ cr \in [1 .. n -> Int]
      /\ SumFunction(cq) \in Nat /\ SumFunction(cs) \in Nat /\ SumFunction(cr) \in Nat
  BY <1>4, PairingType
<1>8. /\ \A k \in (1 .. n) \ {m} : cs[k] = cq[k]
      /\ \A k \in (1 .. n) \ {j} : cr[k] = cs[k]
  BY <1>4 DEF Pairing
<1>9. /\ cq[m] = Distance(x[m], y[q[m]]) /\ cs[m] = Distance(x[m], y[m])
      /\ cs[j] = Distance(x[j], y[m]) /\ cr[j] = Distance(x[j], y[q[m]])
  BY <1>4 DEF Pairing
<1> HIDE DEF cq, cs, cr
<1>10. cr[j] + cs[m] <= cs[j] + cq[m]
  <2>1. x[j] <= x[m] /\ y[q[m]] <= y[m]
    BY <1>3 DEF Rising
  <2>2. /\ x[j] \in Nat /\ x[m] \in Nat /\ y[q[m]] \in Nat /\ y[m] \in Nat
    BY <1>3
  <2>3. Distance(x[j], y[q[m]]) + Distance(x[m], y[m])
          <= Distance(x[j], y[m]) + Distance(x[m], y[q[m]])
    BY <2>1, <2>2, Uncross
  <2> QED BY <1>9, <2>3
<1>11. SumFunction(cr) <= SumFunction(cq)
  BY <1>1, <1>7, <1>8, <1>10, TwoChanges
<1> QED
  BY <1>4, <1>5, <1>6, <1>11 DEF cr, cq

(* Position by position is the cheapest of all pairings of two rising      *)
(* sequences.                                                              *)
LEMMA InOrderIsCheapest ==
  ASSUME NEW n \in Nat, NEW x \in [1 .. n -> Nat], NEW y \in [1 .. n -> Nat],
         Rising(x, n), Rising(y, n),
         NEW p \in [1 .. n -> 1 .. n], Permutes(p, n)
  PROVE  SumFunction(InOrder(x, y, n)) <= SumFunction(Pairing(x, y, p, n))
<1> DEFINE Cost(q) == SumFunction(Pairing(x, y, q, n))
           Best == SumFunction(InOrder(x, y, n))
           Cheaper(q, m) == Permutes(q, n) /\ From(q, n, m) /\ ~ (Best <= Cost(q))
           Missed == {m \in 0 .. n : \E q \in [1 .. n -> 1 .. n] : Cheaper(q, m)}
<1>1. SUFFICES ASSUME ~ (Best <= Cost(p)) PROVE FALSE
  OBVIOUS
<1>2. From(p, n, n)
  BY DEF From
<1>3. n \in Missed
  <2>1. Cheaper(p, n)
    BY <1>1, <1>2
  <2>2. n \in 0 .. n
    OBVIOUS
  <2> HIDE DEF Cheaper
  <2>3. \E q \in [1 .. n -> 1 .. n] : Cheaper(q, n)
    BY <2>1
  <2> QED BY <2>2, <2>3
<1>4. Missed \in SUBSET Nat /\ Missed # {}
  <2> HIDE DEF Cheaper
  <2>1. Missed \subseteq 0 .. n /\ 0 .. n \subseteq Nat
    OBVIOUS
  <2> HIDE DEF Missed
  <2> QED BY <1>3, <2>1
<1>5. PICK m \in Missed : \A k \in Missed : m <= k
  <2> HIDE DEF Missed
  <2> QED BY <1>4, LeastNumber
<1>6. PICK q \in [1 .. n -> 1 .. n] : Cheaper(q, m)
  <2> HIDE DEF Cheaper
  <2> QED BY <1>5
<1>7. m \in 0 .. n
  <2> HIDE DEF Cheaper
  <2> QED BY <1>5
<1>8. m - 1 \notin Missed
  <2> HIDE DEF Missed
  <2> QED BY <1>5, <1>7
<1>9. ASSUME NEW r \in [1 .. n -> 1 .. n], Cheaper(r, m - 1), m # 0
      PROVE  FALSE
  <2>1. m - 1 \in 0 .. n
    BY <1>7, <1>9
  <2> HIDE DEF Cheaper
  <2> QED BY <1>8, <1>9, <2>1
<1>10. Best \in Nat /\ \A r \in [1 .. n -> 1 .. n] : Cost(r) \in Nat
  BY PairingType
<1> HIDE DEF Missed
<1>11. CASE m # 0 /\ q[m] # m
  <2>1. m \in 1 .. n
    BY <1>7, <1>11
  <2>2. PICK r \in [1 .. n -> 1 .. n] :
          Permutes(r, n) /\ From(r, n, m - 1) /\ Cost(r) <= Cost(q)
    BY <1>6, <1>11, <2>1, Exchange
  <2>3. ~ (Best <= Cost(q)) /\ Cost(q) \in Nat /\ Cost(r) \in Nat /\ Best \in Nat
    BY <1>6, <1>10
  <2> HIDE DEF Cost, Best
  <2>4. ~ (Best <= Cost(r))
    BY <2>2, <2>3
  <2> QED BY <1>9, <1>11, <2>2, <2>4
<1>12. CASE m # 0 /\ q[m] = m
  <2>1. From(q, n, m - 1)
    <3> SUFFICES ASSUME NEW k \in 1 .. n, k > m - 1 PROVE q[k] = k
      BY DEF From
    <3>1. k = m \/ k > m
      BY <1>7
    <3> QED BY <1>6, <1>12, <3>1 DEF From
  <2> QED BY <1>6, <1>9, <1>12, <2>1
<1>13. CASE m = 0
  <2>1. \A k \in 1 .. n : q[k] = k
    BY <1>6, <1>13 DEF From
  <2>2. Pairing(x, y, q, n) = InOrder(x, y, n)
    BY <2>1 DEF Pairing, InOrder
  <2>3. Cost(q) = Best /\ Best <= Best
    BY <1>10, <2>2
  <2> QED BY <1>6, <2>3
<1> QED
  BY <1>11, <1>12, <1>13

(* A ranking numbers the slots of its team. *)
LEMMA RankingNumbers ==
  ASSUME NEW l \in Lobby, NEW T \in SUBSET Slot, Cardinality(T) = TeamSize
  PROVE  /\ Ranked(l, T) \in Bijection(1 .. TeamSize, T)
         /\ \A j, k \in 1 .. TeamSize : j < k => l[Ranked(l, T)[j]] <= l[Ranked(l, T)[k]]
<1> DEFINE r == Ranked(l, T)
<1>1. r \in [1 .. TeamSize -> T] /\ Sorts(l, r, TeamSize)
  BY RankedSorts
<1>2. \A k \in 1 .. TeamSize : r[k] \in Slot /\ r[k] \in Nat /\ l[r[k]] \in Nat
  BY <1>1, SlotType DEF Lobby
<1> HIDE DEF r
<1>3. \A j, k \in 1 .. TeamSize : j < k => l[r[j]] <= l[r[k]] /\ r[j] # r[k]
  BY <1>1, <1>2 DEF Sorts, Before
<1>4. \A j, k \in 1 .. TeamSize : r[j] = r[k] => j = k
  <2> SUFFICES ASSUME NEW j \in 1 .. TeamSize, NEW k \in 1 .. TeamSize, r[j] = r[k], j # k
               PROVE  FALSE
    OBVIOUS
  <2>1. j < k \/ k < j
    BY SlotType
  <2> QED BY <1>3, <2>1
<1>5. r \in Injection(1 .. TeamSize, T)
  BY <1>1, <1>4 DEF Injection, IsInjective
<1>6. IsFiniteSet(T) /\ Cardinality(1 .. TeamSize) = TeamSize
  <2>1. IsFiniteSet(T)
    BY SlotType, FS_Subset
  <2>2. Cardinality(1 .. TeamSize) = TeamSize
    BY SlotType, FS_Interval
  <2> QED BY <2>1, <2>2
<1>7. r \in Surjection(1 .. TeamSize, T)
  BY <1>5, <1>6, FS_Injection
<1> QED
  BY <1>3, <1>5, <1>7 DEF r, Bijection

(* Over all ratings and all splits: no way to pair the two teams costs     *)
(* less than the sanction, and one costs as much.                          *)
LEMMA SanctionIsCheapest ==
  ASSUME NEW l \in Lobby, NEW m \in Split
  PROVE  LET Cost(pairing) ==
               SumFunction([i \in TeamA(m) |-> Distance(l[i], l[pairing[i]])])
         IN  /\ \A p \in Bijection(TeamA(m), TeamB(m)) : Sanction(l, m) <= Cost(p)
             /\ \E p \in Bijection(TeamA(m), TeamB(m)) : Sanction(l, m) = Cost(p)
<1> DEFINE A == TeamA(m)
           B == TeamB(m)
           N == 1 .. TeamSize
           a == Ranked(l, A)
           b == Ranked(l, B)
           x == [k \in N |-> l[a[k]]]
           y == [k \in N |-> l[b[k]]]
           Cost(p) == SumFunction([i \in A |-> Distance(l[i], l[p[i]])])
<1>1. /\ A \in SUBSET Slot /\ B \in SUBSET Slot /\ IsFiniteSet(N) /\ TeamSize \in Nat
      /\ a \in Bijection(N, A) /\ b \in Bijection(N, B)
      /\ \A j, k \in N : j < k => l[a[j]] <= l[a[k]] /\ l[b[j]] <= l[b[k]]
  <2>1. /\ A \in SUBSET Slot /\ B \in SUBSET Slot
        /\ Cardinality(A) = TeamSize /\ Cardinality(B) = TeamSize
    BY WholeTeams
  <2>2. TeamSize \in Nat /\ IsFiniteSet(N)
    BY SlotType, FS_Interval
  <2> HIDE DEF A, B
  <2>3. /\ a \in Bijection(N, A)
        /\ \A j, k \in N : j < k => l[a[j]] <= l[a[k]]
    BY <2>1, RankingNumbers
  <2>4. /\ b \in Bijection(N, B)
        /\ \A j, k \in N : j < k => l[b[j]] <= l[b[k]]
    BY <2>1, RankingNumbers
  <2> QED BY <2>1, <2>2, <2>3, <2>4
<1>2. Sanction(l, m) = SumFunction([k \in N |-> Distance(l[a[k]], l[b[k]])])
  BY DEF Sanction
<1> HIDE DEF A, B, a, b
<1>3. /\ a \in [N -> A] /\ \A j, k \in N : a[j] = a[k] => j = k
      /\ b \in [N -> B] /\ \A j, k \in N : b[j] = b[k] => j = k
      /\ \A i \in A : \E k \in N : a[k] = i
      /\ \A i \in B : \E k \in N : b[k] = i
  BY <1>1 DEF Bijection, Injection, Surjection, IsInjective
<1>4. \A i \in A \cup B : l[i] \in Nat
  BY <1>1 DEF Lobby
<1>5. x \in [N -> Nat] /\ y \in [N -> Nat] /\ Rising(x, TeamSize) /\ Rising(y, TeamSize)
  BY <1>1, <1>3, <1>4 DEF Rising
(* A pairing costs the same, counted by slot or by rank. *)
<1>6. ASSUME NEW p \in [A -> B]
      PROVE  Cost(p) = SumFunction([k \in N |-> Distance(l[a[k]], l[p[a[k]]])])
  <2> DEFINE f == [i \in A |-> Distance(l[i], l[p[i]])]
  <2>1. f \in [A -> Int]
    BY <1>4, DistanceType
  <2>2. \A k \in N : f[a[k]] = Distance(l[a[k]], l[p[a[k]]])
    BY <1>3
  <2> HIDE DEF f
  <2>3. SumFunction([k \in N |-> f[a[k]]]) = SumFunction(f)
    BY <1>1, <2>1, SumReindex
  <2>4. [k \in N |-> f[a[k]]] = [k \in N |-> Distance(l[a[k]], l[p[a[k]]])]
    BY <2>2
  <2> QED BY <2>3, <2>4 DEF f
<1>7. ASSUME NEW p \in Bijection(A, B)
      PROVE  Sanction(l, m) <= Cost(p)
  <2>1. p \in [A -> B] /\ \A i, j \in A : p[i] = p[j] => i = j
    BY DEF Bijection, Injection, IsInjective
  <2> DEFINE q == [k \in N |-> CHOOSE j \in N : b[j] = p[a[k]]]
  <2>2. \A k \in N : q[k] \in N /\ b[q[k]] = p[a[k]]
    BY <1>3, <2>1
  <2>3. q \in [N -> N]
    BY <2>2
  <2> HIDE DEF q
  <2>4. Permutes(q, TeamSize)
    BY <1>3, <2>1, <2>2 DEF Permutes
  <2>5. SumFunction(InOrder(x, y, TeamSize)) <= SumFunction(Pairing(x, y, q, TeamSize))
    <3> HIDE DEF x, y
    <3> QED BY <1>1, <1>5, <2>3, <2>4, InOrderIsCheapest
  <2>6. InOrder(x, y, TeamSize) = [k \in N |-> Distance(l[a[k]], l[b[k]])]
    BY DEF InOrder
  <2>7. Pairing(x, y, q, TeamSize) = [k \in N |-> Distance(l[a[k]], l[p[a[k]]])]
    BY <2>2 DEF Pairing
  <2> QED BY <1>2, <1>6, <2>1, <2>5, <2>6, <2>7
<1>8. \E p \in Bijection(A, B) : Sanction(l, m) = Cost(p)
  <2> DEFINE rank(i) == CHOOSE k \in N : a[k] = i
             p == [i \in A |-> b[rank(i)]]
  <2>1. \A i \in A : rank(i) \in N /\ a[rank(i)] = i
    BY <1>3
  <2>2. \A k \in N : rank(a[k]) = k
    BY <1>3, <2>1
  <2> HIDE DEF rank
  <2>3. p \in [A -> B] /\ \A i \in A : p[i] = b[rank(i)]
    BY <1>3, <2>1
  <2>4. \A k \in N : p[a[k]] = b[k]
    BY <1>3, <2>2, <2>3
  <2> HIDE DEF p
  <2>5. \A i, j \in A : p[i] = p[j] => i = j
    BY <1>3, <2>1, <2>3
  <2>6. \A i \in B : \E j \in A : p[j] = i
    BY <1>3, <2>4
  <2>7. p \in Bijection(A, B)
    BY <2>3, <2>5, <2>6 DEF Bijection, Injection, Surjection, IsInjective
  <2>8. [k \in N |-> Distance(l[a[k]], l[p[a[k]]])] = [k \in N |-> Distance(l[a[k]], l[b[k]])]
    BY <2>4
  <2> QED BY <1>2, <1>6, <2>3, <2>7, <2>8
<1> QED
  BY <1>7, <1>8 DEF A, B

(* sanction_score is the distance its comment names: the 1D Wasserstein    *)
(* distance, for lobbies of any size and any ratings.                      *)
THEOREM SanctionTransports == Spec => []SanctionIsTransport
<1>1. TypeOK => SanctionIsTransport
  <2> SUFFICES ASSUME TypeOK, mask \in Split
               PROVE  LET Cost(pairing) ==
                            SumFunction([i \in TeamA(mask) |-> Distance(lobby[i], lobby[pairing[i]])])
                      IN  Sanction(lobby, mask) =
                            Min({Cost(p) : p \in Bijection(TeamA(mask), TeamB(mask))})
    BY DEF SanctionIsTransport
  <2> DEFINE Cost(p) == SumFunction([i \in TeamA(mask) |-> Distance(lobby[i], lobby[p[i]])])
             Costs == {Cost(p) : p \in Bijection(TeamA(mask), TeamB(mask))}
  <2>1. lobby \in Lobby
    BY LobbyType
  <2>2. /\ \A p \in Bijection(TeamA(mask), TeamB(mask)) : Sanction(lobby, mask) <= Cost(p)
        /\ \E p \in Bijection(TeamA(mask), TeamB(mask)) : Sanction(lobby, mask) = Cost(p)
    BY <2>1, SanctionIsCheapest
  <2>3. \A p \in Bijection(TeamA(mask), TeamB(mask)) : Cost(p) \in Nat
    <3> SUFFICES ASSUME NEW p \in Bijection(TeamA(mask), TeamB(mask)) PROVE Cost(p) \in Nat
      OBVIOUS
    <3>1. p \in [TeamA(mask) -> TeamB(mask)]
      BY DEF Bijection, Injection
    <3>2. \A i \in TeamA(mask) : lobby[i] \in Nat /\ lobby[p[i]] \in Nat
      BY <2>1, <3>1, WholeTeams DEF Lobby
    <3>3. [i \in TeamA(mask) |-> Distance(lobby[i], lobby[p[i]])] \in [TeamA(mask) -> Nat]
      BY <3>2, DistanceType
    <3> QED BY <3>3, WholeTeams, SumFunctionNat
  <2>4. Sanction(lobby, mask) \in Costs /\ \A c \in Costs : Sanction(lobby, mask) <= c /\ c \in Nat
    BY <2>2, <2>3
  <2> HIDE DEF Costs
  <2>5. \A c \in Costs : (\A d \in Costs : c <= d) => c = Sanction(lobby, mask)
    BY <2>4
  <2>6. Min(Costs) = Sanction(lobby, mask)
    BY <2>4, <2>5 DEF Min
  <2> QED BY <2>6 DEF Costs
<1> QED
  BY <1>1, SearchTypes, PTL
=============================================================================
