-------------------------- MODULE MatchPoolPlayers --------------------------
(***************************************************************************)
(* Theorems about the players of MatchPool: where they are, that none is   *)
(* lost and none is claimed twice, whatever the threads do; that the depth *)
(* counter agrees with them; and that the pool provides the service of     *)
(* Matchmaking.                                                            *)
(***************************************************************************)
EXTENDS MatchPoolProofs, SumTheorems

(* What is in a bucket or in a hand: at most what the type allows. *)
LEMMA PlacesType ==
  ASSUME Inv
  PROVE  /\ \A b \in Bucket : /\ queue[b] \in Seq(Player) /\ Len(queue[b]) \in Nat
                              /\ DOMAIN queue[b] = 1 .. Len(queue[b])
         /\ \A w \in Worker : /\ taken[w] \in Seq(Held) /\ Len(taken[w]) \in Nat
                              /\ DOMAIN taken[w] = 1 .. Len(taken[w])
  BY LenProperties DEF Inv, TypeOK

(* Steps other than these five move nobody. *)
LEMMA Movers ==
  ASSUME Inv, [Next]_vars
  PROVE  \/ \E p \in Player : Receive(p)
         \/ \E b \in Bucket : Push(b)
         \/ \E w \in Worker, b \in Bucket : Drain(w, b) \/ PutBack(w, b)
         \/ \E w \in Worker : FormMatch(w)
         \/ UNCHANGED <<queue, taken, formed, arriving, enqueued_at>>
<1> DEFINE Still == UNCHANGED <<queue, taken, formed, arriving, enqueued_at>>
<1>1. ASSUME NEW t \in Thread, NEW b \in Bucket, Lock(t, b)
      PROVE  Still
  BY <1>1 DEF Lock, sideVars, localVars
<1>2. ASSUME NEW w \in Worker, WorkerStep(w)
      PROVE  \/ \E b \in Bucket : Drain(w, b) \/ PutBack(w, b)
             \/ FormMatch(w)
             \/ Still
  <2>1. w \in Thread
    BY DEF Thread
  <2>2. CASE Claim(w) \/ SkipSparse(w) \/ BeginPeek(w) \/ FindNobody(w) \/ BeginHarvest(w)
    BY <2>2 DEF Claim, SkipSparse, BeginPeek, FindNobody, BeginHarvest, poolVars, sideVars
  <2>3. CASE EndHarvest(w) \/ EndPutBack(w) \/ RefuseMatch(w)
    BY <2>3 DEF EndHarvest, EndPutBack, RefuseMatch, poolVars, sideVars, localVars
  <2>4. ASSUME NEW b \in Bucket, TryLockFails(w, b) \/ CountBucket(w, b) \/ Peek(w, b)
        PROVE  Still
    BY <2>4 DEF TryLockFails, CountBucket, Peek, poolVars, sideVars, localVars
  <2> QED
    BY <1>1, <1>2, <2>1, <2>2, <2>3, <2>4 DEF WorkerStep
<1>3. CASE IngestionStep
  <2>1. Ingestion \in Thread
    BY DEF Thread
  <2>2. CountArrival => Still
    BY DEF CountArrival, poolVars, sideVars, localVars
  <2> QED
    BY <1>1, <1>3, <2>1, <2>2 DEF IngestionStep
<1>4. CASE SnapshotterStep
  <2>1. Snapshotter \in Thread
    BY DEF Thread
  <2>2. ASSUME NEW b \in Bucket, BeginPass \/ CopyBucket(b)
        PROVE  Still
    BY <2>2 DEF BeginPass, CopyBucket, poolVars, sideVars, localVars
  <2> QED
    BY <1>1, <1>4, <2>1, <2>2, BucketType DEF SnapshotterStep
<1>5. CASE Tick \/ UNCHANGED vars
  BY <1>5 DEF Tick, vars, poolVars, sideVars, localVars
<1> QED
  BY <1>2, <1>3, <1>4, <1>5 DEF Next

(* What enqueue does: the arriving player goes to the end of its bucket. *)
LEMMA PushEffect ==
  ASSUME Inv, NEW b \in Bucket, Push(b)
  PROVE  /\ arriving \in Player
         /\ b = Home(arriving)
         /\ Len(queue'[b]) = Len(queue[b]) + 1
         /\ \A i \in 1 .. Len(queue[b]) : queue'[b][i] = queue[b][i]
         /\ queue'[b][Len(queue[b]) + 1] = arriving
         /\ \A c \in Bucket \ {b} : queue'[c] = queue[c]
         /\ taken' = taken /\ formed' = formed /\ enqueued_at' = enqueued_at
         /\ arriving' = None
<1>1. arriving \in Player
  BY DEF Push, Inv, Roles, TypeOK
<1>2. b = Home(arriving)
  BY BucketType DEF Push, Inv, Asked, Wants, Thread
<1>3. queue'[b] = Append(queue[b], arriving) /\ \A c \in Bucket \ {b} : queue'[c] = queue[c]
  BY DEF Push, Inv, TypeOK
<1>4. queue[b] \in Seq(Player) /\ Len(queue[b]) \in Nat
  BY PlacesType
<1> QED
  BY <1>1, <1>2, <1>3, <1>4, AppendProperties DEF Push, localVars
-----------------------------------------------------------------------------
(***************************************************************************)
(* Home.                                                                   *)
(***************************************************************************)

(* Every step leaves every player in the bucket of its rating, or in hand  *)
(* with that bucket recorded.                                              *)
LEMMA NextAtHome == Inv /\ AtHome /\ [Next]_vars => AtHome'
<1> SUFFICES ASSUME Inv, AtHome, [Next]_vars
             PROVE  AtHome'
  OBVIOUS
<1>0. Inv'
  BY NextInv
<1>1. ASSUME NEW b \in Bucket, Push(b)
      PROVE  AtHome'
  <2> SUFFICES ASSUME NEW c \in Bucket, NEW i \in DOMAIN queue'[c]
               PROVE  Home(queue'[c][i]) = c
    BY <1>1, PushEffect DEF AtHome, Home
  <2>1. CASE c # b
    BY <2>1, <1>1, PushEffect DEF AtHome
  <2>2. CASE c = b
    <3>0. queue'[b] \in Seq(Player) /\ Len(queue'[b]) = Len(queue[b]) + 1
      BY <1>0, <1>1, PushEffect DEF Inv, TypeOK
    <3>1. i \in 1 .. Len(queue[b]) + 1 /\ Len(queue[b]) \in Nat /\ DOMAIN queue[b] = 1 .. Len(queue[b])
      BY <2>2, <3>0, PlacesType, LenProperties
    <3> QED
      BY <3>1, <2>2, <1>1, PushEffect DEF AtHome
  <2> QED
    BY <2>1, <2>2
<1>2. ASSUME NEW w \in Worker, NEW b \in Bucket, Drain(w, b)
      PROVE  AtHome'
  <2> DEFINE h == Len(taken[w])
  <2>1. PICK n \in Nat :
          /\ n <= Len(queue[b])
          /\ Len(taken'[w]) = h + n
          /\ \A i \in 1 .. h : taken'[w][i] = taken[w][i]
          /\ \A i \in 1 .. n : taken'[w][h + i] = [bucket |-> b, player |-> queue[b][i]]
          /\ \A v \in Worker \ {w} : taken'[v] = taken[v]
          /\ Len(queue'[b]) = Len(queue[b]) - n
          /\ \A i \in 1 .. Len(queue[b]) - n : queue'[b][i] = queue[b][n + i]
          /\ \A c \in Bucket \ {b} : queue'[c] = queue[c]
    BY <1>2, DrainEffect
  <2>2. /\ h \in Nat /\ DOMAIN taken[w] = 1 .. h /\ DOMAIN taken'[w] = 1 .. h + n
        /\ Len(queue[b]) \in Nat /\ DOMAIN queue[b] = 1 .. Len(queue[b])
        /\ DOMAIN queue'[b] = 1 .. Len(queue[b]) - n
    BY <1>0, <2>1, PlacesType, LenProperties DEF Inv, TypeOK
  <2> HIDE DEF h
  <2>3. ASSUME NEW c \in Bucket, NEW i \in DOMAIN queue'[c]
        PROVE  Home(queue'[c][i]) = c
    <3>1. CASE c # b
      BY <3>1, <2>1 DEF AtHome
    <3>2. CASE c = b
      <4>1. n + i \in DOMAIN queue[b] /\ queue'[c][i] = queue[b][n + i]
        BY <3>2, <2>1, <2>2
      <4> QED
        BY <4>1, <3>2 DEF AtHome
    <3> QED
      BY <3>1, <3>2
  <2>4. ASSUME NEW v \in Worker, NEW i \in DOMAIN taken'[v]
        PROVE  taken'[v][i].bucket = Home(taken'[v][i].player)
    <3>1. CASE v # w \/ i \in 1 .. h
      BY <3>1, <2>1, <2>2 DEF AtHome
    <3>2. CASE v = w /\ i \notin 1 .. h
      <4> DEFINE k == i - h
      <4>1. k \in 1 .. n /\ i = h + k
        BY <3>2, <2>2
      <4>2. k \in DOMAIN queue[b]
        BY <4>1, <2>1, <2>2
      <4>3. taken'[v][i] = [bucket |-> b, player |-> queue[b][k]]
        BY <4>1, <3>2, <2>1
      <4> QED
        BY <4>2, <4>3 DEF AtHome
    <3> QED
      BY <3>1, <3>2
  <2> QED
    BY <2>3, <2>4 DEF AtHome, Home
<1>3. ASSUME NEW w \in Worker, NEW b \in Bucket, PutBack(w, b)
      PROVE  AtHome'
  <2> DEFINE n == Len(taken[w])
             p == taken[w][n].player
  <2>1. /\ n \in Nat \ {0}
        /\ b = taken[w][n].bucket \/ b = Home(p)
        /\ Len(taken'[w]) = n - 1
        /\ \A i \in 1 .. n - 1 : taken'[w][i] = taken[w][i]
        /\ \A v \in Worker \ {w} : taken'[v] = taken[v]
        /\ Len(queue'[b]) = Len(queue[b]) + 1
        /\ queue'[b][1] = p
        /\ \A i \in 1 .. Len(queue[b]) : queue'[b][i + 1] = queue[b][i]
        /\ \A c \in Bucket \ {b} : queue'[c] = queue[c]
    BY <1>3, PutBackEffect
  <2>2. /\ DOMAIN taken[w] = 1 .. n /\ DOMAIN taken'[w] = 1 .. n - 1
        /\ Len(queue[b]) \in Nat /\ DOMAIN queue[b] = 1 .. Len(queue[b])
        /\ DOMAIN queue'[b] = 1 .. Len(queue[b]) + 1
    BY <1>0, <2>1, PlacesType, LenProperties DEF Inv, TypeOK
  <2>3. b = Home(p)
    BY <2>1, <2>2 DEF AtHome
  <2> HIDE DEF n, p
  <2>4. ASSUME NEW c \in Bucket, NEW i \in DOMAIN queue'[c]
        PROVE  Home(queue'[c][i]) = c
    <3>1. CASE c # b
      BY <3>1, <2>1 DEF AtHome
    <3>2. CASE c = b /\ i = 1
      BY <3>2, <2>1, <2>3
    <3>3. CASE c = b /\ i # 1
      <4> DEFINE k == i - 1
      <4>1. k \in DOMAIN queue[b] /\ k \in 1 .. Len(queue[b]) /\ i = k + 1
        BY <3>3, <2>2
      <4>2. queue'[c][i] = queue[b][k]
        BY <4>1, <3>3, <2>1
      <4> QED
        BY <4>1, <4>2, <3>3 DEF AtHome
    <3> QED
      BY <3>1, <3>2, <3>3
  <2>5. ASSUME NEW v \in Worker, NEW i \in DOMAIN taken'[v]
        PROVE  taken'[v][i].bucket = Home(taken'[v][i].player)
    BY <2>1, <2>2 DEF AtHome
  <2> QED
    BY <2>4, <2>5 DEF AtHome, Home
<1>4. ASSUME NEW w \in Worker, FormMatch(w)
      PROVE  AtHome'
  <2>1. \A v \in Worker : taken'[v] = IF v = w THEN <<>> ELSE taken[v]
    BY <1>4 DEF FormMatch, Inv, TypeOK
  <2>2. queue' = queue
    BY <1>4 DEF FormMatch, poolVars
  <2> QED
    BY <2>1, <2>2 DEF AtHome, Home
<1>5. CASE \/ UNCHANGED <<queue, taken>>
           \/ \E p \in Player : Receive(p)
  BY <1>5 DEF AtHome, Home, Receive, poolVars, localVars
<1> QED
  BY <1>1, <1>2, <1>3, <1>4, <1>5, Movers

(* rollback (to the recorded origin) and return_group (to the rating's     *)
(* bucket) agree: every player is always in the bucket of its rating or in *)
(* hand with that bucket on record.                                        *)
THEOREM Homing == Spec => []AtHome
<1>1. Init => AtHome
  BY DEF Init, AtHome
<1> QED
  BY <1>1, InvHolds, NextAtHome, PTL DEF Spec
-----------------------------------------------------------------------------
(***************************************************************************)
(* Nobody twice, nobody lost.  The steps that move players, as the sets    *)
(* they move between buckets, hands and matches.                           *)
(***************************************************************************)

(* Everybody in a bucket or in a hand is a player. *)
LEMMA PlacesArePlayers ==
  ASSUME Inv
  PROVE  Queued \subseteq Player /\ Taken \subseteq Player /\ Matched \subseteq Player
<1>1. \A b \in Bucket : Range(queue[b]) \subseteq Player
  BY PlacesType, ElementOfSeq DEF Range
<1>2. \A w \in Worker : Hand(w) \subseteq Player
  <2> SUFFICES ASSUME NEW w \in Worker, NEW i \in DOMAIN taken[w]
               PROVE  taken[w][i].player \in Player
    BY DEF Hand
  <2>1. taken[w][i] \in Held
    BY PlacesType, ElementOfSeq
  <2> QED
    BY <2>1 DEF Held
<1>3. \A g \in formed : Range(g) \subseteq Player
  BY DEF Inv, TypeOK, Range
<1> QED
  BY <1>1, <1>2, <1>3 DEF Queued, Taken, Matched

(* One worker's hand holds nobody twice. *)
Distinct(w) ==
  \A i, j \in DOMAIN taken[w] : taken[w][i].player = taken[w][j].player => i = j

(* enqueue adds the arriving player to its bucket. *)
LEMMA PushMoves ==
  ASSUME Inv, NobodyTwice, NEW b \in Bucket, Push(b)
  PROVE  /\ Range(queue'[b]) = Range(queue[b]) \cup {arriving}
         /\ IsInjective(queue'[b])
<1> DEFINE q == queue[b]
           r == queue'[b]
           n == Len(queue[b])
<1>1. Inv'
  BY NextInv DEF Next, IngestionStep
<1>2. /\ n \in Nat /\ DOMAIN q = 1 .. n /\ DOMAIN r = 1 .. n + 1
      /\ \A i \in 1 .. n : r[i] = q[i]
      /\ r[n + 1] = arriving
  <2>1. r \in Seq(Player) /\ Len(r) = n + 1
    BY <1>1, PushEffect DEF Inv, TypeOK
  <2>2. DOMAIN r = 1 .. n + 1 /\ n \in Nat /\ DOMAIN q = 1 .. n
    BY <2>1, PlacesType, LenProperties
  <2> QED
    BY <2>2, PushEffect
<1>3. IsInjective(q) /\ \A i \in 1 .. n : q[i] # arriving
  BY <1>2 DEF NobodyTwice, Queued, Range
<1> HIDE DEF q, r, n
<1>4. Range(r) = Range(q) \cup {arriving}
  <2>1. ASSUME NEW i \in 1 .. n + 1 PROVE r[i] \in Range(q) \cup {arriving}
    <3>1. CASE i \in 1 .. n
      BY <3>1, <1>2 DEF Range
    <3>2. CASE i = n + 1
      BY <3>2, <1>2
    <3> QED
      BY <3>1, <3>2, <1>2
  <2>2. ASSUME NEW i \in 1 .. n PROVE q[i] \in Range(r)
    <3>1. i \in 1 .. n + 1 /\ r[i] = q[i]
      BY <1>2
    <3> QED
      BY <3>1, <1>2 DEF Range
  <2>3. arriving \in Range(r)
    <3>1. n + 1 \in 1 .. n + 1
      BY <1>2
    <3> QED
      BY <3>1, <1>2 DEF Range
  <2> QED
    BY <2>1, <2>2, <2>3, <1>2 DEF Range
<1>5. IsInjective(r)
  <2> SUFFICES ASSUME NEW i \in 1 .. n + 1, NEW j \in 1 .. n + 1, r[i] = r[j]
               PROVE  i = j
    BY <1>2 DEF IsInjective
  <2> QED
    BY <1>2, <1>3 DEF IsInjective
<1> QED
  BY <1>4, <1>5 DEF q, r

(* A visit of the harvest moves a set of players from bucket to hand. *)
LEMMA DrainMoves ==
  ASSUME Inv, NobodyTwice, NEW w \in Worker, NEW b \in Bucket, Drain(w, b)
  PROVE  /\ \E M \in SUBSET Range(queue[b]) :
              /\ Range(queue'[b]) = Range(queue[b]) \ M
              /\ Hand(w)' = Hand(w) \cup M
         /\ IsInjective(queue'[b])
         /\ Distinct(w)'
<1> DEFINE q == queue[b]
           r == queue'[b]
           h == taken[w]
           k == taken'[w]
<1>0. Inv'
  BY NextInv DEF Next, WorkerStep
<1>1. PICK n \in Nat :
        /\ n <= Len(q)
        /\ Len(k) = Len(h) + n
        /\ \A i \in 1 .. Len(h) : k[i] = h[i]
        /\ \A i \in 1 .. n : k[Len(h) + i] = [bucket |-> b, player |-> q[i]]
        /\ Len(r) = Len(q) - n
        /\ \A i \in 1 .. Len(q) - n : r[i] = q[n + i]
  BY DrainEffect
<1> DEFINE m == Len(h)
           z == Len(q)
           M == {q[i] : i \in 1 .. n}
<1>2. /\ m \in Nat /\ z \in Nat
      /\ DOMAIN h = 1 .. m /\ DOMAIN q = 1 .. z
      /\ DOMAIN k = 1 .. m + n /\ DOMAIN r = 1 .. z - n
  BY <1>0, <1>1, PlacesType, LenProperties DEF Inv, TypeOK
<1>3. IsInjective(q) /\ Distinct(w)
  BY DEF NobodyTwice, Distinct
<1>4. \A i \in 1 .. m, j \in 1 .. z : h[i].player # q[j]
  <2> SUFFICES ASSUME NEW i \in 1 .. m, NEW j \in 1 .. z PROVE h[i].player # q[j]
    OBVIOUS
  <2>1. h[i].player \in Hand(w)
    BY <1>2 DEF Hand
  <2>2. q[j] \in Range(queue[b])
    BY <1>2 DEF Range
  <2>3. Hand(w) \subseteq Taken /\ Range(queue[b]) \subseteq Queued
    BY DEF Taken, Queued
  <2> QED
    BY <2>1, <2>2, <2>3 DEF NobodyTwice
<1>5. \A i, j \in 1 .. z : q[i] = q[j] => i = j
  BY <1>2, <1>3 DEF IsInjective
<1>6. \A i, j \in 1 .. m : h[i].player = h[j].player => i = j
  BY <1>2, <1>3 DEF Distinct
<1>7. Range(q) = {q[i] : i \in 1 .. z} /\ Range(r) = {r[i] : i \in 1 .. z - n}
  BY <1>2 DEF Range
<1>8. Hand(w) = {h[i].player : i \in 1 .. m} /\ Hand(w)' = {k[i].player : i \in 1 .. m + n}
  BY <1>2 DEF Hand
<1>9. /\ n <= z
      /\ \A i \in 1 .. m : k[i].player = h[i].player
      /\ \A i \in 1 .. n : k[m + i].player = q[i]
      /\ \A i \in 1 .. z - n : r[i] = q[n + i]
  <2>1. \A i \in 1 .. m : k[i].player = h[i].player
    BY <1>1
  <2>2. ASSUME NEW i \in 1 .. n PROVE k[m + i].player = q[i]
    <3>1. k[m + i] = [bucket |-> b, player |-> q[i]]
      BY <1>1
    <3> QED
      BY <3>1
  <2> QED
    BY <2>1, <2>2, <1>1
<1> HIDE DEF q, r, h, k, m, z
<1>10. Range(r) = Range(q) \ M
  <2>1. ASSUME NEW i \in 1 .. z - n PROVE r[i] \in Range(q) \ M
    <3>1. n + i \in 1 .. z /\ r[i] = q[n + i]
      BY <1>2, <1>9
    <3>2. \A j \in 1 .. n : q[j] # q[n + i]
      BY <3>1, <1>2, <1>5, <1>9
    <3> QED
      BY <3>1, <3>2, <1>7
  <2>2. ASSUME NEW j \in 1 .. z, q[j] \notin M PROVE q[j] \in Range(r)
    <3>1. j \notin 1 .. n
      BY <2>2
    <3> DEFINE i == j - n
    <3>2. i \in 1 .. z - n /\ j = n + i
      BY <3>1, <1>2, <1>9
    <3>3. r[i] = q[j]
      BY <3>2, <1>9
    <3> QED
      BY <3>2, <3>3, <1>7
  <2> QED
    BY <2>1, <2>2, <1>7
<1>11. M \subseteq Range(q)
  BY <1>2, <1>7, <1>9
<1>12. Hand(w)' = Hand(w) \cup M
  <2>1. ASSUME NEW i \in 1 .. m + n PROVE k[i].player \in Hand(w) \cup M
    <3>1. CASE i \in 1 .. m
      BY <3>1, <1>8, <1>9
    <3>2. CASE i \notin 1 .. m
      <4> DEFINE j == i - m
      <4>1. j \in 1 .. n /\ i = m + j
        BY <3>2, <1>2
      <4>2. k[i].player = q[j]
        BY <4>1, <1>9
      <4> QED
        BY <4>1, <4>2
    <3> QED
      BY <3>1, <3>2
  <2>2. ASSUME NEW i \in 1 .. m PROVE h[i].player \in Hand(w)'
    <3>1. i \in 1 .. m + n
      BY <1>2
    <3> QED
      BY <3>1, <1>8, <1>9
  <2>3. ASSUME NEW j \in 1 .. n PROVE q[j] \in Hand(w)'
    <3>1. m + j \in 1 .. m + n
      BY <1>2
    <3> QED
      BY <3>1, <1>8, <1>9
  <2> QED
    BY <2>1, <2>2, <2>3, <1>8
<1>13. IsInjective(r)
  <2> SUFFICES ASSUME NEW i \in 1 .. z - n, NEW j \in 1 .. z - n, r[i] = r[j]
               PROVE  i = j
    BY <1>2 DEF IsInjective
  <2>1. n + i \in 1 .. z /\ n + j \in 1 .. z /\ q[n + i] = q[n + j]
    BY <1>2, <1>9
  <2>2. n + i = n + j
    BY <2>1, <1>5
  <2> QED
    BY <2>2, <1>2
<1>14. Distinct(w)'
  <2> SUFFICES ASSUME NEW i \in 1 .. m + n, NEW j \in 1 .. m + n, k[i].player = k[j].player
               PROVE  i = j
    BY <1>2 DEF Distinct, k
  <2>1. ASSUME NEW x \in 1 .. m + n, x \notin 1 .. m
        PROVE  x - m \in 1 .. n /\ x - m \in 1 .. z /\ k[x].player = q[x - m]
    <3> DEFINE y == x - m
    <3>1. y \in 1 .. n /\ y \in 1 .. z /\ x = m + y
      BY <2>1, <1>2, <1>9
    <3>2. k[m + y].player = q[y]
      BY <3>1, <1>9
    <3> QED
      BY <3>1, <3>2
  <2>2. CASE i \in 1 .. m /\ j \in 1 .. m
    BY <2>2, <1>6, <1>9
  <2>3. CASE i \in 1 .. m /\ j \notin 1 .. m
    BY <2>1, <2>3, <1>4, <1>9
  <2>4. CASE i \notin 1 .. m /\ j \in 1 .. m
    BY <2>1, <2>4, <1>4, <1>9
  <2>5. CASE i \notin 1 .. m /\ j \notin 1 .. m
    <3>1. i - m = j - m
      BY <2>1, <2>5, <1>5
    <3> QED
      BY <3>1, <1>2
  <2> QED
    BY <2>2, <2>3, <2>4, <2>5
<1> QED
  BY <1>10, <1>11, <1>12, <1>13, <1>14 DEF q, r, h, k

(* A step of rollback or return_group moves one player back. *)
LEMMA PutBackMoves ==
  ASSUME Inv, NobodyTwice, NEW w \in Worker, NEW b \in Bucket, PutBack(w, b)
  PROVE  /\ \E p \in Hand(w) :
              /\ Range(queue'[b]) = Range(queue[b]) \cup {p}
              /\ Hand(w)' = Hand(w) \ {p}
         /\ IsInjective(queue'[b])
         /\ Distinct(w)'
<1> DEFINE q == queue[b]
           r == queue'[b]
           h == taken[w]
           k == taken'[w]
           n == Len(h)
           z == Len(q)
           p == h[n].player
<1>0. Inv'
  BY NextInv DEF Next, WorkerStep
<1>1. /\ n \in Nat \ {0} /\ Len(k) = n - 1
      /\ \A i \in 1 .. n - 1 : k[i] = h[i]
      /\ Len(r) = z + 1
      /\ r[1] = p
      /\ \A i \in 1 .. z : r[i + 1] = q[i]
  BY PutBackEffect
<1>2. /\ z \in Nat
      /\ DOMAIN h = 1 .. n /\ DOMAIN q = 1 .. z
      /\ DOMAIN k = 1 .. n - 1 /\ DOMAIN r = 1 .. z + 1
  BY <1>0, <1>1, PlacesType, LenProperties DEF Inv, TypeOK
<1>3. IsInjective(q) /\ Distinct(w)
  BY DEF NobodyTwice, Distinct
<1>4. p \in Hand(w)
  BY <1>1, <1>2 DEF Hand
<1>5. \A j \in 1 .. z : p # q[j]
  <2> SUFFICES ASSUME NEW j \in 1 .. z PROVE p # q[j]
    OBVIOUS
  <2>1. q[j] \in Range(queue[b])
    BY <1>2 DEF Range
  <2>2. Hand(w) \subseteq Taken /\ Range(queue[b]) \subseteq Queued
    BY DEF Taken, Queued
  <2> QED
    BY <1>4, <2>1, <2>2 DEF NobodyTwice
<1>6. \A i, j \in 1 .. n : h[i].player = h[j].player => i = j
  BY <1>2, <1>3 DEF Distinct
<1>7. Range(q) = {q[i] : i \in 1 .. z} /\ Range(r) = {r[i] : i \in 1 .. z + 1}
  BY <1>2 DEF Range
<1>8. Hand(w) = {h[i].player : i \in 1 .. n} /\ Hand(w)' = {k[i].player : i \in 1 .. n - 1}
  BY <1>2 DEF Hand
<1>9. p = h[n].player
  OBVIOUS
<1> HIDE DEF q, r, h, k, n, z, p
<1>10. ASSUME NEW x \in 1 .. z + 1, x # 1
       PROVE  x - 1 \in 1 .. z /\ r[x] = q[x - 1]
  <2> DEFINE y == x - 1
  <2>1. y \in 1 .. z /\ x = y + 1
    BY <1>10, <1>2
  <2>2. r[y + 1] = q[y]
    BY <2>1, <1>1
  <2> QED
    BY <2>1, <2>2
<1>11. Range(r) = Range(q) \cup {p}
  <2>1. ASSUME NEW i \in 1 .. z + 1 PROVE r[i] \in Range(q) \cup {p}
    BY <1>1, <1>7, <1>10
  <2>2. ASSUME NEW j \in 1 .. z PROVE q[j] \in Range(r)
    <3>1. j + 1 \in 1 .. z + 1 /\ r[j + 1] = q[j]
      BY <1>1, <1>2
    <3> QED
      BY <3>1, <1>7
  <2>3. p \in Range(r)
    <3>1. 1 \in 1 .. z + 1
      BY <1>2
    <3> QED
      BY <3>1, <1>1, <1>7
  <2> QED
    BY <2>1, <2>2, <2>3, <1>7
<1>12. Hand(w)' = Hand(w) \ {p}
  <2>1. ASSUME NEW i \in 1 .. n - 1 PROVE k[i].player \in Hand(w) \ {p}
    <3>1. i \in 1 .. n /\ n \in 1 .. n /\ i # n /\ k[i].player = h[i].player
      BY <1>1
    <3> QED
      BY <3>1, <1>6, <1>8, <1>9
  <2>2. ASSUME NEW i \in 1 .. n, h[i].player # p PROVE h[i].player \in Hand(w)'
    <3>1. i \in 1 .. n - 1
      BY <2>2, <1>1, <1>9
    <3> QED
      BY <3>1, <1>1, <1>8
  <2> QED
    BY <2>1, <2>2, <1>8
<1>13. IsInjective(r)
  <2> SUFFICES ASSUME NEW i \in 1 .. z + 1, NEW j \in 1 .. z + 1, r[i] = r[j]
               PROVE  i = j
    BY <1>2 DEF IsInjective
  <2>1. CASE i = 1 \/ j = 1
    BY <2>1, <1>1, <1>5, <1>10
  <2>2. CASE i # 1 /\ j # 1
    <3>1. i - 1 = j - 1
      BY <2>2, <1>2, <1>3, <1>10 DEF IsInjective
    <3> QED
      BY <3>1, <1>2
  <2> QED
    BY <2>1, <2>2
<1>14. Distinct(w)'
  <2> SUFFICES ASSUME NEW i \in 1 .. n - 1, NEW j \in 1 .. n - 1, k[i].player = k[j].player
               PROVE  i = j
    BY <1>2 DEF Distinct, k
  <2>1. i \in 1 .. n /\ j \in 1 .. n
    BY <1>1
  <2> QED
    BY <2>1, <1>1, <1>6
<1> QED
  BY <1>4, <1>11, <1>12, <1>13, <1>14 DEF q, r

(* A match takes the whole hand of the worker that forms it. *)
LEMMA FormMoves ==
  ASSUME Inv, NobodyTwice, NEW w \in Worker, FormMatch(w)
  PROVE  /\ formed' = formed \cup {Group(w)}
         /\ Range(Group(w)) = Hand(w)
         /\ IsInjective(Group(w))
         /\ Hand(w)' = {}
         /\ Distinct(w)'
<1>1. taken[w] \in Seq(Held) /\ Len(taken[w]) = GroupSize
  BY DEF FormMatch, Inv, TypeOK, HandSize
<1>2. DOMAIN taken[w] = Slot /\ DOMAIN Group(w) = Slot
  BY <1>1, GroupSizeType, LenProperties DEF Group
<1>3. \A i \in Slot : Group(w)[i] = taken[w][i].player
  BY DEF Group
<1>4. Range(Group(w)) = Hand(w)
  BY <1>2, <1>3 DEF Range, Hand
<1>5. IsInjective(Group(w))
  BY <1>2, <1>3 DEF IsInjective, NobodyTwice
<1>6. taken'[w] = <<>>
  BY DEF FormMatch, Inv, TypeOK
<1>7. Hand(w)' = {} /\ Distinct(w)'
  BY <1>6 DEF Hand, Distinct
<1> QED
  BY <1>4, <1>5, <1>7 DEF FormMatch

(* A player that arrives is in no bucket, hand or match yet. *)
LEMMA ReceiveTwice ==
  ASSUME Inv, NobodyLost, NobodyTwice, NEW p \in Player, Receive(p)
  PROVE  NobodyTwice'
<1>1. enqueued_at[p] = None /\ arriving' = p /\ UNCHANGED <<queue, taken, formed>>
  BY DEF Receive, poolVars, localVars
<1>2. p \notin Queued \cup Taken \cup Matched
  BY <1>1 DEF NobodyLost
<1>3. /\ \A w \in Worker : Hand(w)' = Hand(w)
      /\ Queued' = Queued /\ Taken' = Taken /\ Matched' = Matched
  BY <1>1 DEF Queued, Taken, Hand, Matched
<1> QED
  BY <1>1, <1>2, <1>3 DEF NobodyTwice

(* The arriving player enters one bucket and leaves the ingestion thread. *)
LEMMA PushTwice ==
  ASSUME Inv, NobodyTwice, NEW b \in Bucket, Push(b)
  PROVE  /\ NobodyTwice'
         /\ Queued' = Queued \cup {arriving} /\ Taken' = Taken /\ Matched' = Matched
<1>1. Range(queue'[b]) = Range(queue[b]) \cup {arriving} /\ IsInjective(queue'[b])
  BY PushMoves
<1>2. /\ \A c \in Bucket \ {b} : queue'[c] = queue[c]
      /\ taken' = taken /\ formed' = formed /\ arriving' = None /\ arriving \in Player
  BY PushEffect
<1>3. Taken' = Taken /\ Matched' = Matched
  BY <1>2 DEF Taken, Hand, Matched
<1>4. Queued' = Queued \cup {arriving}
  <2>1. \A c \in Bucket : Range(queue'[c]) = Range(queue[c]) \cup (IF c = b THEN {arriving} ELSE {})
    BY <1>1, <1>2
  <2> QED
    BY <2>1 DEF Queued
<1>5. None \notin Queued \cup Taken \cup Matched \cup {arriving}
  BY <1>2, PlacesArePlayers, PoolAssumption
<1>6. arriving \notin Queued \cup Taken \cup Matched
  BY DEF NobodyTwice
<1>7. \A c \in Bucket : IsInjective(queue'[c])
  BY <1>1, <1>2 DEF NobodyTwice
<1>8. ASSUME NEW c \in Bucket, NEW d \in Bucket, c # d
      PROVE  Range(queue'[c]) \cap Range(queue'[d]) = {}
  <2>1. Range(queue[c]) \cap Range(queue[d]) = {}
    BY <1>8 DEF NobodyTwice
  <2>2. arriving \notin Range(queue[c]) \cup Range(queue[d])
    BY <1>6 DEF Queued
  <2> QED
    BY <2>1, <2>2, <1>1, <1>2, <1>8
<1>9. /\ Queued' \cap Taken' = {} /\ Queued' \cap Matched' = {} /\ Taken' \cap Matched' = {}
      /\ arriving' \notin Queued' \cup Taken' \cup Matched'
  BY <1>2, <1>3, <1>4, <1>5, <1>6 DEF NobodyTwice
<1>10. /\ \A w \in Worker : \A i, j \in DOMAIN taken'[w] :
             taken'[w][i].player = taken'[w][j].player => i = j
       /\ \A g \in formed' : IsInjective(g)
       /\ \A v, w \in Worker : v # w => Hand(v)' \cap Hand(w)' = {}
       /\ \A g, h \in formed' : g # h => Range(g) \cap Range(h) = {}
  <2>1. \A w \in Worker : Hand(w)' = Hand(w)
    BY <1>2 DEF Hand
  <2> QED
    BY <2>1, <1>2 DEF NobodyTwice
<1> QED
  BY <1>3, <1>4, <1>7, <1>8, <1>9, <1>10 DEF NobodyTwice

(* The harvest takes from one bucket what it puts in one hand. *)
LEMMA DrainTwice ==
  ASSUME Inv, NobodyTwice, NEW w \in Worker, NEW b \in Bucket, Drain(w, b)
  PROVE  /\ NobodyTwice'
         /\ Queued' \cup Taken' = Queued \cup Taken /\ Matched' = Matched
<1>1. PICK M \in SUBSET Range(queue[b]) :
        /\ Range(queue'[b]) = Range(queue[b]) \ M
        /\ Hand(w)' = Hand(w) \cup M
  BY DrainMoves
<1>2. IsInjective(queue'[b]) /\ Distinct(w)'
  BY DrainMoves
<1>3. /\ \A c \in Bucket \ {b} : queue'[c] = queue[c]
      /\ \A v \in Worker \ {w} : taken'[v] = taken[v]
  BY DrainEffect
<1>4. formed' = formed /\ arriving' = arriving
  BY DEF Drain, sideVars
<1>5. Matched' = Matched
  BY <1>4 DEF Matched
<1>6. \A c \in Bucket : Range(queue'[c]) = Range(queue[c]) \ M
  <2> SUFFICES ASSUME NEW c \in Bucket, c # b
               PROVE  Range(queue'[c]) = Range(queue[c]) \ M
    BY <1>1
  <2>1. Range(queue[c]) \cap Range(queue[b]) = {}
    BY DEF NobodyTwice
  <2> QED
    BY <2>1, <1>1, <1>3
<1>7. Queued' = Queued \ M
  BY <1>6 DEF Queued
<1>8. M \subseteq Queued
  BY DEF Queued
<1>9. \A v \in Worker : Hand(v)' = Hand(v) \cup (IF v = w THEN M ELSE {})
  BY <1>1, <1>3 DEF Hand
<1>10. Taken' = Taken \cup M
  BY <1>9 DEF Taken
<1>11. \A c \in Bucket : IsInjective(queue'[c])
  BY <1>2, <1>3 DEF NobodyTwice
<1>12. \A v \in Worker : Distinct(v)'
  <2> SUFFICES ASSUME NEW v \in Worker, v # w PROVE Distinct(v)'
    BY <1>2
  <2>1. Distinct(v)
    BY DEF NobodyTwice, Distinct
  <2> QED
    BY <2>1, <1>3 DEF Distinct
<1>13. ASSUME NEW u \in Worker, NEW v \in Worker, u # v
       PROVE  Hand(u)' \cap Hand(v)' = {}
  <2>1. Hand(u) \cap Hand(v) = {}
    BY <1>13 DEF NobodyTwice
  <2>2. Hand(u) \cap M = {} /\ Hand(v) \cap M = {}
    BY <1>8 DEF NobodyTwice, Taken
  <2> QED
    BY <2>1, <2>2, <1>9, <1>13
<1>14. \A c, d \in Bucket : c # d => Range(queue'[c]) \cap Range(queue'[d]) = {}
  BY <1>6 DEF NobodyTwice
<1>15. /\ Queued' \cap Taken' = {} /\ Queued' \cap Matched' = {} /\ Taken' \cap Matched' = {}
       /\ arriving' \notin Queued' \cup Taken' \cup Matched'
  BY <1>4, <1>5, <1>7, <1>8, <1>10 DEF NobodyTwice
<1>16. /\ \A g \in formed' : IsInjective(g)
       /\ \A g, h \in formed' : g # h => Range(g) \cap Range(h) = {}
  BY <1>4 DEF NobodyTwice
<1>17. NobodyTwice'
  BY <1>11, <1>12, <1>13, <1>14, <1>15, <1>16 DEF NobodyTwice, Distinct
<1> QED
  BY <1>5, <1>7, <1>8, <1>10, <1>17

(* A player put back leaves the hand for one bucket. *)
LEMMA PutBackTwice ==
  ASSUME Inv, NobodyTwice, NEW w \in Worker, NEW b \in Bucket, PutBack(w, b)
  PROVE  /\ NobodyTwice'
         /\ Queued' \cup Taken' = Queued \cup Taken /\ Matched' = Matched
<1>1. PICK p \in Hand(w) :
        /\ Range(queue'[b]) = Range(queue[b]) \cup {p}
        /\ Hand(w)' = Hand(w) \ {p}
  BY PutBackMoves
<1>2. IsInjective(queue'[b]) /\ Distinct(w)'
  BY PutBackMoves
<1>3. /\ \A c \in Bucket \ {b} : queue'[c] = queue[c]
      /\ \A v \in Worker \ {w} : taken'[v] = taken[v]
  BY PutBackEffect
<1>4. formed' = formed /\ arriving' = arriving
  BY DEF PutBack, sideVars
<1>5. Matched' = Matched
  BY <1>4 DEF Matched
<1>6. \A c \in Bucket : Range(queue'[c]) = Range(queue[c]) \cup (IF c = b THEN {p} ELSE {})
  BY <1>1, <1>3
<1>7. Queued' = Queued \cup {p}
  BY <1>6 DEF Queued
<1>8. p \in Taken /\ p \notin Queued
  BY DEF Taken, NobodyTwice
<1>9. \A v \in Worker : Hand(v)' = Hand(v) \ {p}
  <2> SUFFICES ASSUME NEW v \in Worker, v # w PROVE Hand(v)' = Hand(v) \ {p}
    BY <1>1
  <2>1. Hand(v) \cap Hand(w) = {}
    BY DEF NobodyTwice
  <2>2. Hand(v)' = Hand(v)
    BY <1>3 DEF Hand
  <2> QED
    BY <2>1, <2>2
<1>10. Taken' = Taken \ {p}
  BY <1>9 DEF Taken
<1>11. \A c \in Bucket : IsInjective(queue'[c])
  BY <1>2, <1>3 DEF NobodyTwice
<1>12. \A v \in Worker : Distinct(v)'
  <2> SUFFICES ASSUME NEW v \in Worker, v # w PROVE Distinct(v)'
    BY <1>2
  <2>1. Distinct(v)
    BY DEF NobodyTwice, Distinct
  <2> QED
    BY <2>1, <1>3 DEF Distinct
<1>13. \A u, v \in Worker : u # v => Hand(u)' \cap Hand(v)' = {}
  BY <1>9 DEF NobodyTwice
<1>14. ASSUME NEW c \in Bucket, NEW d \in Bucket, c # d
       PROVE  Range(queue'[c]) \cap Range(queue'[d]) = {}
  <2>1. Range(queue[c]) \cap Range(queue[d]) = {}
    BY <1>14 DEF NobodyTwice
  <2>2. p \notin Range(queue[c]) \cup Range(queue[d])
    BY <1>8 DEF Queued
  <2> QED
    BY <2>1, <2>2, <1>6, <1>14
<1>15. /\ Queued' \cap Taken' = {} /\ Queued' \cap Matched' = {} /\ Taken' \cap Matched' = {}
       /\ arriving' \notin Queued' \cup Taken' \cup Matched'
  BY <1>4, <1>5, <1>7, <1>8, <1>10 DEF NobodyTwice
<1>16. /\ \A g \in formed' : IsInjective(g)
       /\ \A g, h \in formed' : g # h => Range(g) \cap Range(h) = {}
  BY <1>4 DEF NobodyTwice
<1>17. NobodyTwice'
  BY <1>11, <1>12, <1>13, <1>14, <1>15, <1>16 DEF NobodyTwice, Distinct
<1> QED
  BY <1>5, <1>7, <1>8, <1>10, <1>17

(* The hand becomes a match, and nobody in it was in another. *)
LEMMA FormTwice ==
  ASSUME Inv, NobodyTwice, NEW w \in Worker, FormMatch(w)
  PROVE  /\ NobodyTwice'
         /\ Queued' = Queued /\ Taken' \cup Matched' = Taken \cup Matched
<1> DEFINE G == Group(w)
<1>1. /\ formed' = formed \cup {G}
      /\ Range(G) = Hand(w) /\ IsInjective(G)
      /\ Hand(w)' = {} /\ Distinct(w)'
  BY FormMoves
<1> HIDE DEF G
<1>2. /\ queue' = queue /\ arriving' = arriving
      /\ \A v \in Worker \ {w} : taken'[v] = taken[v]
  BY DEF FormMatch, poolVars, sideVars, Inv, TypeOK
<1>3. Queued' = Queued
  BY <1>2 DEF Queued
<1>4. \A v \in Worker : Hand(v)' = IF v = w THEN {} ELSE Hand(v)
  BY <1>1, <1>2 DEF Hand
<1>5. Taken' = Taken \ Hand(w)
  <2>1. \A v \in Worker : v # w => Hand(v) \cap Hand(w) = {}
    BY DEF NobodyTwice
  <2> QED
    BY <2>1, <1>4 DEF Taken
<1>6. Matched' = Matched \cup Hand(w)
  BY <1>1 DEF Matched
<1>7. Hand(w) \subseteq Taken
  BY DEF Taken
<1>8. \A v \in Worker : Distinct(v)'
  <2> SUFFICES ASSUME NEW v \in Worker, v # w PROVE Distinct(v)'
    BY <1>1
  <2>1. Distinct(v)
    BY DEF NobodyTwice, Distinct
  <2> QED
    BY <2>1, <1>2 DEF Distinct
<1>9. ASSUME NEW g \in formed', NEW h \in formed', g # h
      PROVE  Range(g) \cap Range(h) = {}
  <2>1. \A f \in formed : Range(f) \cap Hand(w) = {}
    <3> SUFFICES ASSUME NEW f \in formed PROVE Range(f) \cap Hand(w) = {}
      OBVIOUS
    <3>1. Range(f) \subseteq Matched
      BY DEF Matched
    <3> QED
      BY <3>1, <1>7 DEF NobodyTwice
  <2>2. \A e, f \in formed : e # f => Range(e) \cap Range(f) = {}
    BY DEF NobodyTwice
  <2> QED
    BY <2>1, <2>2, <1>1, <1>9
<1>10. \A g \in formed' : IsInjective(g)
  BY <1>1 DEF NobodyTwice
<1>11. \A u, v \in Worker : u # v => Hand(u)' \cap Hand(v)' = {}
  BY <1>4 DEF NobodyTwice
<1>12. /\ \A c \in Bucket : IsInjective(queue'[c])
       /\ \A c, d \in Bucket : c # d => Range(queue'[c]) \cap Range(queue'[d]) = {}
  BY <1>2 DEF NobodyTwice
<1>13. /\ Queued' \cap Taken' = {} /\ Queued' \cap Matched' = {} /\ Taken' \cap Matched' = {}
       /\ arriving' \notin Queued' \cup Taken' \cup Matched'
  BY <1>2, <1>3, <1>5, <1>6, <1>7 DEF NobodyTwice
<1>14. NobodyTwice'
  BY <1>8, <1>9, <1>10, <1>11, <1>12, <1>13 DEF NobodyTwice, Distinct
<1> QED
  BY <1>3, <1>5, <1>6, <1>7, <1>14

(* The two conditions hold together: an arriving player is nowhere yet     *)
(* because everybody somewhere has arrived.                                *)
Conserved == NobodyLost /\ NobodyTwice

(* Every step keeps both. *)
LEMMA NextConserved == Inv /\ Conserved /\ [Next]_vars => Conserved'
<1> SUFFICES ASSUME Inv, NobodyLost, NobodyTwice, [Next]_vars
             PROVE  NobodyLost' /\ NobodyTwice'
  BY DEF Conserved
<1>1. ASSUME NEW p \in Player, Receive(p)
      PROVE  NobodyLost' /\ NobodyTwice'
  <2>1. /\ arriving' = p /\ arriving = None
        /\ \A r \in Player : enqueued_at'[r] = IF r = p THEN clock ELSE enqueued_at[r]
        /\ UNCHANGED <<queue, taken, formed>>
    BY <1>1 DEF Receive, Inv, TypeOK, Roles, poolVars, localVars
  <2>2. Queued' = Queued /\ Taken' = Taken /\ Matched' = Matched
    BY <2>1 DEF Queued, Taken, Hand, Matched
  <2>3. clock # None /\ p # None
    BY PoolAssumption DEF Inv, TypeOK
  <2>4. {r \in Player : enqueued_at'[r] # None} = {r \in Player : enqueued_at[r] # None} \cup {p}
    BY <2>1, <2>3
  <2>5. {arriving'} \ {None} = {p} /\ {arriving} \ {None} = {}
    BY <2>1, <2>3
  <2>6. NobodyLost'
    BY <2>2, <2>4, <2>5 DEF NobodyLost
  <2> QED
    BY <2>6, <1>1, ReceiveTwice
<1>2. ASSUME NEW b \in Bucket, Push(b)
      PROVE  NobodyLost' /\ NobodyTwice'
  <2>1. arriving \in Player /\ arriving' = None /\ enqueued_at' = enqueued_at
    BY <1>2, PushEffect
  <2>2. {arriving} \ {None} = {arriving} /\ {arriving'} \ {None} = {}
    BY <2>1, PoolAssumption
  <2> QED
    BY <2>1, <2>2, <1>2, PushTwice DEF NobodyLost
<1>3. ASSUME NEW w \in Worker, NEW b \in Bucket, Drain(w, b)
      PROVE  NobodyLost' /\ NobodyTwice'
  <2>1. arriving' = arriving /\ enqueued_at' = enqueued_at
    BY <1>3 DEF Drain, sideVars
  <2>2. NobodyTwice' /\ Queued' \cup Taken' = Queued \cup Taken /\ Matched' = Matched
    BY <1>3, DrainTwice
  <2> QED
    BY <2>1, <2>2 DEF NobodyLost
<1>4. ASSUME NEW w \in Worker, NEW b \in Bucket, PutBack(w, b)
      PROVE  NobodyLost' /\ NobodyTwice'
  <2>1. arriving' = arriving /\ enqueued_at' = enqueued_at
    BY <1>4 DEF PutBack, sideVars
  <2>2. NobodyTwice' /\ Queued' \cup Taken' = Queued \cup Taken /\ Matched' = Matched
    BY <1>4, PutBackTwice
  <2> QED
    BY <2>1, <2>2 DEF NobodyLost
<1>5. ASSUME NEW w \in Worker, FormMatch(w)
      PROVE  NobodyLost' /\ NobodyTwice'
  <2>1. arriving' = arriving /\ enqueued_at' = enqueued_at
    BY <1>5 DEF FormMatch, sideVars
  <2>2. NobodyTwice' /\ Queued' = Queued /\ Taken' \cup Matched' = Taken \cup Matched
    BY <1>5, FormTwice
  <2> QED
    BY <2>1, <2>2 DEF NobodyLost
<1>6. CASE UNCHANGED <<queue, taken, formed, arriving, enqueued_at>>
  <2>1. /\ \A w \in Worker : Hand(w)' = Hand(w)
        /\ Queued' = Queued /\ Taken' = Taken /\ Matched' = Matched
    BY <1>6 DEF Queued, Taken, Hand, Matched
  <2>2. NobodyLost'
    BY <2>1, <1>6 DEF NobodyLost
  <2>3. NobodyTwice'
    BY <2>1, <1>6 DEF NobodyTwice
  <2> QED
    BY <2>2, <2>3
<1> QED
  BY <1>1, <1>2, <1>3, <1>4, <1>5, <1>6, Movers

(* Nobody has arrived when the process starts. *)
LEMMA InitConserved == Init => Conserved
<1> SUFFICES ASSUME Init PROVE Conserved
  OBVIOUS
<1>1. /\ \A b \in Bucket : queue[b] = <<>>
      /\ \A w \in Worker : taken[w] = <<>>
      /\ formed = {} /\ arriving = None
      /\ \A p \in Player : enqueued_at[p] = None
  BY DEF Init
<1>2. Queued = {} /\ Taken = {} /\ Matched = {}
  BY <1>1 DEF Queued, Taken, Matched, Hand, Range
<1>3. NobodyLost
  BY <1>1, <1>2 DEF NobodyLost
<1>4. NobodyTwice
  BY <1>1, <1>2 DEF NobodyTwice, IsInjective, Hand, Range
<1> QED
  BY <1>3, <1>4 DEF Conserved

(* Whatever the threads do, each player that arrived is in a bucket, in a  *)
(* worker's hand, on its way into the pool, or matched.                    *)
THEOREM NobodyIsLost == Spec => []NobodyLost
  BY InvHolds, InitConserved, NextConserved, PTL DEF Spec, Conserved

(* A player is in one of those places, and in one position of it: no two   *)
(* workers and no two matches ever share a player.                         *)
THEOREM NobodyIsTwice == Spec => []NobodyTwice
  BY InvHolds, InitConserved, NextConserved, PTL DEF Spec, Conserved
-----------------------------------------------------------------------------
(***************************************************************************)
(* The depth counter that /metrics reports without a lock agrees with the  *)
(* pool, wrap-around included.                                             *)
(***************************************************************************)

InPool    == Queued \cup Taken
Uncounted == IF pc[Ingestion] = "count" THEN 1 ELSE 0

(* The pool is finite, and the counter reconciles with it. *)
Depth == IsFiniteSet(InPool) /\ DepthReconciles

(* The property in terms of the definitions above. *)
LEMMA DepthDef ==
  DepthReconciles <=> (waiting + Uncounted - Cardinality(InPool)) % CounterRange = 0
  BY DEF DepthReconciles, Uncounted, InPool

(* The hand of a worker at the gate is a full group. *)
LEMMA HandCount ==
  ASSUME Inv, NobodyTwice, NEW w \in Worker, FormMatch(w)
  PROVE  IsFiniteSet(Hand(w)) /\ Cardinality(Hand(w)) = GroupSize
<1> DEFINE G == Group(w)
<1>1. Range(G) = Hand(w) /\ IsInjective(G) /\ DOMAIN G = 1 .. GroupSize
  BY FormMoves, GroupSizeType DEF Group
<1>2. G = [i \in 1 .. GroupSize |-> G[i]]
  BY GroupSizeType DEF Group
<1> HIDE DEF G
<1>3. G \in [1 .. GroupSize -> Hand(w)]
  BY <1>1, <1>2 DEF Range
<1>4. G \in Bijection(1 .. GroupSize, Hand(w))
  BY <1>1, <1>3 DEF Bijection, Injection, Surjection, Range
<1>5. ExistsBijection(1 .. GroupSize, Hand(w))
  BY <1>4 DEF ExistsBijection
<1>6. IsFiniteSet(1 .. GroupSize) /\ Cardinality(1 .. GroupSize) = GroupSize
  BY GroupSizeType, FS_Interval
<1> QED
  BY <1>5, <1>6, FS_Bijection

(* Forming a match takes the hand out of the pool. *)
LEMMA FormPool ==
  ASSUME Inv, NobodyTwice, NEW w \in Worker, FormMatch(w)
  PROVE  InPool' = InPool \ Hand(w)
<1>1. Queued' = Queued /\ NobodyTwice' /\ Taken' \cup Matched' = Taken \cup Matched
  BY FormTwice
<1>2. Matched' = Matched \cup Hand(w)
  BY FormMoves DEF Matched
<1>3. Hand(w) \subseteq Taken /\ Taken \cap Matched = {} /\ Queued \cap Taken = {}
      /\ Taken' \cap Matched' = {}
  BY <1>1 DEF Taken, NobodyTwice
<1> QED
  BY <1>1, <1>2, <1>3 DEF InPool

(* Match threads do not move the ingestion thread. *)
LEMMA IngestionStays ==
  ASSUME Inv, NEW w \in Worker, WorkerStep(w)
  PROVE  pc'[Ingestion] = pc[Ingestion]
<1>1. w # Ingestion /\ pc \in [Thread -> Label] /\ Ingestion \in Thread
  BY PoolAssumption DEF Inv, TypeOK, Thread
<1>2. ASSUME NEW label, GoTo(w, label) PROVE pc'[Ingestion] = pc[Ingestion]
  BY <1>1, <1>2 DEF GoTo
<1>3. CASE UNCHANGED pc
  BY <1>3
<1>4. CASE Claim(w) \/ BeginPeek(w) \/ BeginHarvest(w) \/ EndHarvest(w) \/ RefuseMatch(w)
  BY <1>2, <1>4 DEF Claim, BeginPeek, BeginHarvest, EndHarvest, RefuseMatch
<1>5. CASE SkipSparse(w) \/ FindNobody(w) \/ EndPutBack(w) \/ FormMatch(w)
  BY <1>2, <1>5 DEF SkipSparse, FindNobody, EndPutBack, FormMatch, EndRound
<1>6. ASSUME NEW b \in Bucket,
             \/ Lock(w, b) \/ TryLockFails(w, b)
             \/ CountBucket(w, b) \/ Peek(w, b) \/ Drain(w, b) \/ PutBack(w, b)
      PROVE  pc'[Ingestion] = pc[Ingestion]
  BY <1>2, <1>3, <1>6 DEF Lock, TryLockFails, CountBucket, Peek, Drain, PutBack
<1> QED
  BY <1>4, <1>5, <1>6 DEF WorkerStep

(* Every step keeps the balance: a push owes one to the count, a match     *)
(* takes a full group from both sides.                                     *)
LEMMA NextDepth == Inv /\ NobodyTwice /\ Depth /\ [Next]_vars => Depth'
<1> SUFFICES ASSUME Inv, NobodyTwice, Depth, [Next]_vars
             PROVE  Depth'
  OBVIOUS
<1> DEFINE R == CounterRange
           n == Cardinality(InPool)
<1>0. /\ IsFiniteSet(InPool) /\ n \in Nat
      /\ (waiting + Uncounted - n) % R = 0
      /\ R \in Nat \ {0} /\ waiting \in Nat /\ Uncounted \in {0, 1}
  BY FS_CardinalityType, DepthDef, PoolAssumption DEF Depth, Inv, TypeOK, Uncounted
<1>1. SUFFICES /\ IsFiniteSet(InPool')
               /\ (waiting' + Uncounted' - Cardinality(InPool')) % R = 0
  BY <1>1 DEF Depth, DepthReconciles, Uncounted, InPool
<1>2. ASSUME InPool' = InPool, waiting' = waiting, Uncounted' = Uncounted
      PROVE  /\ IsFiniteSet(InPool')
             /\ (waiting' + Uncounted' - Cardinality(InPool')) % R = 0
  BY <1>0, <1>2
<1>3. CASE UNCHANGED <<queue, taken, waiting>> /\ Uncounted' = Uncounted
  BY <1>2, <1>3 DEF InPool, Queued, Taken, Hand
<1>4. Ingestion \in Thread /\ Ingestion \notin Worker
  BY PoolAssumption DEF Thread
<1>5. ASSUME NEW b \in Bucket, Push(b)
      PROVE  /\ IsFiniteSet(InPool')
             /\ (waiting' + Uncounted' - Cardinality(InPool')) % R = 0
  <2>1. InPool' = InPool \cup {arriving}
    BY <1>5, PushTwice DEF InPool
  <2>2. arriving \notin InPool
    BY DEF InPool, NobodyTwice
  <2>3. IsFiniteSet(InPool') /\ Cardinality(InPool') = n + 1
    BY <1>0, <2>1, <2>2, FS_AddElement
  <2>4. waiting' = waiting /\ Uncounted = 0 /\ Uncounted' = 1
    BY <1>5, <1>4 DEF Push, GoTo, Uncounted, Inv, TypeOK
  <2>5. waiting' + Uncounted' - Cardinality(InPool') = waiting + Uncounted - n
    BY <1>0, <2>3, <2>4
  <2> QED
    BY <1>0, <2>3, <2>5
<1>6. CASE CountArrival
  <2>1. InPool' = InPool
    BY <1>6 DEF CountArrival, poolVars, localVars, InPool, Queued, Taken, Hand
  <2>2. waiting' = (waiting + 1) % R /\ Uncounted = 1 /\ Uncounted' = 0
    BY <1>6, <1>4 DEF CountArrival, GoTo, Uncounted, Inv, TypeOK
  <2>3. (((waiting + 1) % R) - n) % R = ((waiting + 1) - n) % R
    <3>1. waiting + 1 \in Int /\ n \in Int
      BY <1>0
    <3> HIDE DEF n, R
    <3> QED
      BY <3>1, <1>0, ReduceFirst
  <2>4. (waiting + 1) % R \in Int /\ (waiting + 1) - n = waiting + Uncounted - n
    <3>1. Uncounted = 1
      BY <2>2
    <3> HIDE DEF n, R
    <3>2. (waiting + 1) % R \in Int
      BY <1>0
    <3>3. (waiting + 1) - n = waiting + Uncounted - n
      BY <3>1, <1>0
    <3> QED
      BY <3>2, <3>3
  <2>5. waiting' + Uncounted' - Cardinality(InPool') = ((waiting + 1) % R) - n
    BY <1>0, <2>1, <2>2, <2>4
  <2> QED
    BY <1>0, <2>1, <2>3, <2>4, <2>5
<1>7. ASSUME NEW w \in Worker, FormMatch(w)
      PROVE  /\ IsFiniteSet(InPool')
             /\ (waiting' + Uncounted' - Cardinality(InPool')) % R = 0
  <2> DEFINE g == GroupSize
  <2>1. Hand(w) \subseteq InPool
    BY DEF Taken, InPool
  <2>2. InPool' = InPool \ Hand(w)
    BY <1>7, FormPool
  <2>3. IsFiniteSet(Hand(w)) /\ Cardinality(Hand(w)) = g
    BY <1>7, HandCount
  <2>4. InPool \cap Hand(w) = Hand(w)
    BY <2>1
  <2>5. IsFiniteSet(InPool') /\ Cardinality(InPool') = n - g
    BY <1>0, <2>2, <2>3, <2>4, FS_Difference
  <2>6. waiting' = (waiting - g) % R /\ Uncounted' = Uncounted
    BY <1>7, <1>4 DEF FormMatch, EndRound, GoTo, Uncounted, Inv, TypeOK
  <2>7. g \in Nat
    BY GroupSizeType
  <2> HIDE DEF g, R, n
  <2>8. (((waiting - g) % R) - (n - g - Uncounted)) % R = ((waiting - g) - (n - g - Uncounted)) % R
    <3>1. waiting - g \in Int /\ n - g - Uncounted \in Int
      BY <1>0, <2>7
    <3> QED
      BY <3>1, <1>0, ReduceFirst
  <2>9. (waiting - g) - (n - g - Uncounted) = waiting + Uncounted - n
    BY <1>0, <2>7
  <2>10. (waiting - g) % R \in Int
    BY <1>0, <2>7
  <2>11. waiting' + Uncounted' - Cardinality(InPool') = ((waiting - g) % R) - (n - g - Uncounted)
    BY <1>0, <2>5, <2>6, <2>7, <2>10
  <2> QED
    BY <1>0, <2>5, <2>8, <2>9, <2>11
<1>8. ASSUME NEW w \in Worker, NEW b \in Bucket, Drain(w, b) \/ PutBack(w, b)
      PROVE  InPool' = InPool /\ waiting' = waiting /\ Uncounted' = Uncounted
  <2>1. InPool' = InPool
    BY <1>8, DrainTwice, PutBackTwice DEF InPool
  <2> QED
    BY <2>1, <1>8 DEF Drain, PutBack, Uncounted
<1>9. ASSUME NEW t \in Thread, NEW b \in Bucket, Lock(t, b)
      PROVE  UNCHANGED <<queue, taken, waiting>> /\ Uncounted' = Uncounted
  BY <1>9 DEF Lock, localVars, Uncounted
<1>10. CASE IngestionStep
  <2>1. ASSUME NEW p \in Player, Receive(p)
        PROVE  UNCHANGED <<queue, taken, waiting>> /\ Uncounted' = Uncounted
    BY <2>1, <1>4 DEF Receive, GoTo, poolVars, localVars, Uncounted, Inv, TypeOK
  <2> QED
    BY <1>10, <2>1, <1>3, <1>4, <1>5, <1>6, <1>9 DEF IngestionStep
<1>11. ASSUME NEW w \in Worker, WorkerStep(w)
       PROVE  /\ IsFiniteSet(InPool')
              /\ (waiting' + Uncounted' - Cardinality(InPool')) % R = 0
  <2>0. w \in Thread /\ w # Ingestion
    BY <1>4 DEF Thread
  <2>1. CASE \/ Claim(w) \/ SkipSparse(w) \/ BeginPeek(w) \/ FindNobody(w) \/ BeginHarvest(w)
             \/ EndHarvest(w) \/ EndPutBack(w) \/ RefuseMatch(w)
    <3>1. UNCHANGED <<queue, taken, waiting>>
      BY <2>1 DEF Claim, SkipSparse, BeginPeek, FindNobody, BeginHarvest, EndHarvest, EndPutBack,
                  RefuseMatch, poolVars, localVars
    <3>2. pc'[Ingestion] = pc[Ingestion]
      BY <1>11, IngestionStays
    <3> QED
      BY <3>1, <3>2, <1>3 DEF Uncounted
  <2>2. ASSUME NEW b \in Bucket, TryLockFails(w, b) \/ CountBucket(w, b) \/ Peek(w, b)
        PROVE  UNCHANGED <<queue, taken, waiting>> /\ Uncounted' = Uncounted
    <3>1. pc'[Ingestion] = pc[Ingestion]
      BY <1>11, IngestionStays
    <3> QED
      BY <2>2, <3>1 DEF TryLockFails, CountBucket, Peek, poolVars, localVars, Uncounted
  <2> QED
    BY <1>11, <2>0, <2>1, <2>2, <1>2, <1>3, <1>7, <1>8, <1>9 DEF WorkerStep
<1>12. CASE SnapshotterStep
  <2>1. Snapshotter \in Thread /\ Snapshotter # Ingestion
    BY PoolAssumption DEF Thread
  <2>2. ASSUME NEW b \in Bucket, BeginPass \/ CopyBucket(b)
        PROVE  UNCHANGED <<queue, taken, waiting>> /\ Uncounted' = Uncounted
    <3>1. pc'[Ingestion] = pc[Ingestion]
      BY <2>1, <2>2, <1>4 DEF BeginPass, CopyBucket, GoTo, Inv, TypeOK
    <3> QED
      BY <2>2, <3>1 DEF BeginPass, CopyBucket, poolVars, localVars, Uncounted
  <2> QED
    BY <1>12, <2>1, <2>2, <1>3, <1>9, BucketType DEF SnapshotterStep
<1>13. CASE Tick \/ UNCHANGED vars
  BY <1>13, <1>3 DEF Tick, vars, poolVars, localVars, Uncounted
<1> QED
  BY <1>10, <1>11, <1>12, <1>13 DEF Next

(* The counter starts at zero with an empty pool. *)
LEMMA InitDepth == Init => Depth
<1> SUFFICES ASSUME Init PROVE Depth
  OBVIOUS
<1>1. \A b \in Bucket : queue[b] = <<>>
  BY DEF Init
<1>2. \A w \in Worker : taken[w] = <<>>
  BY DEF Init
<1>3. InPool = {}
  BY <1>1, <1>2 DEF InPool, Queued, Taken, Hand, Range
<1>4. waiting = 0 /\ Uncounted = 0
  BY DEF Init, Uncounted, Thread
<1>5. IsFiniteSet(InPool) /\ Cardinality(InPool) = 0
  BY <1>3, FS_EmptySet
<1>6. (waiting + Uncounted - Cardinality(InPool)) % CounterRange = 0
  BY <1>4, <1>5, PoolAssumption
<1> QED
  BY <1>5, <1>6, DepthDef DEF Depth

(* The depth counter is off from the number of players waiting by at most  *)
(* the one arrival not counted yet, modulo the width of the counter.       *)
THEOREM DepthIsTrue == Spec => []DepthReconciles
<1>1. Depth => DepthReconciles
  BY DEF Depth
<1> QED
  BY <1>1, InvHolds, NobodyIsTwice, InitDepth, NextDepth, PTL DEF Spec
-----------------------------------------------------------------------------
(***************************************************************************)
(* The pool provides the service of Matchmaking: under the refinement      *)
(* mapping of MatchPool every step of a thread is one step of the service  *)
(* or none.                                                                *)
(***************************************************************************)

(* The players the service sees waiting. *)
Present == Queued \cup Taken \cup ({arriving} \ {None})

(* The service's state is the pool's, seen through the mapping. *)
LEMMA ServiceVars ==
  UNCHANGED <<Present, enqueued_at, formed, clock>> <=> UNCHANGED Service!vars
  BY DEF Service!vars, Present

(* The pool starts as the service does: with nobody. *)
LEMMA InitService == Init => Service!Init
<1> SUFFICES ASSUME Init PROVE Service!Init
  OBVIOUS
<1>1. /\ \A b \in Bucket : queue[b] = <<>>
      /\ \A w \in Worker : taken[w] = <<>>
      /\ arriving = None
  BY DEF Init
<1>2. Queued \cup Taken \cup ({arriving} \ {None}) = {}
  BY <1>1 DEF Queued, Taken, Hand, Range
<1> QED
  BY <1>2 DEF Init, Service!Init

(* Only time moves the clock. *)
LEMMA ClockMoves ==
  ASSUME [Next]_vars
  PROVE  Tick \/ UNCHANGED clock
<1>1. CASE IngestionStep
  BY <1>1 DEF IngestionStep, Receive, Lock, Push, CountArrival
<1>2. ASSUME NEW w \in Worker, WorkerStep(w)
      PROVE  UNCHANGED clock
  <2>1. CASE \/ Claim(w) \/ SkipSparse(w) \/ BeginPeek(w) \/ FindNobody(w) \/ BeginHarvest(w)
             \/ EndHarvest(w) \/ EndPutBack(w) \/ FormMatch(w) \/ RefuseMatch(w)
    BY <2>1 DEF Claim, SkipSparse, BeginPeek, FindNobody, BeginHarvest, EndHarvest, EndPutBack,
                FormMatch, RefuseMatch
  <2>2. ASSUME NEW b \in Bucket,
               \/ Lock(w, b) \/ TryLockFails(w, b)
               \/ CountBucket(w, b) \/ Peek(w, b) \/ Drain(w, b) \/ PutBack(w, b)
        PROVE  UNCHANGED clock
    BY <2>2 DEF Lock, TryLockFails, CountBucket, Peek, Drain, PutBack
  <2> QED
    BY <1>2, <2>1, <2>2 DEF WorkerStep
<1>3. CASE SnapshotterStep
  BY <1>3 DEF SnapshotterStep, BeginPass, Lock, CopyBucket
<1>4. CASE UNCHANGED vars
  BY <1>4 DEF vars
<1> QED
  BY <1>1, <1>2, <1>3, <1>4 DEF Next

(* An entry read from the stream is a player's arrival. *)
LEMMA ReceiveArrives ==
  ASSUME Inv, NEW p \in Player, Receive(p)
  PROVE  Service!Arrive(p)
<1>1. /\ enqueued_at[p] = None /\ clock <= LastArrival
      /\ enqueued_at' = [enqueued_at EXCEPT ![p] = clock]
      /\ arriving' = p
      /\ UNCHANGED <<queue, taken, formed, clock>>
  BY DEF Receive, poolVars, localVars
<1>2. arriving = None /\ p # None
  BY PoolAssumption DEF Receive, Inv, Roles
<1>3. Present' = Present \cup {p}
  BY <1>1, <1>2 DEF Present, Queued, Taken, Hand
<1> QED
  BY <1>1, <1>3 DEF Service!Arrive, Present

(* A match is formed with the whole hand of one worker, out of the players *)
(* that wait, and passes the gate.                                         *)
LEMMA FormServes ==
  ASSUME Inv, NobodyTwice, NEW w \in Worker, FormMatch(w)
  PROVE  \E g \in [1 .. GroupSize -> Player] : Service!Form(g)
<1> DEFINE G == Group(w)
<1>1. /\ formed' = formed \cup {G}
      /\ Range(G) = Hand(w) /\ IsInjective(G)
  BY FormMoves
<1>2. G \in [1 .. GroupSize -> Player]
  <2>1. taken[w] \in Seq(Held) /\ Len(taken[w]) = GroupSize
    BY DEF FormMatch, Inv, TypeOK, HandSize
  <2>2. \A i \in Slot : taken[w][i] \in Held
    BY <2>1, GroupSizeType
  <2> QED
    BY <2>2, GroupSizeType DEF Group, Held
<1>3. Hand(w) \subseteq Taken
  BY DEF Taken
<1>4. UNCHANGED <<arriving, enqueued_at, clock>>
  BY DEF FormMatch, sideVars
<1>5. Present' = Present \ Range(G)
  <2>1. InPool' = InPool \ Hand(w)
    BY FormPool
  <2>2. arriving \notin Hand(w)
    BY <1>3 DEF NobodyTwice
  <2> QED
    BY <1>1, <1>4, <2>1, <2>2 DEF Present, InPool
<1>6. FairAfter(G, Service!LongestWait(G))
  <2>1. Service!LongestWait(G) = AnchorWait(G)
    BY GroupSizeType DEF Service!LongestWait, AnchorWait, Service!Max, Max
  <2> QED
    BY <2>1 DEF FormMatch, Passes
<1>7. Range(G) \subseteq Present
  BY <1>1, <1>3 DEF Present
<1> HIDE DEF G
<1> QED
  BY <1>1, <1>2, <1>4, <1>5, <1>6, <1>7
     DEF Service!Form, Service!IsInjective, IsInjective, Service!Range, Range, Present

(* Whatever a thread does is one step of the service or no step of it. *)
LEMMA NextServes == Inv /\ Conserved /\ [Next]_vars => [Service!Next]_(Service!vars)
<1> SUFFICES ASSUME Inv, NobodyLost, NobodyTwice, [Next]_vars
             PROVE  Service!Next \/ UNCHANGED Service!vars
  BY DEF Conserved
<1>1. ASSUME UNCHANGED <<queue, taken, formed, arriving, enqueued_at>>
      PROVE  Service!Next \/ UNCHANGED Service!vars
  <2>1. UNCHANGED Present
    BY <1>1 DEF Present, Queued, Taken, Hand
  <2>2. Tick \/ UNCHANGED clock
    BY ClockMoves
  <2>3. CASE Tick
    BY <1>1, <2>1, <2>3 DEF Tick, Service!Next, Service!Tick, Present
  <2>4. CASE UNCHANGED clock
    BY <1>1, <2>1, <2>4, ServiceVars
  <2> QED
    BY <2>2, <2>3, <2>4
<1>2. ASSUME NEW b \in Bucket, Push(b)
      PROVE  UNCHANGED Service!vars
  <2>1. Queued' = Queued \cup {arriving} /\ Taken' = Taken
    BY <1>2, PushTwice
  <2>2. arriving # None /\ arriving' = None /\ UNCHANGED <<enqueued_at, formed, clock>>
    BY <1>2 DEF Push, localVars, Inv, Roles
  <2>3. Present' = Present
    BY <2>1, <2>2 DEF Present
  <2> QED
    BY <2>2, <2>3, ServiceVars
<1>3. ASSUME NEW w \in Worker, NEW b \in Bucket, Drain(w, b) \/ PutBack(w, b)
      PROVE  UNCHANGED Service!vars
  <2>1. Queued' \cup Taken' = Queued \cup Taken
    BY <1>3, DrainTwice, PutBackTwice
  <2>2. UNCHANGED <<arriving, enqueued_at, formed, clock>>
    BY <1>3 DEF Drain, PutBack, sideVars
  <2>3. Present' = Present
    BY <2>1, <2>2 DEF Present
  <2> QED
    BY <2>2, <2>3, ServiceVars
<1>4. ASSUME NEW p \in Player, Receive(p)
      PROVE  Service!Next
  BY <1>4, ReceiveArrives DEF Service!Next
<1>5. ASSUME NEW w \in Worker, FormMatch(w)
      PROVE  Service!Next
  BY <1>5, FormServes DEF Service!Next
<1> QED
  BY <1>1, <1>2, <1>3, <1>4, <1>5, Movers

(* The pool, with any number of threads, buckets and players, provides the *)
(* service: a player waits from its arrival until one match takes it, and  *)
(* a match takes a whole group at one instant, fair for the longest wait   *)
(* in it.                                                                  *)
THEOREM ServiceProvided == Spec => ProvidesService
  BY InvHolds, InitConserved, NextConserved, InitService, NextServes, PTL
     DEF Spec, ProvidesService, Service!Spec
=============================================================================
