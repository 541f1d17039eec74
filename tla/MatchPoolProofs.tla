-------------------------- MODULE MatchPoolProofs --------------------------
(***************************************************************************)
(* Theorems about MatchPool, for any number of threads, players, buckets   *)
(* and any stride.                                                         *)
(***************************************************************************)
EXTENDS MatchPool, SequenceTheorems, TLAPS

(* What the minimum of two integers is. *)
LEMMA MinOfTwo ==
  ASSUME NEW a \in Int, NEW b \in Int
  PROVE  Min({a, b}) = IF a <= b THEN a ELSE b
<1> DEFINE m == IF a <= b THEN a ELSE b
<1>1. m \in {a, b} /\ \A y \in {a, b} : m <= y
  OBVIOUS
<1>2. \A x \in {a, b} : (\A y \in {a, b} : x <= y) => x = m
  OBVIOUS
<1> QED
  BY <1>1, <1>2 DEF Min

(* The constants and the sets derived from them. *)
LEMMA GroupSizeType == GroupSize \in Nat \ {0} /\ Slot = 1 .. GroupSize
  BY TeamSizeAssumption DEF GroupSize, Slot

(* There is a bucket 0, and None is not a bucket. *)
LEMMA BucketType == 0 \in Bucket /\ Bucket \subseteq Nat /\ None \notin Bucket
  BY PoolAssumption DEF Bucket

(* Every player has a bucket: bucket_index stays below NUM_BUCKETS. *)
LEMMA HomeType ==
  ASSUME NEW p \in Player
  PROVE  Home(p) \in Bucket
<1> DEFINE q == RatingOf[p] \div BucketWidth
<1>1. RatingOf[p] \in Nat /\ BucketWidth \in Nat \ {0} /\ NumBuckets \in Nat \ {0}
  BY PoolAssumption
<1>2. q \in Nat
  BY <1>1
<1>3. Home(p) = IF q <= NumBuckets - 1 THEN q ELSE NumBuckets - 1
  BY <1>1, <1>2, MinOfTwo DEF Home, BucketIndex
<1> QED
  BY <1>1, <1>2, <1>3 DEF Bucket

(* A window wraps around the carousel, its borders stop at its end. *)
LEMMA ReachType ==
  ASSUME NEW s \in Bucket
  PROVE  Window(s) \subseteq Bucket /\ Reach(s) \subseteq Bucket
<1>1. ASSUME NEW k \in 0 .. Stride - 1
      PROVE  (s + k) % NumBuckets \in Bucket
  BY PoolAssumption DEF Bucket
<1> QED
  BY <1>1 DEF Window, Borders, Reach
-----------------------------------------------------------------------------
(***************************************************************************)
(* The inductive invariant behind type correctness.                        *)
(***************************************************************************)

(* Who runs which loop; a player is arriving exactly while it is enqueued. *)
Roles ==
  /\ pc[Ingestion] \in {"read", "enqueue", "count"}
  /\ pc[Snapshotter] \in {"sleep", "copy"}
  /\ \A w \in Worker : pc[w] \notin {"read", "enqueue", "count", "sleep", "copy"}
  /\ pc[Ingestion] = "enqueue" <=> arriving # None

(* A worker never holds more than a group, holds a whole one at the gate,  *)
(* and nobody before the harvest.                                          *)
HandSize ==
  \A w \in Worker :
    /\ Len(taken[w]) <= GroupSize
    /\ pc[w] = "gate" => Len(taken[w]) = GroupSize
    /\ pc[w] \in {"claim", "density", "peek"} => taken[w] = <<>>

(* A thread is in a bucket's critical section for the reason it locked it. *)
Asked == \A t \in Thread : inside[t] # None => Wants(t, inside[t])

(* Who is in the pool or in a hand has arrived. *)
Timed ==
  /\ \A b \in Bucket : \A i \in DOMAIN queue[b] : enqueued_at[queue[b][i]] # None
  /\ \A w \in Worker : \A i \in DOMAIN taken[w] : enqueued_at[taken[w][i].player] # None
  /\ arriving # None => enqueued_at[arriving] # None

Inv == TypeOK /\ Roles /\ HandSize /\ Asked /\ Timed

(* Nothing is queued, locked or in hand when the process starts. *)
LEMMA InitInv == Init => Inv
<1> SUFFICES ASSUME Init PROVE Inv
  OBVIOUS
<1> USE GroupSizeType, BucketType, PoolAssumption
<1>1. TypeOK
  BY DEF Init, TypeOK, Thread, Label
<1>2. Roles
  BY DEF Init, Roles, Thread
<1>3. HandSize
  <2> SUFFICES ASSUME NEW w \in Worker
               PROVE  taken[w] = <<>> /\ pc[w] = "claim"
    BY DEF HandSize
  <2> QED
    BY DEF Init, Thread
<1>4. Asked
  BY DEF Init, Asked
<1>5. Timed
  BY DEF Init, Timed
<1> QED
  BY <1>1, <1>2, <1>3, <1>4, <1>5 DEF Inv

(* Waiting for a bucket and taking its lock changes nothing else. *)
LEMMA LockInv ==
  ASSUME Inv, NEW t \in Thread, NEW b \in Bucket, Lock(t, b)
  PROVE  Inv'
<1> USE DEF Inv
<1>1. TypeOK'
  BY PoolAssumption, GroupSizeType, BucketType DEF TypeOK, Lock, GoTo, Release, EndRound, vars,
     poolVars, localVars, sideVars, Label, Thread
<1>2. Roles'
  BY PoolAssumption DEF TypeOK, Roles, Lock, GoTo, Release, EndRound, poolVars, localVars,
     sideVars, Thread
<1>3. HandSize'
  BY PoolAssumption, GroupSizeType DEF TypeOK, Roles, HandSize, Lock, GoTo, Release, EndRound,
     poolVars, localVars, sideVars, Thread
<1>4. Asked'
  <2> SUFFICES ASSUME NEW u \in Thread, NEW c, c = inside'[u], c # None
               PROVE  Wants(u, c)'
    BY DEF Asked
  <2>1. Wants(u, c)' <=> Wants(u, c)
    BY DEF Lock, Wants, NextToScan, NextToDrain, InHand, Home, sideVars, localVars
  <2>2. inside'[u] = IF u = t THEN b ELSE inside[u]
    BY DEF Lock, TypeOK
  <2>3. Wants(u, c)
    BY <2>2 DEF Lock, Asked
  <2> QED
    BY <2>1, <2>3
<1>5. Timed'
  BY PoolAssumption DEF TypeOK, Roles, Timed, Lock, GoTo, Release, EndRound, poolVars, localVars,
     sideVars
<1> QED
  BY <1>1, <1>2, <1>3, <1>4, <1>5 DEF Inv

(* The fresh locals of a round have their types. *)
LEMMA EndRoundType ==
  ASSUME TypeOK, NEW w \in Worker, EndRound(w)
  PROVE  /\ pc' \in [Thread -> Label]
         /\ start' \in [Worker -> Bucket] /\ todo' \in [Worker -> SUBSET Bucket]
         /\ approx' \in [Worker -> 0 .. GroupSize]
         /\ anchor' \in [Worker -> Bucket \cup {None}] /\ oldest' \in [Worker -> Nat]
<1>1. pc' \in [Thread -> Label]
  BY DEF TypeOK, EndRound, GoTo, Label
<1>2. start' \in [Worker -> Bucket] /\ todo' \in [Worker -> SUBSET Bucket]
  BY BucketType DEF TypeOK, EndRound
<1>3. approx' \in [Worker -> 0 .. GroupSize] /\ oldest' \in [Worker -> Nat]
  BY GroupSizeType DEF TypeOK, EndRound
<1>4. anchor' \in [Worker -> Bucket \cup {None}]
  BY DEF TypeOK, EndRound
<1> QED
  BY <1>1, <1>2, <1>3, <1>4

(* A step of worker w that leaves it in no critical section, and the other *)
(* threads alone, leaves them asking for what they asked for.              *)
LEMMA AskedFrame ==
  ASSUME Inv, NEW w \in Worker, inside'[w] = None, arriving' = arriving, copying' = copying,
         \A t \in Thread \ {w} : pc'[t] = pc[t] /\ inside'[t] = inside[t],
         \A v \in Worker \ {w} :
           start'[v] = start[v] /\ todo'[v] = todo[v] /\ anchor'[v] = anchor[v] /\ taken'[v] = taken[v]
  PROVE  Asked'
<1> SUFFICES ASSUME NEW u \in Thread, NEW c, c = inside'[u], c # None
             PROVE  Wants(u, c)'
  BY DEF Asked
<1>1. u # w /\ pc'[u] = pc[u] /\ Wants(u, c)
  BY DEF Inv, Asked
<1>2. CASE u \in {Ingestion, Snapshotter}
  BY <1>1, <1>2 DEF Inv, Roles, Wants, Home
<1>3. CASE u \notin {Ingestion, Snapshotter}
  <2>1. u \in Worker \ {w}
    BY <1>1, <1>3 DEF Thread
  <2>2. start'[u] = start[u] /\ todo'[u] = todo[u] /\ anchor'[u] = anchor[u] /\ taken'[u] = taken[u]
    BY <2>1
  <2>3. pc[u] \notin {"enqueue", "copy"}
    BY <2>1 DEF Inv, Roles
  <2> QED
    BY <1>1, <2>2, <2>3 DEF Wants, NextToScan, NextToDrain, InHand, Home
<1> QED
  BY <1>2, <1>3

(* A busy border sends the harvest to its rollback with its hand as it is. *)
LEMMA TryLockFailsInv ==
  ASSUME Inv, NEW w \in Worker, NEW b \in Bucket, TryLockFails(w, b)
  PROVE  Inv'
<1> USE DEF Inv
<1>1. TypeOK'
  <2>1. pc' \in [Thread -> Label]
    BY DEF TypeOK, TryLockFails, GoTo, Label
  <2> QED
    BY <2>1 DEF TypeOK, TryLockFails, poolVars, localVars, sideVars
<1>2. Roles'
  BY PoolAssumption DEF TypeOK, Roles, TryLockFails, GoTo, Release, EndRound, poolVars, localVars,
     sideVars, Thread
<1>3. HandSize'
  BY PoolAssumption, GroupSizeType DEF TypeOK, Roles, HandSize, TryLockFails, GoTo, Release,
     EndRound, poolVars, localVars, sideVars, Thread
<1>4. Asked'
  <2>1. /\ inside[w] = None /\ inside' = inside
        /\ UNCHANGED <<arriving, copying, start, todo, anchor, taken>>
        /\ \A t \in Thread \ {w} : pc'[t] = pc[t]
    BY DEF TypeOK, TryLockFails, GoTo, poolVars, localVars, sideVars
  <2> QED
    BY <2>1, AskedFrame
<1>5. Timed'
  BY PoolAssumption DEF TypeOK, Roles, Timed, TryLockFails, GoTo, Release, EndRound, poolVars,
     localVars, sideVars
<1> QED
  BY <1>1, <1>2, <1>3, <1>4, <1>5 DEF Inv

(* The ingestion thread takes an entry that has not arrived before. *)
LEMMA ReceiveInv ==
  ASSUME Inv, NEW p \in Player, Receive(p)
  PROVE  Inv'
<1> USE DEF Inv
<1>1. TypeOK'
  BY PoolAssumption, GroupSizeType, BucketType DEF TypeOK, Receive, GoTo, Release, EndRound, vars,
     poolVars, localVars, sideVars, Label, Thread
<1>2. Roles'
  BY PoolAssumption DEF TypeOK, Roles, Receive, GoTo, Release, EndRound, poolVars, localVars,
     sideVars, Thread
<1>3. HandSize'
  BY PoolAssumption, GroupSizeType DEF TypeOK, Roles, HandSize, Receive, GoTo, Release, EndRound,
     poolVars, localVars, sideVars, Thread
<1>4. Asked'
  BY PoolAssumption, BucketType DEF TypeOK, Roles, Asked, Wants, NextToScan, NextToDrain, InHand,
     Receive, GoTo, Release, EndRound, poolVars, localVars, sideVars, Thread
<1>5. Timed'
  BY PoolAssumption DEF TypeOK, Roles, Timed, Receive, GoTo, Release, EndRound, poolVars,
     localVars, sideVars
<1> QED
  BY <1>1, <1>2, <1>3, <1>4, <1>5 DEF Inv

(* enqueue appends the arriving player to the bucket it locked. *)
LEMMA PushInv ==
  ASSUME Inv, NEW b \in Bucket, Push(b)
  PROVE  Inv'
<1> USE DEF Inv
<1>1. TypeOK'
  <2>1. arriving \in Player
    BY DEF Push, Roles, TypeOK
  <2>2. Append(queue[b], arriving) \in Seq(Player)
    BY <2>1, AppendProperties DEF TypeOK
  <2> QED
    BY <2>2, PoolAssumption, BucketType DEF TypeOK, Push, GoTo, Release, localVars, Label, Thread
<1>2. Roles'
  BY PoolAssumption DEF TypeOK, Roles, Push, GoTo, Release, EndRound, poolVars, localVars,
     sideVars, Thread
<1>3. HandSize'
  BY PoolAssumption, GroupSizeType DEF TypeOK, Roles, HandSize, Push, GoTo, Release, EndRound,
     poolVars, localVars, sideVars, Thread
<1>4. Asked'
  BY PoolAssumption, BucketType DEF TypeOK, Roles, Asked, Wants, NextToScan, NextToDrain, InHand,
     Push, GoTo, Release, EndRound, poolVars, localVars, sideVars, Thread
<1>5. Timed'
  <2>1. /\ arriving \in Player /\ arriving' = None /\ enqueued_at[arriving] # None
        /\ UNCHANGED <<enqueued_at, taken>>
    BY DEF Push, Roles, TypeOK, Timed, localVars
  <2>2. ASSUME NEW c \in Bucket, NEW i \in DOMAIN queue'[c]
        PROVE  enqueued_at'[queue'[c][i]] # None
    <3>1. CASE c = b
      <4>1. queue'[b] = Append(queue[b], arriving) /\ queue[b] \in Seq(Player)
        BY DEF Push, TypeOK
      <4>2. /\ Len(queue'[b]) = Len(queue[b]) + 1 /\ queue'[b][Len(queue[b]) + 1] = arriving
            /\ \A j \in 1 .. Len(queue[b]) : queue'[b][j] = queue[b][j]
            /\ DOMAIN queue'[b] = 1 .. Len(queue[b]) + 1 /\ DOMAIN queue[b] = 1 .. Len(queue[b])
            /\ Len(queue[b]) \in Nat
        BY <2>1, <4>1, AppendProperties, LenProperties
      <4>3. i \in DOMAIN queue[b] \/ i = Len(queue[b]) + 1
        BY <4>2, <3>1
      <4> QED
        BY <2>1, <3>1, <4>2, <4>3 DEF Timed
    <3>2. CASE c # b
      BY <2>1, <3>2 DEF Push, TypeOK, Timed
    <3> QED
      BY <3>1, <3>2
  <2> QED
    BY <2>1, <2>2 DEF Timed
<1> QED
  BY <1>1, <1>2, <1>3, <1>4, <1>5 DEF Inv

(* Counting the arrival touches neither buckets nor hands. *)
LEMMA CountArrivalInv ==
  ASSUME Inv, CountArrival
  PROVE  Inv'
<1> USE DEF Inv
<1>1. TypeOK'
  BY PoolAssumption, GroupSizeType, BucketType DEF TypeOK, CountArrival, GoTo, Release, EndRound,
     vars, poolVars, localVars, sideVars, Label, Thread
<1>2. Roles'
  BY PoolAssumption DEF TypeOK, Roles, CountArrival, GoTo, Release, EndRound, poolVars, localVars,
     sideVars, Thread
<1>3. HandSize'
  BY PoolAssumption, GroupSizeType DEF TypeOK, Roles, HandSize, CountArrival, GoTo, Release,
     EndRound, poolVars, localVars, sideVars, Thread
<1>4. Asked'
  BY PoolAssumption, BucketType DEF TypeOK, Roles, Asked, Wants, NextToScan, NextToDrain, InHand,
     CountArrival, GoTo, Release, EndRound, poolVars, localVars, sideVars, Thread
<1>5. Timed'
  BY PoolAssumption DEF TypeOK, Roles, Timed, CountArrival, GoTo, Release, EndRound, poolVars,
     localVars, sideVars
<1> QED
  BY <1>1, <1>2, <1>3, <1>4, <1>5 DEF Inv

(* A pass of the snapshotter begins; the pool is as it was. *)
LEMMA BeginPassInv ==
  ASSUME Inv, BeginPass
  PROVE  Inv'
<1> USE DEF Inv
<1>1. TypeOK'
  BY DEF TypeOK, BeginPass, GoTo, poolVars, localVars, sideVars, Label, Thread
<1>2. Roles'
  BY PoolAssumption DEF TypeOK, Roles, BeginPass, GoTo, Release, poolVars, localVars, sideVars,
     Thread
<1>3. HandSize'
  BY PoolAssumption, GroupSizeType DEF TypeOK, Roles, HandSize, BeginPass, GoTo, Release,
     poolVars, localVars, sideVars, Thread
<1>4. Asked'
  BY PoolAssumption, BucketType DEF TypeOK, Roles, Asked, Wants, NextToScan, NextToDrain, InHand,
     BeginPass, GoTo, Release, poolVars, localVars, sideVars, Thread
<1>5. Timed'
  BY PoolAssumption DEF TypeOK, Roles, Timed, BeginPass, GoTo, Release, poolVars, localVars,
     sideVars
<1> QED
  BY <1>1, <1>2, <1>3, <1>4, <1>5 DEF Inv

(* Copying a bucket changes no queue; the copy goes on or the pass ends. *)
LEMMA CopyBucketInv ==
  ASSUME Inv, NEW b \in Bucket, CopyBucket(b)
  PROVE  Inv'
<1> USE DEF Inv
<1>1. TypeOK'
  <2>1. (b + 1) % NumBuckets \in Bucket /\ clock + Interval \in Nat
    BY PoolAssumption DEF TypeOK, Bucket
  <2>2. pc' \in [Thread -> Label] /\ next_pass' \in Nat /\ copying' \in Bucket
    BY <2>1 DEF TypeOK, CopyBucket, GoTo, Label, Thread
  <2>3. holder' \in [Bucket -> Thread \cup {None}] /\ inside' \in [Thread -> Bucket \cup {None}]
    BY DEF TypeOK, CopyBucket, Release, Thread
  <2> QED
    BY <2>2, <2>3 DEF TypeOK, CopyBucket, localVars
<1>2. Roles'
  BY PoolAssumption DEF TypeOK, Roles, CopyBucket, GoTo, Release, poolVars, localVars, sideVars,
     Thread
<1>3. HandSize'
  BY PoolAssumption, GroupSizeType DEF TypeOK, Roles, HandSize, CopyBucket, GoTo, Release,
     poolVars, localVars, sideVars, Thread
<1>4. Asked'
  <2> SUFFICES ASSUME NEW u \in Thread, NEW c, c = inside'[u], c # None
               PROVE  Wants(u, c)'
    BY DEF Asked
  <2>1. u # Snapshotter /\ c = inside[u] /\ Wants(u, c)
    BY DEF CopyBucket, Release, TypeOK, Asked
  <2>2. pc'[u] = pc[u] /\ pc[u] # "copy"
    <3>1. pc'[u] = pc[u]
      BY <2>1 DEF CopyBucket, GoTo, TypeOK
    <3>2. pc[u] # "copy"
      BY <2>1 DEF Roles, Thread
    <3> QED
      BY <3>1, <3>2
  <2>3. Wants(u, c)' <=> Wants(u, c)
    BY <2>2 DEF CopyBucket, Wants, NextToScan, NextToDrain, InHand, Home, localVars
  <2> QED
    BY <2>1, <2>3
<1>5. Timed'
  BY PoolAssumption DEF TypeOK, Roles, Timed, CopyBucket, GoTo, Release, poolVars, localVars,
     sideVars
<1> QED
  BY <1>1, <1>2, <1>3, <1>4, <1>5 DEF Inv

(* A ticket gives the worker a window that lies inside the pool. *)
LEMMA ClaimInv ==
  ASSUME Inv, NEW w \in Worker, Claim(w)
  PROVE  Inv'
<1> USE DEF Inv
<1>1. TypeOK'
  <2>1. (ticket + Stride) % NumBuckets \in Bucket
    <3>1. ticket + Stride \in Int /\ NumBuckets \in Nat \ {0}
      BY PoolAssumption DEF TypeOK, Bucket
    <3> QED
      BY <3>1 DEF Bucket
  <2>2. Reach(ticket) \subseteq Bucket
    BY ReachType DEF TypeOK
  <2> QED
    BY <2>1, <2>2 DEF TypeOK, Claim, GoTo, poolVars, sideVars, Label, Thread
<1>2. Roles'
  BY PoolAssumption DEF TypeOK, Roles, Claim, GoTo, Release, EndRound, poolVars, localVars,
     sideVars, Thread
<1>3. HandSize'
  BY PoolAssumption, GroupSizeType DEF TypeOK, Roles, HandSize, Claim, GoTo, Release, EndRound,
     poolVars, localVars, sideVars, Thread
<1>4. Asked'
  BY PoolAssumption, BucketType DEF TypeOK, Roles, Asked, Wants, NextToScan, NextToDrain, InHand,
     Claim, GoTo, Release, EndRound, poolVars, localVars, sideVars, Thread
<1>5. Timed'
  BY PoolAssumption DEF TypeOK, Roles, Timed, Claim, GoTo, Release, EndRound, poolVars, localVars,
     sideVars
<1> QED
  BY <1>1, <1>2, <1>3, <1>4, <1>5 DEF Inv

(* The density count stays within the size of a group. *)
LEMMA CountBucketInv ==
  ASSUME Inv, NEW w \in Worker, NEW b \in Bucket, CountBucket(w, b)
  PROVE  Inv'
<1> USE DEF Inv
<1>1. TypeOK'
  <2>1. Len(queue[b]) \in Nat /\ approx[w] \in 0 .. GroupSize
    BY LenProperties DEF TypeOK
  <2>2. Min({approx[w] + Len(queue[b]), GroupSize}) \in 0 .. GroupSize
    BY <2>1, GroupSizeType, MinOfTwo
  <2> QED
    BY <2>2, BucketType DEF TypeOK, CountBucket, Release, sideVars, Label, Thread
<1>2. Roles'
  BY PoolAssumption DEF TypeOK, Roles, CountBucket, GoTo, Release, EndRound, poolVars, localVars,
     sideVars, Thread
<1>3. HandSize'
  BY PoolAssumption, GroupSizeType DEF TypeOK, Roles, HandSize, CountBucket, GoTo, Release,
     EndRound, poolVars, localVars, sideVars, Thread
<1>4. Asked'
  <2>1. inside' = [inside EXCEPT ![w] = None] /\ pc' = pc /\ UNCHANGED <<arriving, copying, start>>
    BY DEF CountBucket, Release, sideVars
  <2>2. inside'[w] = None /\ \A t \in Thread \ {w} : inside'[t] = inside[t]
    BY <2>1 DEF TypeOK, Thread
  <2>3. \A v \in Worker \ {w} :
          todo'[v] = todo[v] /\ anchor'[v] = anchor[v] /\ taken'[v] = taken[v]
    BY DEF TypeOK, CountBucket
  <2> QED
    BY <2>1, <2>2, <2>3, AskedFrame
<1>5. Timed'
  BY PoolAssumption DEF TypeOK, Roles, Timed, CountBucket, GoTo, Release, EndRound, poolVars,
     localVars, sideVars
<1> QED
  BY <1>1, <1>2, <1>3, <1>4, <1>5 DEF Inv

(* A sparse window ends the round with an empty hand. *)
LEMMA SkipSparseInv ==
  ASSUME Inv, NEW w \in Worker, SkipSparse(w)
  PROVE  Inv'
<1> USE DEF Inv
<1>1. TypeOK'
  BY EndRoundType DEF TypeOK, SkipSparse, poolVars, sideVars
<1>2. Roles'
  BY PoolAssumption DEF TypeOK, Roles, SkipSparse, GoTo, Release, EndRound, poolVars, localVars,
     sideVars, Thread
<1>3. HandSize'
  BY PoolAssumption, GroupSizeType DEF TypeOK, Roles, HandSize, SkipSparse, GoTo, Release,
     EndRound, poolVars, localVars, sideVars, Thread
<1>4. Asked'
  BY PoolAssumption, BucketType DEF TypeOK, Roles, Asked, Wants, NextToScan, NextToDrain, InHand,
     SkipSparse, GoTo, Release, EndRound, poolVars, localVars, sideVars, Thread
<1>5. Timed'
  BY PoolAssumption DEF TypeOK, Roles, Timed, SkipSparse, GoTo, Release, EndRound, poolVars,
     localVars, sideVars
<1> QED
  BY <1>1, <1>2, <1>3, <1>4, <1>5 DEF Inv

(* The peek visits the window only. *)
LEMMA BeginPeekInv ==
  ASSUME Inv, NEW w \in Worker, BeginPeek(w)
  PROVE  Inv'
<1> USE DEF Inv
<1>1. TypeOK'
  <2>1. Window(start[w]) \subseteq Bucket
    BY ReachType DEF TypeOK
  <2> QED
    BY <2>1 DEF TypeOK, BeginPeek, GoTo, poolVars, sideVars, Label, Thread
<1>2. Roles'
  BY PoolAssumption DEF TypeOK, Roles, BeginPeek, GoTo, Release, EndRound, poolVars, localVars,
     sideVars, Thread
<1>3. HandSize'
  BY PoolAssumption, GroupSizeType DEF TypeOK, Roles, HandSize, BeginPeek, GoTo, Release,
     EndRound, poolVars, localVars, sideVars, Thread
<1>4. Asked'
  BY PoolAssumption, BucketType DEF TypeOK, Roles, Asked, Wants, NextToScan, NextToDrain, InHand,
     BeginPeek, GoTo, Release, EndRound, poolVars, localVars, sideVars, Thread
<1>5. Timed'
  BY PoolAssumption DEF TypeOK, Roles, Timed, BeginPeek, GoTo, Release, EndRound, poolVars,
     localVars, sideVars
<1> QED
  BY <1>1, <1>2, <1>3, <1>4, <1>5 DEF Inv

(* The peek records the arrival of a player that is in the bucket. *)
LEMMA PeekInv ==
  ASSUME Inv, NEW w \in Worker, NEW b \in Bucket, Peek(w, b)
  PROVE  Inv'
<1> USE DEF Inv
<1>1. TypeOK'
  <2>1. ASSUME IsOlder(w, b) PROVE enqueued_at[Head(queue[b])] \in Nat
    <3>1. 1 \in DOMAIN queue[b] /\ Head(queue[b]) = queue[b][1] /\ queue[b][1] \in Player
      BY <2>1, HeadTailProperties, ElementOfSeq, LenProperties, EmptySeq DEF IsOlder, TypeOK
    <3> QED
      BY <3>1 DEF Timed, TypeOK
  <2> QED
    BY <2>1, BucketType DEF TypeOK, Peek, Release, sideVars, Label, Thread
<1>2. Roles'
  BY PoolAssumption DEF TypeOK, Roles, Peek, GoTo, Release, EndRound, poolVars, localVars,
     sideVars, Thread
<1>3. HandSize'
  BY PoolAssumption, GroupSizeType DEF TypeOK, Roles, HandSize, Peek, GoTo, Release, EndRound,
     poolVars, localVars, sideVars, Thread
<1>4. Asked'
  <2>1. inside' = [inside EXCEPT ![w] = None] /\ pc' = pc /\ UNCHANGED <<arriving, copying, start>>
    BY DEF Peek, Release, sideVars
  <2>2. inside'[w] = None /\ \A t \in Thread \ {w} : inside'[t] = inside[t]
    BY <2>1 DEF TypeOK, Thread
  <2>3. \A v \in Worker \ {w} :
          todo'[v] = todo[v] /\ anchor'[v] = anchor[v] /\ taken'[v] = taken[v]
    BY DEF TypeOK, Peek
  <2> QED
    BY <2>1, <2>2, <2>3, AskedFrame
<1>5. Timed'
  BY PoolAssumption DEF TypeOK, Roles, Timed, Peek, GoTo, Release, EndRound, poolVars, localVars,
     sideVars
<1> QED
  BY <1>1, <1>2, <1>3, <1>4, <1>5 DEF Inv

(* A window found empty ends the round with an empty hand. *)
LEMMA FindNobodyInv ==
  ASSUME Inv, NEW w \in Worker, FindNobody(w)
  PROVE  Inv'
<1> USE DEF Inv
<1>1. TypeOK'
  BY EndRoundType DEF TypeOK, FindNobody, poolVars, sideVars
<1>2. Roles'
  BY PoolAssumption DEF TypeOK, Roles, FindNobody, GoTo, Release, EndRound, poolVars, localVars,
     sideVars, Thread
<1>3. HandSize'
  BY PoolAssumption, GroupSizeType DEF TypeOK, Roles, HandSize, FindNobody, GoTo, Release,
     EndRound, poolVars, localVars, sideVars, Thread
<1>4. Asked'
  BY PoolAssumption, BucketType DEF TypeOK, Roles, Asked, Wants, NextToScan, NextToDrain, InHand,
     FindNobody, GoTo, Release, EndRound, poolVars, localVars, sideVars, Thread
<1>5. Timed'
  BY PoolAssumption DEF TypeOK, Roles, Timed, FindNobody, GoTo, Release, EndRound, poolVars,
     localVars, sideVars
<1> QED
  BY <1>1, <1>2, <1>3, <1>4, <1>5 DEF Inv

(* The harvest visits the window and its borders. *)
LEMMA BeginHarvestInv ==
  ASSUME Inv, NEW w \in Worker, BeginHarvest(w)
  PROVE  Inv'
<1> USE DEF Inv
<1>1. TypeOK'
  <2>1. Reach(start[w]) \subseteq Bucket
    BY ReachType DEF TypeOK
  <2> QED
    BY <2>1 DEF TypeOK, BeginHarvest, GoTo, poolVars, sideVars, Label, Thread
<1>2. Roles'
  BY PoolAssumption DEF TypeOK, Roles, BeginHarvest, GoTo, Release, EndRound, poolVars, localVars,
     sideVars, Thread
<1>3. HandSize'
  BY PoolAssumption, GroupSizeType DEF TypeOK, Roles, HandSize, BeginHarvest, GoTo, Release,
     EndRound, poolVars, localVars, sideVars, Thread
<1>4. Asked'
  BY PoolAssumption, BucketType DEF TypeOK, Roles, Asked, Wants, NextToScan, NextToDrain, InHand,
     BeginHarvest, GoTo, Release, EndRound, poolVars, localVars, sideVars, Thread
<1>5. Timed'
  BY PoolAssumption DEF TypeOK, Roles, Timed, BeginHarvest, GoTo, Release, EndRound, poolVars,
     localVars, sideVars
<1> QED
  BY <1>1, <1>2, <1>3, <1>4, <1>5 DEF Inv

(* What a visit to bucket b moves: n players from its front to the hand. *)
LEMMA DrainEffect ==
  ASSUME Inv, NEW w \in Worker, NEW b \in Bucket, Drain(w, b)
  PROVE  \E n \in Nat :
           /\ n = Min({GroupSize - Len(taken[w]), Len(queue[b])})
           /\ n <= Len(queue[b])
           /\ Len(taken[w]) + n <= GroupSize
           /\ taken'[w] \in Seq(Held)
           /\ Len(taken'[w]) = Len(taken[w]) + n
           /\ \A i \in 1 .. Len(taken[w]) : taken'[w][i] = taken[w][i]
           /\ \A i \in 1 .. n : taken'[w][Len(taken[w]) + i]
                                  = [bucket |-> b, player |-> queue[b][i]]
           /\ \A v \in Worker \ {w} : taken'[v] = taken[v]
           /\ queue'[b] \in Seq(Player)
           /\ Len(queue'[b]) = Len(queue[b]) - n
           /\ \A i \in 1 .. Len(queue[b]) - n : queue'[b][i] = queue[b][n + i]
           /\ \A c \in Bucket \ {b} : queue'[c] = queue[c]
<1> DEFINE q == queue[b]
           h == taken[w]
           n == Min({GroupSize - Len(h), Len(q)})
           e == [i \in 1 .. n |-> [bucket |-> b, player |-> q[i]]]
<1>1. q \in Seq(Player) /\ h \in Seq(Held) /\ Len(q) \in Nat /\ Len(h) \in Nat
  BY LenProperties DEF Inv, TypeOK
<1>2. GroupSize - Len(h) \in Nat
  BY <1>1, GroupSizeType DEF Inv, HandSize
<1>3. n \in Nat /\ n <= Len(q) /\ Len(h) + n <= GroupSize
  <2>1. n = IF GroupSize - Len(h) <= Len(q) THEN GroupSize - Len(h) ELSE Len(q)
    BY <1>1, <1>2, MinOfTwo
  <2> HIDE DEF n, h, q
  <2> QED
    BY <1>1, <1>2, <2>1, GroupSizeType
<1>4. \A i \in 1 .. n : q[i] \in Player
  BY <1>1, <1>3, ElementOfSeq
<1>5. e \in Seq(Held) /\ Len(e) = n
  <2>1. \A i \in 1 .. n : [bucket |-> b, player |-> q[i]] \in Held
    BY <1>4 DEF Held
  <2> HIDE DEF n
  <2> QED
    BY <1>3, <2>1
<1>6. taken' = [taken EXCEPT ![w] = h \o e] /\ queue' = [queue EXCEPT ![b] = SubSeq(q, n + 1, Len(q))]
  BY DEF Drain
<1>7. taken'[w] = h \o e /\ \A v \in Worker \ {w} : taken'[v] = taken[v]
  BY <1>6 DEF Inv, TypeOK
<1>8. queue'[b] = SubSeq(q, n + 1, Len(q)) /\ \A c \in Bucket \ {b} : queue'[c] = queue[c]
  BY <1>6 DEF Inv, TypeOK
<1>0. n = Min({GroupSize - Len(taken[w]), Len(queue[b])})
  OBVIOUS
<1> HIDE DEF q, h, n
<1>9. /\ h \o e \in Seq(Held)
      /\ Len(h \o e) = Len(h) + n
      /\ \A i \in 1 .. Len(h) : (h \o e)[i] = h[i]
      /\ \A i \in 1 .. n : (h \o e)[Len(h) + i] = [bucket |-> b, player |-> q[i]]
  <2>1. /\ h \o e \in Seq(Held)
        /\ Len(h \o e) = Len(h) + Len(e)
        /\ \A i \in 1 .. Len(h) + Len(e) :
             (h \o e)[i] = IF i <= Len(h) THEN h[i] ELSE e[i - Len(h)]
    BY <1>1, <1>5, ConcatProperties
  <2> QED
    BY <2>1, <1>1, <1>3, <1>5
<1>10. /\ SubSeq(q, n + 1, Len(q)) \in Seq(Player)
       /\ Len(SubSeq(q, n + 1, Len(q))) = Len(q) - n
       /\ \A i \in 1 .. Len(q) - n : SubSeq(q, n + 1, Len(q))[i] = q[n + i]
  <2>1. \A i \in n + 1 .. Len(q) : q[i] \in Player
    BY <1>1, <1>3, ElementOfSeq
  <2> QED
    BY <2>1, <1>1, <1>3, SubSeqProperties
<1> QED
  BY <1>0, <1>3, <1>7, <1>8, <1>9, <1>10 DEF q, h

(* Players popped from a bucket are in hand, and no more than a group. *)
LEMMA DrainInv ==
  ASSUME Inv, NEW w \in Worker, NEW b \in Bucket, Drain(w, b)
  PROVE  Inv'
<1> USE DEF Inv
<1>1. TypeOK'
  <2>1. taken'[w] \in Seq(Held) /\ queue'[b] \in Seq(Player)
    BY DrainEffect
  <2>2. taken' = [taken EXCEPT ![w] = taken'[w]] /\ queue' = [queue EXCEPT ![b] = queue'[b]]
    BY DEF Drain, TypeOK
  <2>3. taken' \in [Worker -> Seq(Held)] /\ queue' \in [Bucket -> Seq(Player)]
    BY <2>1, <2>2 DEF TypeOK
  <2> QED
    BY <2>3, BucketType DEF TypeOK, Drain, Release, sideVars, Label, Thread
<1>2. Roles'
  BY PoolAssumption DEF TypeOK, Roles, Drain, GoTo, Release, EndRound, poolVars, localVars,
     sideVars, Thread
<1>3. HandSize'
  <2> SUFFICES ASSUME NEW v \in Worker
               PROVE  /\ Len(taken'[v]) <= GroupSize
                      /\ pc'[v] = "gate" => Len(taken'[v]) = GroupSize
                      /\ pc'[v] \in {"claim", "density", "peek"} => taken'[v] = <<>>
    BY DEF HandSize
  <2>1. pc' = pc /\ pc[w] = "harvest" /\ Len(taken'[w]) <= GroupSize
    <3>1. pc' = pc /\ pc[w] = "harvest"
      BY DEF Drain
    <3> QED
      BY <3>1, DrainEffect
  <2>2. v # w => taken'[v] = taken[v]
    BY DrainEffect
  <2> QED
    BY <2>1, <2>2 DEF HandSize
<1>4. Asked'
  <2>1. inside' = [inside EXCEPT ![w] = None] /\ pc' = pc /\ UNCHANGED <<arriving, copying, start>>
    BY DEF Drain, Release, sideVars
  <2>2. inside'[w] = None /\ \A t \in Thread \ {w} : inside'[t] = inside[t]
    BY <2>1 DEF TypeOK, Thread
  <2>3. \A v \in Worker \ {w} :
          todo'[v] = todo[v] /\ anchor'[v] = anchor[v] /\ taken'[v] = taken[v]
    BY DEF TypeOK, Drain
  <2> QED
    BY <2>1, <2>2, <2>3, AskedFrame
<1>5. Timed'
  <2>3. PICK n \in Nat :
        /\ n <= Len(queue[b])
        /\ Len(taken'[w]) = Len(taken[w]) + n
        /\ \A i \in 1 .. Len(taken[w]) : taken'[w][i] = taken[w][i]
        /\ \A i \in 1 .. n : taken'[w][Len(taken[w]) + i]
                               = [bucket |-> b, player |-> queue[b][i]]
        /\ Len(queue'[b]) = Len(queue[b]) - n
        /\ \A i \in 1 .. Len(queue[b]) - n : queue'[b][i] = queue[b][n + i]
    BY DrainEffect
  <2>0. enqueued_at' = enqueued_at
    BY DEF Drain, sideVars
  <2>1. ASSUME NEW c \in Bucket, NEW i \in DOMAIN queue'[c]
        PROVE  enqueued_at'[queue'[c][i]] # None
    <3>1. queue'[c] \in Seq(Player) /\ queue[c] \in Seq(Player)
      BY <1>1 DEF TypeOK
    <3>2. i \in 1 .. Len(queue'[c]) /\ DOMAIN queue[c] = 1 .. Len(queue[c]) /\ Len(queue[c]) \in Nat
      BY <3>1, LenProperties
    <3>3. CASE c = b
      <4>1. i \in 1 .. Len(queue[b]) - n /\ n + i \in DOMAIN queue[b]
        BY <2>3, <3>2, <3>3
      <4>2. queue'[c][i] = queue[b][n + i]
        BY <2>3, <4>1, <3>3
      <4> QED
        BY <2>0, <4>1, <4>2 DEF Timed
    <3>4. CASE c # b
      BY <2>0, <3>4 DEF Timed, Drain, TypeOK
    <3> QED
      BY <3>3, <3>4
  <2>2. ASSUME NEW v \in Worker, NEW i \in DOMAIN taken'[v]
        PROVE  enqueued_at'[taken'[v][i].player] # None
    <3>1. taken'[v] \in Seq(Held) /\ taken[v] \in Seq(Held) /\ queue[b] \in Seq(Player)
      BY <1>1 DEF TypeOK
    <3>2. /\ i \in 1 .. Len(taken'[v])
          /\ DOMAIN taken[v] = 1 .. Len(taken[v]) /\ Len(taken[v]) \in Nat
          /\ DOMAIN queue[b] = 1 .. Len(queue[b]) /\ Len(queue[b]) \in Nat
      BY <3>1, LenProperties
    <3>3. CASE v = w /\ i <= Len(taken[w])
      BY <2>0, <2>3, <3>2, <3>3 DEF Timed
    <3>4. CASE v = w /\ i > Len(taken[w])
      <4> DEFINE k == i - Len(taken[w])
      <4>1. /\ i \in 1 .. Len(taken[w]) + n /\ Len(taken[w]) \in Nat
            /\ DOMAIN queue[b] = 1 .. Len(queue[b]) /\ Len(queue[b]) \in Nat
        BY <2>3, <3>2, <3>4
      <4>2. k \in 1 .. n /\ k \in DOMAIN queue[b] /\ i = Len(taken[w]) + k
        BY <2>3, <4>1, <3>4
      <4>3. taken'[w][Len(taken[w]) + k] = [bucket |-> b, player |-> queue[b][k]]
        BY <2>3, <4>2
      <4>4. taken'[v][i].player = queue[b][k]
        BY <4>2, <4>3, <3>4
      <4> QED
        BY <2>0, <3>4, <4>2, <4>4 DEF Timed
    <3>5. CASE v # w
      BY <3>5 DEF Timed, Drain, sideVars, TypeOK
    <3> QED
      BY <3>2, <3>3, <3>4, <3>5
  <2> QED
    BY <2>1, <2>2 DEF Timed, Drain, sideVars
<1> QED
  BY <1>1, <1>2, <1>3, <1>4, <1>5 DEF Inv

(* A harvest ends at the gate with a whole group, else in rollback. *)
LEMMA EndHarvestInv ==
  ASSUME Inv, NEW w \in Worker, EndHarvest(w)
  PROVE  Inv'
<1> USE DEF Inv
<1>1. TypeOK'
  <2>1. pc' \in [Thread -> Label]
    BY DEF TypeOK, EndHarvest, GoTo, Label
  <2> QED
    BY <2>1 DEF TypeOK, EndHarvest, poolVars, localVars, sideVars
<1>2. Roles'
  BY PoolAssumption DEF TypeOK, Roles, EndHarvest, GoTo, Release, EndRound, poolVars, localVars,
     sideVars, Thread
<1>3. HandSize'
  BY PoolAssumption, GroupSizeType DEF TypeOK, Roles, HandSize, EndHarvest, GoTo, Release,
     EndRound, poolVars, localVars, sideVars, Thread
<1>4. Asked'
  <2> SUFFICES ASSUME NEW u \in Thread, NEW c, c = inside'[u], c # None
               PROVE  Wants(u, c)'
    BY DEF Asked
  <2>1. u # w /\ c = inside[u] /\ Wants(u, c)
    BY DEF EndHarvest, Asked, poolVars
  <2>2. pc'[u] = pc[u]
    BY <2>1 DEF EndHarvest, GoTo, TypeOK
  <2>3. Wants(u, c)' <=> Wants(u, c)
    BY <2>2 DEF EndHarvest, Wants, NextToScan, NextToDrain, InHand, Home, sideVars, localVars
  <2> QED
    BY <2>1, <2>3
<1>5. Timed'
  BY PoolAssumption DEF TypeOK, Roles, Timed, EndHarvest, GoTo, Release, EndRound, poolVars,
     localVars, sideVars
<1> QED
  BY <1>1, <1>2, <1>3, <1>4, <1>5 DEF Inv

(* What a step of rollback or return_group moves: the last player in hand  *)
(* to the front of the bucket it belongs to.                               *)
LEMMA PutBackEffect ==
  ASSUME Inv, NEW w \in Worker, NEW b \in Bucket, PutBack(w, b)
  PROVE  LET n == Len(taken[w])
             p == taken[w][n].player
         IN  /\ n \in Nat \ {0}
             /\ p \in Player
             /\ b = taken[w][n].bucket \/ b = Home(p)
             /\ taken'[w] \in Seq(Held)
             /\ Len(taken'[w]) = n - 1
             /\ \A i \in 1 .. n - 1 : taken'[w][i] = taken[w][i]
             /\ \A v \in Worker \ {w} : taken'[v] = taken[v]
             /\ queue'[b] \in Seq(Player)
             /\ Len(queue'[b]) = Len(queue[b]) + 1
             /\ queue'[b][1] = p
             /\ \A i \in 1 .. Len(queue[b]) : queue'[b][i + 1] = queue[b][i]
             /\ \A c \in Bucket \ {b} : queue'[c] = queue[c]
<1> DEFINE q == queue[b]
           h == taken[w]
           n == Len(h)
           p == h[n].player
<1>1. q \in Seq(Player) /\ h \in Seq(Held) /\ Len(q) \in Nat /\ n \in Nat
  BY LenProperties DEF Inv, TypeOK
<1>2. Wants(w, b) /\ pc[w] \in {"rollback", "return"}
  BY BucketType DEF Inv, Asked, PutBack, Thread
<1>3. h # <<>> /\ (b = h[n].bucket \/ b = Home(p))
  BY <1>2 DEF Wants, InHand
<1>4. n \in Nat \ {0} /\ h[n] \in Held
  BY <1>1, <1>3, EmptySeq, ElementOfSeq
<1>5. p \in Player
  BY <1>4 DEF Held
<1>6. /\ taken' = [taken EXCEPT ![w] = SubSeq(h, 1, n - 1)]
      /\ queue' = [queue EXCEPT ![b] = <<p>> \o q]
  BY DEF PutBack, InHand
<1>7. taken'[w] = SubSeq(h, 1, n - 1) /\ \A v \in Worker \ {w} : taken'[v] = taken[v]
  BY <1>6 DEF Inv, TypeOK
<1>8. queue'[b] = <<p>> \o q /\ \A c \in Bucket \ {b} : queue'[c] = queue[c]
  BY <1>6 DEF Inv, TypeOK
<1> HIDE DEF q, h, n, p
<1>9. /\ SubSeq(h, 1, n - 1) \in Seq(Held)
      /\ Len(SubSeq(h, 1, n - 1)) = n - 1
      /\ \A i \in 1 .. n - 1 : SubSeq(h, 1, n - 1)[i] = h[i]
  <2>1. \A i \in 1 .. n - 1 : h[i] \in Held
    BY <1>1, <1>4, ElementOfSeq DEF n
  <2> QED
    BY <2>1, <1>4, SubSeqProperties
<1>10. /\ <<p>> \o q \in Seq(Player)
       /\ Len(<<p>> \o q) = Len(q) + 1
       /\ (<<p>> \o q)[1] = p
       /\ \A i \in 1 .. Len(q) : (<<p>> \o q)[i + 1] = q[i]
  <2>1. <<p>> \in Seq(Player) /\ Len(<<p>>) = 1 /\ <<p>>[1] = p
    BY <1>5
  <2>2. /\ <<p>> \o q \in Seq(Player)
        /\ Len(<<p>> \o q) = 1 + Len(q)
        /\ \A i \in 1 .. 1 + Len(q) : (<<p>> \o q)[i] = IF i <= 1 THEN <<p>>[i] ELSE q[i - 1]
    BY <2>1, <1>1, ConcatProperties
  <2> QED
    BY <2>1, <2>2, <1>1
<1> QED
  BY <1>3, <1>4, <1>5, <1>7, <1>8, <1>9, <1>10 DEF q, h, n, p

(* A player put back is again one of its bucket. *)
LEMMA PutBackInv ==
  ASSUME Inv, NEW w \in Worker, NEW b \in Bucket, PutBack(w, b)
  PROVE  Inv'
<1> USE DEF Inv
<1>1. TypeOK'
  <2>1. taken'[w] \in Seq(Held) /\ queue'[b] \in Seq(Player)
    BY PutBackEffect
  <2>2. taken' = [taken EXCEPT ![w] = taken'[w]] /\ queue' = [queue EXCEPT ![b] = queue'[b]]
    BY DEF PutBack, TypeOK
  <2>3. taken' \in [Worker -> Seq(Held)] /\ queue' \in [Bucket -> Seq(Player)]
    BY <2>1, <2>2 DEF TypeOK
  <2> QED
    BY <2>3, BucketType DEF TypeOK, PutBack, Release, sideVars, Label, Thread
<1>2. Roles'
  BY PoolAssumption DEF TypeOK, Roles, PutBack, GoTo, Release, EndRound, poolVars, localVars,
     sideVars, Thread
<1>3. HandSize'
  BY PoolAssumption, GroupSizeType DEF TypeOK, Roles, HandSize, PutBack, GoTo, Release, EndRound,
     poolVars, localVars, sideVars, Thread
<1>4. Asked'
  <2>1. inside' = [inside EXCEPT ![w] = None] /\ pc' = pc /\ UNCHANGED <<arriving, copying, start>>
    BY DEF PutBack, Release, sideVars
  <2>2. inside'[w] = None /\ \A t \in Thread \ {w} : inside'[t] = inside[t]
    BY <2>1 DEF TypeOK, Thread
  <2>3. \A v \in Worker \ {w} :
          todo'[v] = todo[v] /\ anchor'[v] = anchor[v] /\ taken'[v] = taken[v]
    BY DEF TypeOK, PutBack
  <2> QED
    BY <2>1, <2>2, <2>3, AskedFrame
<1>5. Timed'
  <2> DEFINE n == Len(taken[w])
             p == taken[w][n].player
  <2>0. /\ n \in Nat \ {0} /\ Len(taken'[w]) = n - 1
        /\ \A i \in 1 .. n - 1 : taken'[w][i] = taken[w][i]
        /\ Len(queue'[b]) = Len(queue[b]) + 1
        /\ queue'[b][1] = p
        /\ \A i \in 1 .. Len(queue[b]) : queue'[b][i + 1] = queue[b][i]
    BY PutBackEffect
  <2>1. ASSUME NEW c \in Bucket, NEW i \in DOMAIN queue'[c]
        PROVE  enqueued_at'[queue'[c][i]] # None
    <3>1. /\ queue'[c] \in Seq(Player) /\ queue[c] \in Seq(Player) /\ taken[w] \in Seq(Held)
      BY <1>1 DEF TypeOK
    <3>2. /\ i \in 1 .. Len(queue'[c]) /\ n \in DOMAIN taken[w]
          /\ DOMAIN queue[c] = 1 .. Len(queue[c]) /\ Len(queue[c]) \in Nat
      BY <3>1, <2>0, LenProperties
    <3>3. CASE c = b /\ i = 1
      BY <3>2, <3>3, <2>0 DEF Timed, PutBack, sideVars
    <3>4. CASE c = b /\ i # 1
      <4>1. /\ i \in 1 .. Len(queue[b]) + 1 /\ Len(queue[b]) \in Nat
            /\ DOMAIN queue[b] = 1 .. Len(queue[b])
        BY <3>2, <3>4, <2>0
      <4> DEFINE k == i - 1
      <4>2. k \in 1 .. Len(queue[b]) /\ i = k + 1
        BY <4>1, <3>4
      <4>3. queue'[c][i] = queue[b][k]
        BY <4>2, <3>4, <2>0
      <4> QED
        BY <4>1, <4>2, <4>3 DEF Timed, PutBack, sideVars
    <3>5. CASE c # b
      BY <3>5 DEF Timed, PutBack, sideVars, TypeOK
    <3> QED
      BY <3>3, <3>4, <3>5
  <2>2. ASSUME NEW v \in Worker, NEW i \in DOMAIN taken'[v]
        PROVE  enqueued_at'[taken'[v][i].player] # None
    <3>1. taken'[v] \in Seq(Held) /\ taken[v] \in Seq(Held)
      BY <1>1 DEF TypeOK
    <3>2. i \in 1 .. Len(taken'[v]) /\ DOMAIN taken[v] = 1 .. Len(taken[v]) /\ Len(taken[v]) \in Nat
      BY <3>1, LenProperties
    <3>3. i \in DOMAIN taken[v] /\ taken'[v][i] = taken[v][i]
      BY <3>2, <2>0 DEF PutBack, TypeOK
    <3> QED
      BY <3>3 DEF Timed, PutBack, sideVars
  <2> QED
    BY <2>1, <2>2 DEF Timed, PutBack, sideVars
<1> QED
  BY <1>1, <1>2, <1>3, <1>4, <1>5 DEF Inv

(* A rollback or a return is over when the hand is empty. *)
LEMMA EndPutBackInv ==
  ASSUME Inv, NEW w \in Worker, EndPutBack(w)
  PROVE  Inv'
<1> USE DEF Inv
<1>1. TypeOK'
  BY EndRoundType DEF TypeOK, EndPutBack, poolVars, sideVars
<1>2. Roles'
  BY PoolAssumption DEF TypeOK, Roles, EndPutBack, GoTo, Release, EndRound, poolVars, localVars,
     sideVars, Thread
<1>3. HandSize'
  BY PoolAssumption, GroupSizeType DEF TypeOK, Roles, HandSize, EndPutBack, GoTo, Release,
     EndRound, poolVars, localVars, sideVars, Thread
<1>4. Asked'
  BY PoolAssumption, BucketType DEF TypeOK, Roles, Asked, Wants, NextToScan, NextToDrain, InHand,
     EndPutBack, GoTo, Release, EndRound, poolVars, localVars, sideVars, Thread
<1>5. Timed'
  BY PoolAssumption DEF TypeOK, Roles, Timed, EndPutBack, GoTo, Release, EndRound, poolVars,
     localVars, sideVars
<1> QED
  BY <1>1, <1>2, <1>3, <1>4, <1>5 DEF Inv

(* The group at the gate becomes a match of players. *)
LEMMA FormMatchInv ==
  ASSUME Inv, NEW w \in Worker, FormMatch(w)
  PROVE  Inv'
<1> USE DEF Inv
<1>1. TypeOK'
  <2>1. Group(w) \in [Slot -> Player]
    <3>1. taken[w] \in Seq(Held) /\ Len(taken[w]) = GroupSize
      BY DEF FormMatch, TypeOK, HandSize
    <3>2. \A i \in Slot : taken[w][i] \in Held
      BY <3>1, GroupSizeType, ElementOfSeq
    <3>3. \A i \in Slot : taken[w][i].player \in Player
      BY <3>2 DEF Held
    <3> QED
      BY <3>3 DEF Group
  <2>2. (waiting - GroupSize) % CounterRange \in 0 .. CounterRange - 1
    BY GroupSizeType, PoolAssumption DEF TypeOK
  <2>3. <<>> \in Seq(Held)
    OBVIOUS
  <2> QED
    BY <2>1, <2>2, <2>3, GroupSizeType, BucketType
    DEF TypeOK, FormMatch, GoTo, EndRound, poolVars, sideVars, Label, Thread
<1>2. Roles'
  BY PoolAssumption DEF TypeOK, Roles, FormMatch, GoTo, Release, EndRound, poolVars, localVars,
     sideVars, Thread
<1>3. HandSize'
  BY PoolAssumption, GroupSizeType DEF TypeOK, Roles, HandSize, FormMatch, GoTo, Release,
     EndRound, poolVars, localVars, sideVars, Thread
<1>4. Asked'
  BY PoolAssumption, BucketType DEF TypeOK, Roles, Asked, Wants, NextToScan, NextToDrain, InHand,
     FormMatch, GoTo, Release, EndRound, poolVars, localVars, sideVars, Thread
<1>5. Timed'
  BY PoolAssumption DEF TypeOK, Roles, Timed, FormMatch, GoTo, Release, EndRound, poolVars,
     localVars, sideVars
<1> QED
  BY <1>1, <1>2, <1>3, <1>4, <1>5 DEF Inv

(* A refused group is still in hand. *)
LEMMA RefuseMatchInv ==
  ASSUME Inv, NEW w \in Worker, RefuseMatch(w)
  PROVE  Inv'
<1> USE DEF Inv
<1>1. TypeOK'
  <2>1. pc' \in [Thread -> Label]
    BY DEF TypeOK, RefuseMatch, GoTo, Label
  <2> QED
    BY <2>1 DEF TypeOK, RefuseMatch, poolVars, localVars, sideVars
<1>2. Roles'
  BY PoolAssumption DEF TypeOK, Roles, RefuseMatch, GoTo, Release, EndRound, poolVars, localVars,
     sideVars, Thread
<1>3. HandSize'
  BY PoolAssumption, GroupSizeType DEF TypeOK, Roles, HandSize, RefuseMatch, GoTo, Release,
     EndRound, poolVars, localVars, sideVars, Thread
<1>4. Asked'
  <2>1. inside[w] = None
    BY DEF Asked, Wants, RefuseMatch, Thread
  <2>2. /\ inside' = inside /\ UNCHANGED <<arriving, copying, start, todo, anchor, taken>>
        /\ \A t \in Thread \ {w} : pc'[t] = pc[t]
    BY DEF TypeOK, RefuseMatch, GoTo, poolVars, localVars, sideVars
  <2> QED
    BY <2>1, <2>2, AskedFrame
<1>5. Timed'
  BY PoolAssumption DEF TypeOK, Roles, Timed, RefuseMatch, GoTo, Release, EndRound, poolVars,
     localVars, sideVars
<1> QED
  BY <1>1, <1>2, <1>3, <1>4, <1>5 DEF Inv

(* Time passes. *)
LEMMA TickInv ==
  ASSUME Inv, Tick
  PROVE  Inv'
<1> USE DEF Inv
<1>1. TypeOK'
  BY PoolAssumption, GroupSizeType, BucketType DEF TypeOK, Tick, GoTo, Release, EndRound, vars,
     poolVars, localVars, sideVars, Label, Thread
<1>2. Roles'
  BY PoolAssumption DEF TypeOK, Roles, Tick, GoTo, Release, EndRound, poolVars, localVars,
     sideVars, Thread
<1>3. HandSize'
  BY PoolAssumption, GroupSizeType DEF TypeOK, Roles, HandSize, Tick, GoTo, Release, EndRound,
     poolVars, localVars, sideVars, Thread
<1>4. Asked'
  BY PoolAssumption, BucketType DEF TypeOK, Roles, Asked, Wants, NextToScan, NextToDrain, InHand,
     Tick, GoTo, Release, EndRound, poolVars, localVars, sideVars, Thread
<1>5. Timed'
  BY PoolAssumption DEF TypeOK, Roles, Timed, Tick, GoTo, Release, EndRound, poolVars, localVars,
     sideVars
<1> QED
  BY <1>1, <1>2, <1>3, <1>4, <1>5 DEF Inv

(* Every step keeps the invariant. *)
LEMMA NextInv == Inv /\ [Next]_vars => Inv'
<1> SUFFICES ASSUME Inv, [Next]_vars
             PROVE  Inv'
  OBVIOUS
<1>1. CASE IngestionStep
  <2>1. Ingestion \in Thread
    BY DEF Thread
  <2> QED
    BY <1>1, <2>1, ReceiveInv, LockInv, PushInv, CountArrivalInv DEF IngestionStep
<1>2. CASE SnapshotterStep
  <2>1. Snapshotter \in Thread
    BY DEF Thread
  <2> QED
    BY <1>2, <2>1, LockInv, BeginPassInv, CopyBucketInv DEF SnapshotterStep
<1>3. ASSUME NEW w \in Worker, WorkerStep(w)
      PROVE  Inv'
  <2>1. w \in Thread
    BY DEF Thread
  <2> QED
    BY <1>3, <2>1, ClaimInv, SkipSparseInv, BeginPeekInv, FindNobodyInv, BeginHarvestInv,
       EndHarvestInv, EndPutBackInv, FormMatchInv, RefuseMatchInv, LockInv, TryLockFailsInv,
       CountBucketInv, PeekInv, DrainInv, PutBackInv
    DEF WorkerStep
<1>4. CASE UNCHANGED vars
  BY <1>4 DEF vars, poolVars, sideVars, localVars, Inv, TypeOK, Roles, HandSize, Asked, Timed,
              Wants, NextToScan, NextToDrain, InHand
<1> QED
  BY <1>1, <1>2, <1>3, <1>4, TickInv DEF Next

(* The invariant holds in every reachable state. *)
THEOREM InvHolds == Spec => []Inv
  BY InitInv, NextInv, PTL DEF Spec

(* Type correctness of the pool, for any number of threads, players and    *)
(* buckets and any stride.                                                 *)
THEOREM TypeCorrect == Spec => []TypeOK
  BY InvHolds, PTL DEF Inv

(* A hand never exceeds a group, is a whole group at the gate, and is empty *)
(* before the harvest: attempt_match has what run_worker needs to split.    *)
THEOREM HandsAreGroups == Spec => []HandSize
  BY InvHolds, PTL DEF Inv
=============================================================================
