--------------------------- MODULE MatchPoolOrder ---------------------------
(***************************************************************************)
(* Theorems about the buckets of MatchPool: which of them the players of a *)
(* match come from, and when their players stay in the order of arrival.   *)
(***************************************************************************)
EXTENDS MatchPoolPlayers

(* NUM_BUCKETS is a multiple of STRIDE, and s of STRIDE. *)
Even    == NumBuckets % Stride = 0
Start(s) == Even => s % Stride = 0

(* The stride is a number, and so are the buckets. *)
LEMMA StrideType ==
  /\ Stride \in Nat \ {0} /\ NumBuckets \in Nat \ {0}
  /\ \A s \in Bucket : s \in Nat /\ s < NumBuckets
<1>1. NumBuckets \in Nat \ {0}
  BY PoolAssumption
<1>2. Stride \in 1 .. NumBuckets
  BY PoolAssumption
<1> QED
  BY <1>1, <1>2 DEF Bucket

(* Adding n to a multiple of n gives a multiple of n. *)
LEMMA AddMultiple ==
  ASSUME NEW n \in Nat \ {0}, NEW s \in Nat, s % n = 0
  PROVE  (s + n) % n = 0
<1> DEFINE a == s \div n
           b == (s + n) \div n
           r == (s + n) % n
<1>1. a \in Nat /\ b \in Nat /\ r \in 0 .. n - 1
  OBVIOUS
<1>2. s = n * a /\ s + n = n * b + r
  OBVIOUS
<1> HIDE DEF a, b, r
<1>3. n * (a + 1) = n * a + n
  BY <1>1
<1>4. CASE b <= a
  <2>1. n * b <= n * a
    BY <1>1, <1>4
  <2> QED
    BY <2>1, <1>1, <1>2
<1>5. CASE b = a + 1
  BY <1>1, <1>2, <1>3, <1>5 DEF r
<1>6. CASE b >= a + 2
  <2>1. n * (a + 1) <= n * (b - 1) /\ n * (b - 1) = n * b - n
    BY <1>1, <1>6
  <2> QED
    BY <2>1, <1>1, <1>2, <1>3
<1> QED
  BY <1>1, <1>4, <1>5, <1>6

(* A window that starts at a multiple of STRIDE ends inside the carousel. *)
LEMMA StartFits ==
  ASSUME Even, NEW s \in Bucket, s % Stride = 0
  PROVE  s + Stride <= NumBuckets
<1>1. Stride \in Nat \ {0} /\ NumBuckets \in Nat \ {0} /\ s \in Nat /\ s < NumBuckets
  BY StrideType
<1> DEFINE a == s \div Stride
           c == NumBuckets \div Stride
<1>2. a \in Nat /\ c \in Nat
  BY <1>1
<1>3. s = Stride * a /\ NumBuckets = Stride * c
  BY <1>1 DEF Even
<1> HIDE DEF a, c
<1>4. a + 1 <= c
  <2> SUFFICES ASSUME c <= a PROVE FALSE
    BY <1>2
  <2>1. Stride * c <= Stride * a
    BY <1>1, <1>2
  <2> QED
    BY <2>1, <1>1, <1>3
<1>5. Stride * (a + 1) <= Stride * c
  BY <1>1, <1>2, <1>4
<1>6. Stride * (a + 1) = Stride * a + Stride
  BY <1>1, <1>2
<1> QED
  BY <1>1, <1>3, <1>5, <1>6

(* Such a window and its borders are STRIDE + 2 neighbouring buckets. *)
LEMMA ReachSpan ==
  ASSUME Even, NEW s \in Bucket, s % Stride = 0
  PROVE  Reach(s) \subseteq s .. s + Stride + 1
<1>1. /\ Stride \in Nat \ {0} /\ NumBuckets \in Nat \ {0} /\ s \in Nat
      /\ s + Stride <= NumBuckets
  BY StartFits, StrideType
<1>2. ASSUME NEW k \in 0 .. Stride - 1
      PROVE  (s + k) % NumBuckets = s + k
  BY <1>1, <1>2
<1>3. Window(s) = s .. s + Stride - 1
  <2>1. ASSUME NEW x \in s .. s + Stride - 1 PROVE x \in Window(s)
    <3>1. x - s \in 0 .. Stride - 1 /\ s + (x - s) = x
      BY <1>1
    <3>2. (s + (x - s)) % NumBuckets = x
      BY <3>1, <1>2
    <3> QED
      BY <3>1, <3>2 DEF Window
  <2>2. ASSUME NEW k \in 0 .. Stride - 1 PROVE (s + k) % NumBuckets \in s .. s + Stride - 1
    BY <1>1, <1>2
  <2> QED
    BY <2>1, <2>2 DEF Window
<1>4. Max(Window(s)) = s + Stride - 1
  <2> DEFINE m == s + Stride - 1
  <2>1. m \in Window(s) /\ \A y \in Window(s) : m >= y
    BY <1>1, <1>3
  <2>2. \A x \in Window(s) : (\A y \in Window(s) : x >= y) => x = m
    BY <1>1, <1>3, <2>1
  <2> QED
    BY <2>1, <2>2 DEF Max
<1> QED
  BY <1>1, <1>3, <1>4 DEF Reach, Borders

(* Workers start at multiples of STRIDE and take from their reach only. *)
InReach ==
  /\ Start(ticket)
  /\ \A w \in Worker :
       /\ Start(start[w])
       /\ pc[w] = "harvest" => todo[w] \subseteq Reach(start[w])
       /\ pc[w] \in {"harvest", "gate"} =>
            \A i \in DOMAIN taken[w] : taken[w][i].bucket \in Reach(start[w])

(* The next ticket starts at a multiple of STRIDE, too. *)
LEMMA NextTicket ==
  ASSUME NEW s \in Bucket, Start(s)
  PROVE  Start((s + Stride) % NumBuckets)
<1> SUFFICES ASSUME Even PROVE ((s + Stride) % NumBuckets) % Stride = 0
  BY DEF Start
<1>1. /\ Stride \in Nat \ {0} /\ NumBuckets \in Nat \ {0} /\ s \in Nat
      /\ s + Stride <= NumBuckets /\ s % Stride = 0
  BY StartFits, StrideType DEF Start
<1>2. CASE s + Stride = NumBuckets
  <2>1. (s + Stride) % NumBuckets = 0
    BY <1>1, <1>2
  <2> QED
    BY <2>1, <1>1
<1>3. CASE s + Stride < NumBuckets
  <2>1. (s + Stride) % NumBuckets = s + Stride
    BY <1>1, <1>3
  <2>2. (s + Stride) % Stride = 0
    BY <1>1, AddMultiple
  <2> QED
    BY <2>1, <2>2
<1> QED
  BY <1>1, <1>2, <1>3

(* Nobody has started when the process starts. *)
LEMMA InitInReach == Init => InReach
<1> SUFFICES ASSUME Init PROVE InReach
  OBVIOUS
<1>1. 0 % Stride = 0
  BY PoolAssumption
<1>2. \A w \in Worker : pc[w] = "claim" /\ start[w] = 0
  BY PoolAssumption DEF Init, Thread
<1> QED
  BY <1>1, <1>2 DEF Init, InReach, Start

(* Every step keeps it: only a claim moves a window, and only a harvest    *)
(* adds to a hand.                                                         *)
LEMMA NextInReach == Inv /\ InReach /\ [Next]_vars => InReach'
<1> SUFFICES ASSUME Inv, InReach, [Next]_vars
             PROVE  InReach'
  OBVIOUS
<1>0. Inv'
  BY NextInv
<1> DEFINE Ok(v) ==
       /\ Start(start[v])
       /\ pc[v] = "harvest" => todo[v] \subseteq Reach(start[v])
       /\ pc[v] \in {"harvest", "gate"} =>
            \A i \in DOMAIN taken[v] : taken[v][i].bucket \in Reach(start[v])
<1>1. \A v \in Worker : Ok(v)
  BY DEF InReach
<1>2. 0 % Stride = 0
  BY PoolAssumption
<1>3. Ingestion \notin Worker /\ Snapshotter \notin Worker
  BY PoolAssumption
<1>4. CASE UNCHANGED <<ticket, start, todo, taken>> /\ \A v \in Worker : pc'[v] = pc[v]
  BY <1>4 DEF InReach, Start
<1>5. CASE Tick \/ UNCHANGED vars
  BY <1>5, <1>4 DEF Tick, vars, poolVars, localVars
<1>6. CASE IngestionStep
  <2>1. UNCHANGED <<ticket, start, todo, taken>>
    BY <1>6 DEF IngestionStep, Receive, Lock, Push, CountArrival, localVars
  <2>2. \A v \in Worker : pc'[v] = pc[v]
    BY <1>6, <1>3 DEF IngestionStep, Receive, Lock, Push, CountArrival, GoTo, Inv, TypeOK, Thread
  <2> QED
    BY <2>1, <2>2, <1>4
<1>7. ASSUME NEW w \in Worker, WorkerStep(w)
      PROVE  InReach'
  <2>0. w \in Thread
    BY DEF Thread
  (* Other workers keep what they have. *)
  <2>1. \A v \in Worker \ {w} :
          start'[v] = start[v] /\ todo'[v] = todo[v] /\ taken'[v] = taken[v] /\ pc'[v] = pc[v]
    <3>1. CASE Claim(w) \/ SkipSparse(w) \/ BeginPeek(w) \/ FindNobody(w) \/ BeginHarvest(w)
      BY <3>1 DEF Claim, SkipSparse, BeginPeek, FindNobody, BeginHarvest, GoTo, EndRound, Inv,
         TypeOK, Thread
    <3>2. CASE EndHarvest(w) \/ EndPutBack(w) \/ FormMatch(w) \/ RefuseMatch(w)
      BY <3>2 DEF EndHarvest, EndPutBack, FormMatch, RefuseMatch, GoTo, EndRound, localVars, Inv,
         TypeOK, Thread
    <3>3. ASSUME NEW b \in Bucket,
                 \/ Lock(w, b) \/ TryLockFails(w, b)
                 \/ CountBucket(w, b) \/ Peek(w, b) \/ Drain(w, b) \/ PutBack(w, b)
          PROVE  \A v \in Worker \ {w} :
                   start'[v] = start[v] /\ todo'[v] = todo[v] /\ taken'[v] = taken[v] /\ pc'[v] = pc[v]
      BY <3>3 DEF Lock, TryLockFails, CountBucket, Peek, Drain, PutBack, GoTo, localVars, Inv,
         TypeOK, Thread
    <3> QED
      BY <1>7, <3>1, <3>2, <3>3 DEF WorkerStep
  <2>2. SUFFICES Start(ticket') /\ Ok(w)'
    <3>1. \A v \in Worker \ {w} : Ok(v)'
      BY <2>1, <1>1 DEF Start
    <3> QED
      BY <2>2, <3>1 DEF InReach, Start
  <2>3. CASE SkipSparse(w) \/ FindNobody(w) \/ EndPutBack(w) \/ FormMatch(w)
    <3>1. start'[w] = 0 /\ pc'[w] = "claim" /\ ticket' = ticket
      BY <2>3, <2>0 DEF SkipSparse, FindNobody, EndPutBack, FormMatch, EndRound, GoTo, Inv, TypeOK
    <3> QED
      BY <3>1, <1>2 DEF InReach, Start
  <2>4. CASE Claim(w)
    <3>1. start'[w] = ticket /\ pc'[w] = "density" /\ ticket' = (ticket + Stride) % NumBuckets
      BY <2>4, <2>0 DEF Claim, GoTo, Inv, TypeOK
    <3>2. Start(ticket) /\ Start(ticket')
      BY <3>1, NextTicket DEF InReach, Inv, TypeOK
    <3> QED
      BY <3>1, <3>2 DEF Start
  <2>5. CASE BeginPeek(w) \/ RefuseMatch(w)
    <3>1. start' = start /\ pc'[w] \in {"peek", "return"} /\ ticket' = ticket
      BY <2>5, <2>0 DEF BeginPeek, RefuseMatch, GoTo, localVars, Inv, TypeOK
    <3> QED
      BY <3>1, <1>1 DEF InReach, Start
  <2>6. CASE BeginHarvest(w)
    <3>1. /\ start' = start /\ ticket' = ticket /\ taken' = taken
          /\ pc[w] = "peek" /\ todo'[w] = Reach(start[w])
      BY <2>6, <2>0 DEF BeginHarvest, GoTo, Inv, TypeOK
    <3>2. taken[w] = <<>>
      BY <3>1 DEF Inv, HandSize
    <3> QED
      BY <3>1, <3>2, <1>1 DEF InReach, Start
  <2>7. CASE EndHarvest(w)
    <3>1. UNCHANGED <<start, todo, taken, ticket>> /\ pc[w] = "harvest" /\ pc'[w] \in {"gate", "rollback"}
      BY <2>7, <2>0 DEF EndHarvest, GoTo, localVars, Inv, TypeOK
    <3> QED
      BY <3>1, <1>1 DEF InReach, Start
  <2>8. ASSUME NEW b \in Bucket, Lock(w, b) \/ TryLockFails(w, b) \/ CountBucket(w, b) \/ Peek(w, b)
        PROVE  Start(ticket') /\ Ok(w)'
    <3>1. CASE Lock(w, b)
      BY <3>1, <1>1 DEF Lock, localVars, InReach, Start
    <3>2. CASE TryLockFails(w, b)
      <4>1. UNCHANGED <<start, todo, taken, ticket>> /\ pc'[w] = "rollback"
        BY <3>2, <2>0 DEF TryLockFails, GoTo, localVars, Inv, TypeOK
      <4> QED
        BY <4>1, <1>1 DEF InReach, Start
    <3>3. CASE CountBucket(w, b) \/ Peek(w, b)
      <4>1. UNCHANGED <<start, taken, ticket>> /\ pc'[w] \in {"density", "peek"}
        BY <3>3 DEF CountBucket, Peek
      <4> QED
        BY <4>1, <1>1 DEF InReach, Start
    <3> QED
      BY <2>8, <3>1, <3>2, <3>3
  <2>9. ASSUME NEW b \in Bucket, PutBack(w, b)
        PROVE  Start(ticket') /\ Ok(w)'
    <3>1. UNCHANGED <<start, ticket>> /\ pc'[w] \in {"rollback", "return"}
      BY <2>9 DEF PutBack
    <3> QED
      BY <3>1, <1>1 DEF InReach, Start
  <2>10. ASSUME NEW b \in Bucket, Drain(w, b)
         PROVE  Start(ticket') /\ Ok(w)'
    <3>1. /\ UNCHANGED <<start, ticket, pc>> /\ pc[w] = "harvest" /\ inside[w] = b
          /\ todo'[w] = todo[w] \ {b}
      BY <2>10 DEF Drain, Inv, TypeOK
    <3>2. Wants(w, b)
      BY <3>1, <2>0, BucketType DEF Inv, Asked
    <3>3. b \in todo[w]
      BY <3>1, <3>2 DEF Wants, NextToDrain
    <3>4. b \in Reach(start[w]) /\ todo'[w] \subseteq Reach(start[w])
      BY <3>1, <3>3, <1>1
    <3> DEFINE h == Len(taken[w])
    <3>5. PICK n \in Nat :
            /\ Len(taken'[w]) = h + n
            /\ \A i \in 1 .. h : taken'[w][i] = taken[w][i]
            /\ \A i \in 1 .. n : taken'[w][h + i] = [bucket |-> b, player |-> queue[b][i]]
      BY <2>10, DrainEffect
    <3>6. h \in Nat /\ DOMAIN taken[w] = 1 .. h /\ DOMAIN taken'[w] = 1 .. h + n
      BY <1>0, <3>5, PlacesType, LenProperties DEF Inv, TypeOK
    <3> HIDE DEF h
    <3>7. ASSUME NEW i \in DOMAIN taken'[w]
          PROVE  taken'[w][i].bucket \in Reach(start[w])
      <4>1. CASE i \in 1 .. h
        BY <4>1, <3>1, <3>5, <3>6, <1>1
      <4>2. CASE i \notin 1 .. h
        <5> DEFINE k == i - h
        <5>1. k \in 1 .. n /\ i = h + k
          BY <4>2, <3>6
        <5>2. taken'[w][i] = [bucket |-> b, player |-> queue[b][k]]
          BY <5>1, <3>5
        <5> QED
          BY <5>2, <3>4
      <4> QED
        BY <4>1, <4>2
    <3> QED
      BY <3>1, <3>4, <3>7, <1>1 DEF InReach, Start
  <2> QED
    BY <1>7, <2>3, <2>4, <2>5, <2>6, <2>7, <2>8, <2>9, <2>10 DEF WorkerStep
<1>8. CASE SnapshotterStep
  <2>1. UNCHANGED <<ticket, start, todo, taken>>
    BY <1>8 DEF SnapshotterStep, BeginPass, Lock, CopyBucket, localVars
  <2>2. \A v \in Worker : pc'[v] = pc[v]
    BY <1>8, <1>3 DEF SnapshotterStep, BeginPass, Lock, CopyBucket, GoTo, Inv, TypeOK, Thread
  <2> QED
    BY <2>1, <2>2, <1>4
<1> QED
  BY <1>5, <1>6, <1>7, <1>8 DEF Next

(* A match formed of players at home, within one reach, is narrow. *)
LEMMA NextNarrow ==
  Inv /\ AtHome /\ InReach /\ NarrowGroups /\ [Next]_vars => NarrowGroups'
<1> SUFFICES ASSUME Inv, AtHome, InReach, NarrowGroups, [Next]_vars, Even
             PROVE  \A g \in formed' : \A i, j \in Slot : Home(g[i]) - Home(g[j]) < Stride + 2
  BY DEF NarrowGroups, Home, Even
<1>1. \A g \in formed : \A i, j \in Slot : Home(g[i]) - Home(g[j]) < Stride + 2
  BY DEF NarrowGroups, Even
<1>2. ASSUME NEW w \in Worker, FormMatch(w), NEW i \in Slot, NEW j \in Slot
      PROVE  Home(Group(w)[i]) - Home(Group(w)[j]) < Stride + 2
  <2>1. taken[w] \in Seq(Held) /\ Len(taken[w]) = GroupSize /\ pc[w] = "gate"
    BY <1>2 DEF FormMatch, Inv, TypeOK, HandSize
  <2>2. DOMAIN taken[w] = Slot
    BY <2>1, GroupSizeType, LenProperties
  <2>3. start[w] \in Bucket /\ start[w] % Stride = 0
    BY DEF InReach, Start, Inv, TypeOK
  <2>4. \A k \in Slot : Home(Group(w)[k]) \in Reach(start[w])
    BY <2>1, <2>2 DEF Group, AtHome, InReach
  <2>5. \A k \in Slot : Home(Group(w)[k]) \in start[w] .. start[w] + Stride + 1
    BY <2>3, <2>4, ReachSpan
  <2>6. start[w] \in Nat /\ Stride \in Nat
    BY <2>3, StrideType
  <2> QED
    BY <2>5, <2>6
<1>3. (\E w \in Worker : FormMatch(w) /\ formed' = formed \cup {Group(w)}) \/ formed' = formed
  <2>1. \A w \in Worker : FormMatch(w) => formed' = formed \cup {Group(w)}
    BY DEF FormMatch
  <2>2. \A p \in Player : Receive(p) => formed' = formed
    BY DEF Receive
  <2>3. \A b \in Bucket : Push(b) => formed' = formed
    BY DEF Push
  <2>4. \A w \in Worker, b \in Bucket : Drain(w, b) \/ PutBack(w, b) => formed' = formed
    BY DEF Drain, PutBack
  <2> QED
    BY <2>1, <2>2, <2>3, <2>4, Movers
<1> QED
  BY <1>1, <1>2, <1>3

(* When STRIDE divides NUM_BUCKETS the players of a match come from        *)
(* STRIDE + 2 neighbouring buckets: no harvest wraps around the carousel.  *)
THEOREM Narrow == Spec => []NarrowGroups
<1>1. Init => NarrowGroups
  BY DEF Init, NarrowGroups
<1> QED
  BY <1>1, InvHolds, Homing, InitInReach, NextInReach, NextNarrow, PTL DEF Spec
-----------------------------------------------------------------------------
(***************************************************************************)
(* The order of the buckets.                                               *)
(***************************************************************************)

Arrival(b, i)     == enqueued_at[queue[b][i]]
HandArrival(w, i) == enqueued_at[taken[w][i].player]

(* Nobody arrives later than now. *)
Past == \A p \in Player : enqueued_at[p] # None => enqueued_at[p] <= clock

(* Bucket b is in the order of arrival. *)
InOrder(b) == \A i, j \in DOMAIN queue[b] : i < j => Arrival(b, i) <= Arrival(b, j)

(* No two match threads have players of bucket b in hand. *)
Unshared(b) ==
  \A v, w \in Worker : \A i \in DOMAIN taken[v], j \in DOMAIN taken[w] :
    taken[v][i].bucket = b /\ taken[w][j].bucket = b => v = w

(* The players of bucket b that a worker has in hand, those in the bucket  *)
(* and the one on its way there have come in that order.                   *)
InLine(b) ==
  /\ InOrder(b)
  /\ \A w \in Worker : \A i, j \in DOMAIN taken[w] :
       i < j /\ taken[w][i].bucket = b /\ taken[w][j].bucket = b
         => HandArrival(w, i) <= HandArrival(w, j)
  /\ \A w \in Worker : \A i \in DOMAIN taken[w] :
       taken[w][i].bucket = b => \A j \in DOMAIN queue[b] : HandArrival(w, i) <= Arrival(b, j)
  /\ arriving # None =>
       /\ \A i \in DOMAIN queue[b] : Arrival(b, i) <= enqueued_at[arriving]
       /\ \A w \in Worker : \A i \in DOMAIN taken[w] :
            taken[w][i].bucket = b => HandArrival(w, i) <= enqueued_at[arriving]

(* PlacesType in the next state. *)
LEMMA PlacesTypeNext ==
  ASSUME Inv'
  PROVE  /\ \A b \in Bucket : Len(queue'[b]) \in Nat /\ DOMAIN queue'[b] = 1 .. Len(queue'[b])
         /\ \A w \in Worker : Len(taken'[w]) \in Nat /\ DOMAIN taken'[w] = 1 .. Len(taken'[w])
<1>1. \A b \in Bucket : queue'[b] \in Seq(Player)
  BY DEF Inv, TypeOK
<1>2. \A w \in Worker : taken'[w] \in Seq(Held)
  BY DEF Inv, TypeOK
<1> QED
  BY <1>1, <1>2, LenProperties

(* Whoever is in a bucket or in a hand has arrived at some time. *)
LEMMA ArrivalType ==
  ASSUME Inv
  PROVE  /\ \A b \in Bucket : \A i \in DOMAIN queue[b] :
              /\ queue[b][i] \in Player /\ Arrival(b, i) \in Nat
              /\ enqueued_at[queue[b][i]] # None
         /\ \A w \in Worker : \A i \in DOMAIN taken[w] :
              /\ taken[w][i].player \in Player /\ taken[w][i].bucket \in Bucket
              /\ HandArrival(w, i) \in Nat /\ enqueued_at[taken[w][i].player] # None
<1>1. ASSUME NEW b \in Bucket, NEW i \in DOMAIN queue[b]
      PROVE  /\ queue[b][i] \in Player /\ Arrival(b, i) \in Nat
             /\ enqueued_at[queue[b][i]] # None
  <2>1. queue[b][i] \in Player
    BY PlacesType, ElementOfSeq
  <2>2. enqueued_at[queue[b][i]] # None
    BY DEF Inv, Timed
  <2> QED BY <2>1, <2>2 DEF Arrival, Inv, TypeOK
<1>2. ASSUME NEW w \in Worker, NEW i \in DOMAIN taken[w]
      PROVE  /\ taken[w][i].player \in Player /\ taken[w][i].bucket \in Bucket
             /\ HandArrival(w, i) \in Nat /\ enqueued_at[taken[w][i].player] # None
  <2>1. taken[w][i] \in Held
    BY PlacesType, ElementOfSeq
  <2>2. enqueued_at[taken[w][i].player] # None
    BY DEF Inv, Timed
  <2>3. taken[w][i].player \in Player /\ taken[w][i].bucket \in Bucket
    BY <2>1 DEF Held
  <2> QED BY <2>2, <2>3 DEF HandArrival, Inv, TypeOK
<1> QED BY <1>1, <1>2

(* Nobody arrives in the future: the clock only goes on. *)
LEMMA NextPast == Inv /\ Past /\ [Next]_vars => Past'
<1> SUFFICES ASSUME Inv, Past, [Next]_vars
             PROVE  Past'
  OBVIOUS
<1>1. clock \in Nat /\ enqueued_at \in [Player -> Nat \cup {None}] /\ None \notin Nat
  BY PoolAssumption DEF Inv, TypeOK
<1>2. ASSUME NEW p \in Player, Receive(p)
      PROVE  Past'
  BY <1>1, <1>2 DEF Receive, Past
<1>3. CASE UNCHANGED enqueued_at
  <2>1. clock' = clock \/ clock' = clock + 1
    BY ClockMoves DEF Tick
  <2> QED BY <1>1, <1>3, <2>1 DEF Past
<1> QED
  BY <1>2, <1>3, Movers DEF Push, Drain, PutBack, FormMatch, sideVars

(* An arriving player is the latest. *)
LEMMA ReceiveInLine ==
  ASSUME Inv, Past, NEW d \in Bucket, InLine(d), NEW p \in Player, Receive(p)
  PROVE  InLine(d)'
<1>1. /\ UNCHANGED <<queue, taken>> /\ arriving' = p
      /\ \A x \in Player : x # p => enqueued_at'[x] = enqueued_at[x]
      /\ enqueued_at'[p] = clock /\ enqueued_at[p] = None
  BY DEF Receive, poolVars, localVars, Inv, TypeOK
<1>2. \A i \in DOMAIN queue[d] : Arrival(d, i)' = Arrival(d, i) /\ Arrival(d, i) <= clock
  BY <1>1, ArrivalType DEF Arrival, Past
<1>3. \A w \in Worker : \A i \in DOMAIN taken[w] :
        HandArrival(w, i)' = HandArrival(w, i) /\ HandArrival(w, i) <= clock
  BY <1>1, ArrivalType DEF HandArrival, Past
<1>4. InOrder(d)'
  BY <1>1, <1>2 DEF InLine, InOrder
<1> QED
  BY <1>1, <1>2, <1>3, <1>4 DEF InLine

(* Who arrives is younger than all who wait, and goes to the back. *)
LEMMA PushInLine ==
  ASSUME Inv, Inv', NEW d \in Bucket, InLine(d), NEW b \in Bucket, Push(b)
  PROVE  InLine(d)'
<1>1. /\ UNCHANGED <<taken, enqueued_at>> /\ arriving' = None /\ arriving # None
      /\ \A c \in Bucket \ {b} : queue'[c] = queue[c]
  <2>1. arriving # None
    BY DEF Push, Inv, Roles
  <2> QED BY <2>1, PushEffect
<1>2. \A w : \A i : HandArrival(w, i)' = HandArrival(w, i)
  BY <1>1 DEF HandArrival
<1>3. CASE b # d
  <2>1. queue'[d] = queue[d] /\ \A i : Arrival(d, i)' = Arrival(d, i)
    BY <1>1, <1>3 DEF Arrival
  <2> QED BY <1>1, <1>2, <2>1 DEF InLine, InOrder
<1>4. CASE b = d
  <2>0. PICK n : n = Len(queue[d])
    OBVIOUS
  <2>1. /\ n \in Nat /\ DOMAIN queue[d] = 1 .. n /\ DOMAIN queue'[d] = 1 .. n + 1
        /\ \A i \in 1 .. n : queue'[d][i] = queue[d][i]
        /\ queue'[d][n + 1] = arriving
    <3>1. DOMAIN queue'[d] = 1 .. Len(queue'[d])
      BY LenProperties DEF Inv, TypeOK
    <3> QED BY <1>4, <2>0, <3>1, PushEffect, PlacesType
  <2>2. /\ \A i \in 1 .. n : Arrival(d, i)' = Arrival(d, i)
        /\ Arrival(d, n + 1)' = enqueued_at[arriving]
    BY <1>1, <2>1 DEF Arrival
  <2>3. \A i \in 1 .. n + 1 : i \in 1 .. n \/ i = n + 1
    BY <2>1
  <2>4. ASSUME NEW i \in 1 .. n + 1, NEW j \in 1 .. n + 1, i < j
        PROVE  Arrival(d, i)' <= Arrival(d, j)'
    <3>1. i \in 1 .. n
      BY <2>1, <2>4
    <3>2. CASE j \in 1 .. n
      BY <2>1, <2>2, <2>4, <3>1, <3>2 DEF InLine, InOrder
    <3>3. CASE j = n + 1
      BY <1>1, <2>1, <2>2, <3>1, <3>3 DEF InLine
    <3> QED BY <2>3, <3>2, <3>3
  <2>5. ASSUME NEW w \in Worker, NEW i \in DOMAIN taken[w], taken[w][i].bucket = d,
               NEW j \in 1 .. n + 1
        PROVE  HandArrival(w, i) <= Arrival(d, j)'
    <3>1. CASE j \in 1 .. n
      BY <2>1, <2>2, <2>5, <3>1 DEF InLine
    <3>2. CASE j = n + 1
      BY <1>1, <2>2, <2>5, <3>2 DEF InLine
    <3> QED BY <2>3, <3>1, <3>2
  <2>6. InOrder(d)'
    BY <2>1, <2>4 DEF InOrder
  <2> QED BY <1>1, <1>2, <2>1, <2>5, <2>6 DEF InLine
<1> QED BY <1>3, <1>4

(* A worker takes players from the front of a bucket. *)
LEMMA DrainInLine ==
  ASSUME Inv, Inv', NEW d \in Bucket, InLine(d), NEW w \in Worker, NEW b \in Bucket, Drain(w, b)
  PROVE  InLine(d)'
<1>0. PICK h, m : h = Len(taken[w]) /\ m = Len(queue[b])
  OBVIOUS
<1>1. PICK n \in Nat :
        /\ n <= m
        /\ Len(taken'[w]) = h + n
        /\ \A i \in 1 .. h : taken'[w][i] = taken[w][i]
        /\ \A i \in 1 .. n : taken'[w][h + i] = [bucket |-> b, player |-> queue[b][i]]
        /\ \A v \in Worker \ {w} : taken'[v] = taken[v]
        /\ Len(queue'[b]) = m - n
        /\ \A i \in 1 .. m - n : queue'[b][i] = queue[b][n + i]
        /\ \A c \in Bucket \ {b} : queue'[c] = queue[c]
  BY <1>0, DrainEffect
<1>2. /\ h \in Nat /\ DOMAIN taken[w] = 1 .. h /\ DOMAIN taken'[w] = 1 .. h + n
      /\ m \in Nat /\ DOMAIN queue[b] = 1 .. m /\ DOMAIN queue'[b] = 1 .. m - n
  BY <1>0, <1>1, PlacesType, PlacesTypeNext
<1>3. UNCHANGED <<enqueued_at, arriving>>
  BY DEF Drain, sideVars
<1>4. ASSUME NEW v \in Worker, NEW i \in DOMAIN taken'[v]
      PROVE  \/ /\ i \in DOMAIN taken[v] /\ taken'[v][i] = taken[v][i]
                /\ HandArrival(v, i)' = HandArrival(v, i)
             \/ /\ v = w /\ taken'[v][i].bucket = b
                /\ \E k \in 1 .. n : i = h + k /\ HandArrival(v, i)' = Arrival(b, k)
  <2>1. CASE v # w \/ i \in 1 .. h
    BY <1>1, <1>2, <1>3, <2>1 DEF HandArrival
  <2>2. CASE v = w /\ i \notin 1 .. h
    <3>1. i - h \in 1 .. n /\ i = h + (i - h)
      BY <1>2, <2>2
    <3>2. taken'[v][i] = [bucket |-> b, player |-> queue[b][i - h]]
      BY <1>1, <2>2, <3>1
    <3>3. HandArrival(v, i)' = Arrival(b, i - h)
      BY <1>3, <3>2 DEF HandArrival, Arrival
    <3> QED BY <2>2, <3>1, <3>2, <3>3
  <2> QED BY <2>1, <2>2
<1>5. ASSUME NEW i \in DOMAIN queue'[d]
      PROVE  \E k \in DOMAIN queue[d] :
               /\ Arrival(d, i)' = Arrival(d, k)
               /\ b = d => k = n + i
               /\ b # d => k = i
  <2>1. CASE b # d
    BY <1>1, <1>3, <2>1 DEF Arrival
  <2>2. CASE b = d
    <3>1. n + i \in 1 .. m /\ i \in 1 .. m - n
      BY <1>1, <1>2, <2>2
    <3>2. Arrival(d, i)' = Arrival(d, n + i)
      BY <1>1, <1>3, <2>2, <3>1 DEF Arrival
    <3> QED BY <1>2, <2>2, <3>1, <3>2
  <2> QED BY <2>1, <2>2
<1>6. DOMAIN queue[d] \subseteq Nat /\ DOMAIN queue'[d] \subseteq Nat
  BY PlacesType, PlacesTypeNext
<1>7. InOrder(d)'
  <2> SUFFICES ASSUME NEW i \in DOMAIN queue'[d], NEW j \in DOMAIN queue'[d], i < j
               PROVE  Arrival(d, i)' <= Arrival(d, j)'
    BY DEF InOrder
  <2>1. PICK k \in DOMAIN queue[d], l \in DOMAIN queue[d] :
          k < l /\ Arrival(d, i)' = Arrival(d, k) /\ Arrival(d, j)' = Arrival(d, l)
    BY <1>5, <1>6
  <2> QED BY <2>1 DEF InLine, InOrder
<1>8. ASSUME NEW v \in Worker, NEW i \in DOMAIN taken'[v], NEW j \in DOMAIN taken'[v], i < j,
             taken'[v][i].bucket = d, taken'[v][j].bucket = d
      PROVE  HandArrival(v, i)' <= HandArrival(v, j)'
  <2>1. CASE /\ j \in DOMAIN taken[v] /\ taken'[v][j] = taken[v][j]
             /\ HandArrival(v, j)' = HandArrival(v, j)
    <3>1. i \in DOMAIN taken[v]
      <4>1. v = w => i \in 1 .. h
        BY <1>2, <1>8, <2>1
      <4> QED BY <1>1, <1>2, <4>1
    <3>2. taken'[v][i] = taken[v][i]
      BY <1>1, <1>2, <3>1
    <3>3. HandArrival(v, i)' = HandArrival(v, i)
      BY <1>3, <3>2 DEF HandArrival
    <3> QED BY <1>8, <2>1, <3>1, <3>2, <3>3 DEF InLine
  <2>2. CASE /\ v = w /\ taken'[v][j].bucket = b
             /\ \E k \in 1 .. n : j = h + k /\ HandArrival(v, j)' = Arrival(b, k)
    <3>0. b = d
      BY <1>8, <2>2
    <3>1. PICK k \in 1 .. n : j = h + k /\ HandArrival(v, j)' = Arrival(d, k)
      BY <2>2, <3>0
    <3>2. k \in DOMAIN queue[d]
      BY <1>1, <1>2, <3>0
    <3>3. CASE /\ i \in DOMAIN taken[v] /\ taken'[v][i] = taken[v][i]
               /\ HandArrival(v, i)' = HandArrival(v, i)
      BY <1>8, <3>1, <3>2, <3>3 DEF InLine
    <3>4. ASSUME NEW l \in 1 .. n, i = h + l, HandArrival(v, i)' = Arrival(b, l)
          PROVE  HandArrival(v, i)' <= HandArrival(v, j)'
      <4>1. l \in DOMAIN queue[d] /\ l < k
        BY <1>1, <1>2, <1>8, <3>0, <3>1, <3>4
      <4> QED BY <3>0, <3>1, <3>2, <3>4, <4>1 DEF InLine, InOrder
    <3> QED BY <1>4, <3>3, <3>4
  <2> QED BY <1>4, <2>1, <2>2
<1>9. ASSUME NEW v \in Worker, NEW i \in DOMAIN taken'[v], taken'[v][i].bucket = d,
             NEW j \in DOMAIN queue'[d]
      PROVE  HandArrival(v, i)' <= Arrival(d, j)'
  <2>1. PICK k \in DOMAIN queue[d] : /\ Arrival(d, j)' = Arrival(d, k)
                                     /\ b = d => k = n + j
    BY <1>5
  <2>2. CASE /\ i \in DOMAIN taken[v] /\ taken'[v][i] = taken[v][i]
             /\ HandArrival(v, i)' = HandArrival(v, i)
    BY <1>9, <2>1, <2>2 DEF InLine
  <2>3. ASSUME NEW l \in 1 .. n, b = d, HandArrival(v, i)' = Arrival(b, l)
        PROVE  HandArrival(v, i)' <= Arrival(d, j)'
    <3>1. l \in DOMAIN queue[d] /\ l < k
      <4>1. l \in 1 .. m /\ j \in 1 .. m - n
        BY <1>1, <1>2, <2>3
      <4> QED BY <1>2, <2>1, <2>3, <4>1
    <3> QED BY <2>1, <2>3, <3>1 DEF InLine, InOrder
  <2> QED BY <1>4, <1>9, <2>2, <2>3
<1>10. ASSUME arriving # None
       PROVE  /\ \A i \in DOMAIN queue'[d] : Arrival(d, i)' <= enqueued_at[arriving]
              /\ \A v \in Worker : \A i \in DOMAIN taken'[v] :
                   taken'[v][i].bucket = d => HandArrival(v, i)' <= enqueued_at[arriving]
  <2>1. /\ \A i \in DOMAIN queue[d] : Arrival(d, i) <= enqueued_at[arriving]
        /\ \A v \in Worker : \A i \in DOMAIN taken[v] :
             taken[v][i].bucket = d => HandArrival(v, i) <= enqueued_at[arriving]
    BY <1>10 DEF InLine
  <2>2. b = d => \A k \in 1 .. n : Arrival(b, k) <= enqueued_at[arriving]
    BY <1>1, <1>2, <2>1
  <2>3. \A i \in DOMAIN queue'[d] : Arrival(d, i)' <= enqueued_at[arriving]
    BY <1>5, <2>1
  <2>4. ASSUME NEW v \in Worker, NEW i \in DOMAIN taken'[v], taken'[v][i].bucket = d
        PROVE  HandArrival(v, i)' <= enqueued_at[arriving]
    BY <1>4, <2>1, <2>2, <2>4
  <2> QED BY <2>3, <2>4
<1> QED
  BY <1>3, <1>7, <1>8, <1>9, <1>10 DEF InLine

(* The player a worker took last goes back to the front: in bucket d, when *)
(* nobody else has players of it in hand, only those that this worker      *)
(* still has came earlier.                                                 *)
LEMMA PutBackInLine ==
  ASSUME Inv, Inv', AtHome, NEW d \in Bucket, Unshared(d), InLine(d),
         NEW w \in Worker, NEW b \in Bucket, PutBack(w, b)
  PROVE  InLine(d)'
<1>0. PICK n, m : n = Len(taken[w]) /\ m = Len(queue[b])
  OBVIOUS
<1>1. /\ n \in Nat \ {0}
      /\ b = taken[w][n].bucket \/ b = Home(taken[w][n].player)
      /\ Len(taken'[w]) = n - 1
      /\ \A i \in 1 .. n - 1 : taken'[w][i] = taken[w][i]
      /\ \A v \in Worker \ {w} : taken'[v] = taken[v]
      /\ Len(queue'[b]) = m + 1
      /\ queue'[b][1] = taken[w][n].player
      /\ \A i \in 1 .. m : queue'[b][i + 1] = queue[b][i]
      /\ \A c \in Bucket \ {b} : queue'[c] = queue[c]
  BY <1>0, PutBackEffect
<1>2. /\ DOMAIN taken[w] = 1 .. n /\ DOMAIN taken'[w] = 1 .. n - 1
      /\ m \in Nat /\ DOMAIN queue[b] = 1 .. m /\ DOMAIN queue'[b] = 1 .. m + 1
  BY <1>0, <1>1, PlacesType, PlacesTypeNext
<1>3. UNCHANGED <<enqueued_at, arriving>>
  BY DEF PutBack, sideVars
<1>4. n \in DOMAIN taken[w] /\ taken[w][n].bucket = b
  BY <1>1, <1>2 DEF AtHome
<1>5. ASSUME NEW v \in Worker, NEW i \in DOMAIN taken'[v]
      PROVE  /\ i \in DOMAIN taken[v] /\ taken'[v][i] = taken[v][i]
             /\ HandArrival(v, i)' = HandArrival(v, i)
             /\ v = w => i < n
  <2>1. i \in DOMAIN taken[v] /\ taken'[v][i] = taken[v][i] /\ (v = w => i < n)
    BY <1>1, <1>2
  <2> QED BY <1>3, <2>1 DEF HandArrival
(* Where a player of bucket d was, if it is not the one put back. *)
<1> DEFINE Back(i) == b = d /\ i = 1
           Old(i)  == IF b = d THEN i - 1 ELSE i
<1>6. ASSUME NEW i \in DOMAIN queue'[d]
      PROVE  /\ Back(i) => Arrival(d, i)' = HandArrival(w, n)
             /\ ~ Back(i) => Old(i) \in DOMAIN queue[d] /\ Arrival(d, i)' = Arrival(d, Old(i))
  <2>1. CASE b # d
    BY <1>1, <1>3, <2>1 DEF Arrival
  <2>2. CASE b = d /\ i = 1
    BY <1>1, <1>3, <2>2 DEF Arrival, HandArrival
  <2>3. CASE b = d /\ i # 1
    <3>1. i - 1 \in 1 .. m /\ i = (i - 1) + 1
      BY <1>2, <2>3
    <3>2. Arrival(d, i)' = Arrival(d, i - 1)
      BY <1>1, <1>3, <2>3, <3>1 DEF Arrival
    <3> QED BY <1>2, <2>3, <3>1, <3>2
  <2> QED BY <2>1, <2>2, <2>3
<1>7. DOMAIN queue[d] \subseteq Nat \ {0} /\ DOMAIN queue'[d] \subseteq Nat \ {0}
  BY PlacesType, PlacesTypeNext
<1>8. InOrder(d)'
  <2>0. SUFFICES ASSUME NEW i \in DOMAIN queue'[d], NEW j \in DOMAIN queue'[d], i < j
                 PROVE  Arrival(d, i)' <= Arrival(d, j)'
    BY DEF InOrder
  <2>1. i \in Nat \ {0} /\ j \in Nat \ {0} /\ ~ Back(j)
    BY <1>7, <2>0
  <2>2. Old(j) \in DOMAIN queue[d] /\ Arrival(d, j)' = Arrival(d, Old(j))
    BY <1>6, <2>1
  <2>3. CASE Back(i)
    <3>1. Arrival(d, i)' = HandArrival(w, n)
      BY <1>6, <2>3
    <3>2. HandArrival(w, n) <= Arrival(d, Old(j))
      BY <1>4, <2>2, <2>3 DEF InLine
    <3> QED BY <2>2, <3>1, <3>2
  <2>4. CASE ~ Back(i)
    <3>1. Old(i) \in DOMAIN queue[d] /\ Arrival(d, i)' = Arrival(d, Old(i))
      BY <1>6, <2>4
    <3>2. Old(i) < Old(j)
      BY <2>0, <2>1
    <3>3. Arrival(d, Old(i)) <= Arrival(d, Old(j))
      BY <2>2, <3>1, <3>2 DEF InLine, InOrder
    <3> QED BY <2>2, <3>1, <3>3
  <2> QED BY <2>3, <2>4
<1>9. ASSUME NEW v \in Worker, NEW i \in DOMAIN taken'[v], taken'[v][i].bucket = d
      PROVE  /\ \A j \in DOMAIN taken'[v] : i < j /\ taken'[v][j].bucket = d
                   => HandArrival(v, i)' <= HandArrival(v, j)'
             /\ \A j \in DOMAIN queue'[d] : HandArrival(v, i)' <= Arrival(d, j)'
             /\ arriving # None => HandArrival(v, i)' <= enqueued_at[arriving]
  <2>1. i \in DOMAIN taken[v] /\ taken[v][i].bucket = d /\ HandArrival(v, i)' = HandArrival(v, i)
    BY <1>5, <1>9
  <2>2. ASSUME NEW j \in DOMAIN queue'[d], Back(j), Arrival(d, j)' = HandArrival(w, n)
        PROVE  HandArrival(v, i)' <= Arrival(d, j)'
    <3>1. v = w /\ i < n
      BY <1>4, <1>5, <2>1, <2>2 DEF Unshared
    <3> QED BY <1>4, <2>1, <2>2, <3>1 DEF InLine
  <2>3. ASSUME NEW j \in DOMAIN queue'[d]
        PROVE  HandArrival(v, i)' <= Arrival(d, j)'
    <3>1. \A k \in DOMAIN queue[d] : HandArrival(v, i) <= Arrival(d, k)
      BY <2>1 DEF InLine
    <3>2. CASE Back(j)
      BY <1>6, <2>2, <3>2
    <3>3. CASE ~ Back(j)
      BY <1>6, <2>1, <3>1, <3>3
    <3> QED BY <3>2, <3>3
  <2>4. \A j \in DOMAIN taken'[v] : i < j /\ taken'[v][j].bucket = d
          => HandArrival(v, i)' <= HandArrival(v, j)'
    BY <1>5, <2>1 DEF InLine
  <2>5. arriving # None => HandArrival(v, i)' <= enqueued_at[arriving]
    BY <2>1 DEF InLine
  <2> QED BY <2>3, <2>4, <2>5
<1>10. ASSUME arriving # None, NEW i \in DOMAIN queue'[d]
       PROVE  Arrival(d, i)' <= enqueued_at[arriving]
  <2>1. \A k \in DOMAIN queue[d] : Arrival(d, k) <= enqueued_at[arriving]
    BY <1>10 DEF InLine
  <2>2. b = d => HandArrival(w, n) <= enqueued_at[arriving]
    BY <1>4, <1>10 DEF InLine
  <2>3. CASE Back(i)
    BY <1>6, <2>2, <2>3
  <2>4. CASE ~ Back(i)
    BY <1>6, <2>1, <2>4
  <2> QED BY <2>3, <2>4
<1> QED
  BY <1>3, <1>8, <1>9, <1>10 DEF InLine

(* Every step keeps in line a bucket that is not shared. *)
LEMMA NextInLine ==
  ASSUME Inv, Inv', AtHome, Past, NEW d \in Bucket, Unshared(d), InLine(d), [Next]_vars
  PROVE  InLine(d)'
<1>1. ASSUME NEW w \in Worker, FormMatch(w)
      PROVE  InLine(d)'
  <2>1. UNCHANGED <<queue, enqueued_at, arriving>>
    BY <1>1 DEF FormMatch, poolVars, sideVars
  <2>2. \A v \in Worker : v # w => taken'[v] = taken[v]
    BY <1>1 DEF FormMatch, Inv, TypeOK
  <2>3. taken'[w] = <<>>
    BY <1>1 DEF FormMatch, Inv, TypeOK
  <2>4. \A v \in Worker : DOMAIN taken'[v] # {} => taken'[v] = taken[v]
    BY <2>2, <2>3
  <2> QED BY <2>1, <2>4 DEF InLine, InOrder, Arrival, HandArrival
<1>2. CASE UNCHANGED <<queue, taken, formed, arriving, enqueued_at>>
  BY <1>2 DEF InLine, InOrder, Arrival, HandArrival
<1> QED
  BY <1>1, <1>2, ReceiveInLine, PushInLine, DrainInLine, PutBackInLine, Movers

(* In a pool that starts empty everybody is in line. *)
LEMMA InitInLine == Init => Past /\ \A d \in Bucket : InLine(d)
<1> SUFFICES ASSUME Init PROVE Past /\ \A d \in Bucket : InLine(d)
  OBVIOUS
<1>1. /\ \A b \in Bucket : DOMAIN queue[b] = {}
      /\ \A w \in Worker : DOMAIN taken[w] = {}
      /\ arriving = None /\ \A p \in Player : enqueued_at[p] = None
  BY DEF Init
<1> QED
  BY <1>1 DEF Past, InLine, InOrder

(* matcher.rs: "the oldest player is always at the front".  For any number *)
(* of match threads, a bucket is in the order of arrival as long as no two *)
(* of them have players of it in hand at once, whatever they take, put     *)
(* back or leave and whoever arrives meanwhile.  Two that put players of   *)
(* one bucket back in turn are the only way out of order, and they do      *)
(* leave it: MatchPoolFifo.cfg.                                            *)
THEOREM OldestInFront ==
  ASSUME NEW d \in Bucket
  PROVE  Spec /\ []Unshared(d) => []InOrder(d)
<1>1. Inv /\ Inv' /\ AtHome /\ Past /\ Unshared(d) /\ InLine(d) /\ [Next]_vars => InLine(d)'
  BY NextInLine
<1>2. Init => Past /\ InLine(d)
  BY InitInLine
<1>3. InLine(d) => InOrder(d)
  BY DEF InLine
<1> QED
  BY <1>1, <1>2, <1>3, NextPast, InvHolds, Homing, PTL DEF Spec

NoneShared      == \A b \in Bucket : Unshared(b)
EverybodyInLine == \A b \in Bucket : InLine(b)

(* While no bucket is shared, Fifo holds; a single match thread shares     *)
(* none.                                                                   *)
THEOREM OrderKept == Spec /\ []NoneShared => []Fifo
<1>1. ASSUME Inv, Inv', AtHome, Past, NoneShared, EverybodyInLine, [Next]_vars
      PROVE  EverybodyInLine'
  <2>1. ASSUME NEW d \in Bucket
        PROVE  InLine(d)'
    BY <1>1, NextInLine DEF NoneShared, EverybodyInLine
  <2> QED BY <2>1 DEF EverybodyInLine
<1>2. Init => Past /\ EverybodyInLine
  BY InitInLine DEF EverybodyInLine
<1>3. EverybodyInLine => Fifo
  BY DEF EverybodyInLine, InLine, InOrder, Arrival, Fifo
<1> QED
  BY <1>1, <1>2, <1>3, NextPast, InvHolds, Homing, PTL DEF Spec
=============================================================================
