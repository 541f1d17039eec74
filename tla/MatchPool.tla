----------------------------- MODULE MatchPool -----------------------------
(***************************************************************************)
(* The in-memory pool of src/src/matcher.rs and the threads that share it: *)
(* the ingestion thread of main.rs, which enqueues, the match threads,     *)
(* which claim windows of buckets from the carousel, harvest a group, and  *)
(* form a match or put the group back, and the snapshotter, which copies   *)
(* one bucket after the other.                                             *)
(*                                                                         *)
(* Every bucket is behind its own lock.  A thread is inside a bucket from  *)
(* the step that takes the lock to the step that does the work under it    *)
(* and lets go; between two such steps any other thread may run.  Writing  *)
(* the match out is modelled in WriteBehind: here it is formed.  What a    *)
(* snapshot holds is modelled in Recovery: here the snapshotter is one     *)
(* more thread that asks for the locks.                                    *)
(***************************************************************************)
EXTENDS TeamSplit

CONSTANTS
  Worker,       \* the match threads
  Ingestion,    \* the ingestion thread
  Snapshotter,  \* the snapshotter thread
  None,         \* no thread, bucket or player
  Player,       \* queue entries; a user who queues twice is two of them
  RatingOf,     \* the rating each entry carries
  NumBuckets,   \* NUM_BUCKETS
  BucketWidth,  \* BUCKET_WIDTH
  Stride,       \* STRIDE, the buckets a ticket claims
  Interval,     \* SNAPSHOT_INTERVAL_SECS, in ticks of the clock
  LastArrival,  \* bound: no player arrives after this instant
  MaxClock,     \* bound: the clock stops here
  CounterRange  \* the values of an AtomicU64, 2^64 in the code

ASSUME PoolAssumption ==
  /\ NumBuckets \in Nat \ {0} /\ BucketWidth \in Nat \ {0}
  /\ Stride \in 1 .. NumBuckets
  /\ RatingOf \in [Player -> Nat]
  /\ Ingestion # Snapshotter /\ {Ingestion, Snapshotter} \cap Worker = {}
  /\ None \notin Worker \cup {Ingestion, Snapshotter} \cup Player \cup Nat
  /\ Interval \in Nat \ {0}
  /\ LastArrival \in Nat /\ MaxClock \in Nat
  /\ CounterRange \in Nat \ {0}

Thread == Worker \cup {Ingestion, Snapshotter}
Bucket == 0 .. NumBuckets - 1

(* A player taken from the pool, with the bucket it was popped from. *)
Held == [bucket : Bucket, player : Player]

VARIABLES
  queue,        \* the FIFO of each bucket, oldest first
  holder,       \* the thread that holds each bucket's lock
  inside,       \* the bucket whose critical section a thread is in
  pc,           \* where each thread is in its loop
  arriving,     \* the player the ingestion thread is enqueueing
  enqueued_at,  \* when each player arrived
  copying,      \* the bucket the snapshotter copies next
  next_pass,    \* when the snapshotter's sleep ends
  clock,
  ticket,       \* the shared counter, modulo NumBuckets: no more of it is used
  start,        \* the first bucket of a worker's window
  todo,         \* the buckets a worker has still to visit in this pass
  approx,       \* the density count, cut off at GroupSize
  anchor,       \* the bucket whose front player was the oldest
  oldest,       \* when that player arrived
  taken,        \* the players a worker has in hand
  formed,       \* the groups that became matches
  waiting       \* the lock-free depth counter of the metrics

poolVars   == <<queue, holder, inside>>
sideVars   == <<arriving, enqueued_at, copying, next_pass>>
localVars  == <<start, todo, approx, anchor, oldest, taken>>
vars == <<poolVars, pc, sideVars, clock, ticket, localVars, formed, waiting>>

-----------------------------------------------------------------------------
BucketIndex(rating) == Min({rating \div BucketWidth, NumBuckets - 1})
Home(p) == BucketIndex(RatingOf[p])

Window(s)  == {(s + k) % NumBuckets : k \in 0 .. Stride - 1}
(* Mutant of Borders: the edge of the top window wraps to the bottom. *)
BordersWrap(s) == {b \in Bucket : \E step \in 1 .. 2 : b = (Max(Window(s)) + step) % NumBuckets}
Borders(s) == {b \in Bucket : \E step \in 1 .. 2 : b = Max(Window(s)) + step}
Reach(s)   == Window(s) \cup Borders(s)

(* The density check and the peek visit the buckets in window order, the   *)
(* borders last; the harvest starts with the anchor and then ascends.      *)
NextToScan(w, b) ==
  /\ b \in todo[w]
  /\ \A c \in todo[w] : (b - start[w]) % NumBuckets <= (c - start[w]) % NumBuckets

(* Mutant of NextToDrain: plain ascending order, the anchor in its turn. *)
NextToDrainAscending(w, b) == b \in todo[w] /\ \A c \in todo[w] : b <= c

NextToDrain(w, b) ==
  /\ b \in todo[w]
  /\ anchor[w] \in todo[w] => b = anchor[w]
  /\ anchor[w] \notin todo[w] => \A c \in todo[w] : b <= c

InHand(w) == taken[w][Len(taken[w])]

(* Mutant of Wants: rollback puts everybody in the anchor's bucket. *)
WantsAnchor(t, b) ==
  \/ pc[t] = "enqueue" /\ b = Home(arriving)
  \/ pc[t] = "copy" /\ b = copying
  \/ pc[t] \in {"density", "peek"} /\ NextToScan(t, b)
  \/ pc[t] = "harvest" /\ Len(taken[t]) < GroupSize /\ NextToDrain(t, b)
  \/ pc[t] = "rollback" /\ taken[t] # <<>> /\ b = anchor[t]
  \/ pc[t] = "return" /\ taken[t] # <<>> /\ b = Home(InHand(t).player)

(* The bucket whose lock thread t asks for next. *)
Wants(t, b) ==
  \/ pc[t] = "enqueue" /\ b = Home(arriving)
  \/ pc[t] = "copy" /\ b = copying
  \/ pc[t] \in {"density", "peek"} /\ NextToScan(t, b)
  \/ pc[t] = "harvest" /\ Len(taken[t]) < GroupSize /\ NextToDrain(t, b)
  \/ pc[t] = "rollback" /\ taken[t] # <<>> /\ b = InHand(t).bucket
  \/ pc[t] = "return" /\ taken[t] # <<>> /\ b = Home(InHand(t).player)

IsBorder(w, b) == pc[w] = "harvest" /\ b \notin Window(start[w])

Release(t, b) ==
  /\ holder' = [holder EXCEPT ![b] = None]
  /\ inside' = [inside EXCEPT ![t] = None]

GoTo(t, label) == pc' = [pc EXCEPT ![t] = label]

(* The next iteration of the loop starts with fresh locals. *)
EndRound(w) ==
  /\ GoTo(w, "claim")
  /\ start' = [start EXCEPT ![w] = 0]
  /\ todo' = [todo EXCEPT ![w] = {}]
  /\ approx' = [approx EXCEPT ![w] = 0]
  /\ anchor' = [anchor EXCEPT ![w] = None]
  /\ oldest' = [oldest EXCEPT ![w] = 0]

Init ==
  /\ queue = [b \in Bucket |-> <<>>]
  /\ holder = [b \in Bucket |-> None]
  /\ inside = [t \in Thread |-> None]
  /\ pc = [t \in Thread |-> CASE t = Ingestion -> "read"
                           [] t = Snapshotter -> "sleep"
                           [] OTHER -> "claim"]
  /\ arriving = None
  /\ enqueued_at = [p \in Player |-> None]
  /\ copying = 0 /\ next_pass = Interval
  /\ clock = 0
  /\ ticket = 0
  /\ start = [w \in Worker |-> 0]
  /\ todo = [w \in Worker |-> {}]
  /\ approx = [w \in Worker |-> 0]
  /\ anchor = [w \in Worker |-> None]
  /\ oldest = [w \in Worker |-> 0]
  /\ taken = [w \in Worker |-> <<>>]
  /\ formed = {}
  /\ waiting = 0
-----------------------------------------------------------------------------
(* Locks.  A blocking lock() waits until the lock is free; the borders are *)
(* taken with try_lock(), which gives up the harvest when they are busy.   *)

Lock(t, b) ==
  /\ inside[t] = None
  /\ Wants(t, b)
  /\ holder[b] = None
  /\ holder' = [holder EXCEPT ![b] = t]
  /\ inside' = [inside EXCEPT ![t] = b]
  /\ UNCHANGED <<queue, pc, sideVars, clock, ticket, localVars, formed, waiting>>

(* Mutant of TryLockFails: the harvest returns without the rollback. *)
TryLockFailsNoRollback(w, b) ==
  /\ inside[w] = None
  /\ Wants(w, b)
  /\ IsBorder(w, b)
  /\ holder[b] # None
  /\ taken' = [taken EXCEPT ![w] = <<>>]
  /\ EndRound(w)
  /\ UNCHANGED <<poolVars, sideVars, clock, ticket, formed, waiting>>

TryLockFails(w, b) ==
  /\ inside[w] = None
  /\ Wants(w, b)
  /\ IsBorder(w, b)
  /\ holder[b] # None
  /\ GoTo(w, "rollback")
  /\ UNCHANGED <<poolVars, sideVars, clock, ticket, localVars, formed, waiting>>
-----------------------------------------------------------------------------
(* The ingestion thread: read an entry, push it, count it. *)

Receive(p) ==
  /\ pc[Ingestion] = "read"
  /\ enqueued_at[p] = None
  /\ clock <= LastArrival
  /\ arriving' = p
  /\ enqueued_at' = [enqueued_at EXCEPT ![p] = clock]
  /\ GoTo(Ingestion, "enqueue")
  /\ UNCHANGED <<poolVars, copying, next_pass, clock, ticket, localVars, formed, waiting>>

Push(b) ==
  /\ pc[Ingestion] = "enqueue"
  /\ inside[Ingestion] = b
  /\ queue' = [queue EXCEPT ![b] = Append(@, arriving)]
  /\ Release(Ingestion, b)
  /\ arriving' = None
  /\ GoTo(Ingestion, "count")
  /\ UNCHANGED <<enqueued_at, copying, next_pass, clock, ticket, localVars, formed, waiting>>

CountArrival ==
  /\ pc[Ingestion] = "count"
  /\ waiting' = (waiting + 1) % CounterRange
  /\ GoTo(Ingestion, "read")
  /\ UNCHANGED <<poolVars, sideVars, clock, ticket, localVars, formed>>
-----------------------------------------------------------------------------
(* The snapshotter: sleep for the interval, then copy bucket by bucket.    *)

BeginPass ==
  /\ pc[Snapshotter] = "sleep"
  /\ next_pass <= clock
  /\ GoTo(Snapshotter, "copy")
  /\ UNCHANGED <<poolVars, sideVars, clock, ticket, localVars, formed, waiting>>

CopyBucket(b) ==
  /\ pc[Snapshotter] = "copy"
  /\ inside[Snapshotter] = b
  /\ Release(Snapshotter, b)
  /\ copying' = (b + 1) % NumBuckets
  /\ IF b < NumBuckets - 1
       THEN UNCHANGED <<pc, next_pass>>
       ELSE GoTo(Snapshotter, "sleep") /\ next_pass' = clock + Interval
  /\ UNCHANGED <<queue, arriving, enqueued_at, clock, ticket, localVars, formed, waiting>>
-----------------------------------------------------------------------------
(* run_worker: one round of a match thread. *)

Claim(w) ==
  /\ pc[w] = "claim"
  /\ ticket' = (ticket + Stride) % NumBuckets
  /\ start' = [start EXCEPT ![w] = ticket]
  /\ todo' = [todo EXCEPT ![w] = Reach(ticket)]
  /\ GoTo(w, "density")
  /\ UNCHANGED <<poolVars, sideVars, clock, approx, anchor, oldest, taken, formed, waiting>>


CountBucket(w, b) ==
  /\ pc[w] = "density"
  /\ inside[w] = b
  /\ approx' = [approx EXCEPT ![w] = Min({@ + Len(queue[b]), GroupSize})]
  /\ todo' = [todo EXCEPT ![w] = @ \ {b}]
  /\ Release(w, b)
  /\ UNCHANGED <<queue, pc, sideVars, clock, ticket, start, anchor, oldest, taken,
                 formed, waiting>>

SkipSparse(w) ==
  /\ pc[w] = "density"
  /\ todo[w] = {}
  /\ approx[w] < GroupSize
  /\ EndRound(w)
  /\ UNCHANGED <<poolVars, sideVars, clock, ticket, taken, formed, waiting>>

BeginPeek(w) ==
  /\ pc[w] = "density"
  /\ todo[w] = {}
  /\ approx[w] >= GroupSize
  /\ todo' = [todo EXCEPT ![w] = Window(start[w])]
  /\ GoTo(w, "peek")
  /\ UNCHANGED <<poolVars, sideVars, clock, ticket, start, approx, anchor, oldest, taken,
                 formed, waiting>>

(* The first bucket with the oldest front becomes the anchor. *)
IsOlder(w, b) ==
  /\ queue[b] # <<>>
  /\ anchor[w] = None \/ enqueued_at[Head(queue[b])] < oldest[w]

Peek(w, b) ==
  /\ pc[w] = "peek"
  /\ inside[w] = b
  /\ anchor' = [anchor EXCEPT ![w] = IF IsOlder(w, b) THEN b ELSE @]
  /\ oldest' = [oldest EXCEPT ![w] = IF IsOlder(w, b) THEN enqueued_at[Head(queue[b])] ELSE @]
  /\ todo' = [todo EXCEPT ![w] = @ \ {b}]
  /\ Release(w, b)
  /\ UNCHANGED <<queue, pc, sideVars, clock, ticket, start, approx, taken, formed, waiting>>

(* `let anchor_bucket = anchor_bucket?;` *)
FindNobody(w) ==
  /\ pc[w] = "peek"
  /\ todo[w] = {}
  /\ anchor[w] = None
  /\ EndRound(w)
  /\ UNCHANGED <<poolVars, sideVars, clock, ticket, taken, formed, waiting>>

BeginHarvest(w) ==
  /\ pc[w] = "peek"
  /\ todo[w] = {}
  /\ anchor[w] # None
  /\ todo' = [todo EXCEPT ![w] = Reach(start[w])]
  /\ GoTo(w, "harvest")
  /\ UNCHANGED <<poolVars, sideVars, clock, ticket, start, approx, anchor, oldest, taken,
                 formed, waiting>>

(* Mutant of Drain: front() where the code has pop_front(). *)
DrainKeeps(w, b) ==
  LET n == Min({GroupSize - Len(taken[w]), Len(queue[b])})
  IN  /\ pc[w] = "harvest"
      /\ inside[w] = b
      /\ taken' = [taken EXCEPT ![w] =
                     @ \o [i \in 1 .. n |-> [bucket |-> b, player |-> queue[b][i]]]]
      /\ todo' = [todo EXCEPT ![w] = @ \ {b}]
      /\ Release(w, b)
      /\ UNCHANGED <<queue, pc, sideVars, clock, ticket, start, approx, anchor, oldest,
                     formed, waiting>>

(* Pop from the front of bucket b until the group is full or b is empty. *)
Drain(w, b) ==
  LET n == Min({GroupSize - Len(taken[w]), Len(queue[b])})
  IN  /\ pc[w] = "harvest"
      /\ inside[w] = b
      /\ taken' = [taken EXCEPT ![w] =
                     @ \o [i \in 1 .. n |-> [bucket |-> b, player |-> queue[b][i]]]]
      /\ queue' = [queue EXCEPT ![b] = SubSeq(@, n + 1, Len(@))]
      /\ todo' = [todo EXCEPT ![w] = @ \ {b}]
      /\ Release(w, b)
      /\ UNCHANGED <<pc, sideVars, clock, ticket, start, approx, anchor, oldest, formed, waiting>>

EndHarvest(w) ==
  /\ pc[w] = "harvest"
  /\ inside[w] = None
  /\ \/ /\ Len(taken[w]) = GroupSize
        /\ GoTo(w, "gate")
     \/ /\ Len(taken[w]) < GroupSize
        /\ todo[w] = {}
        /\ GoTo(w, "rollback")
  /\ UNCHANGED <<poolVars, sideVars, clock, ticket, localVars, formed, waiting>>

(* Mutant of PutBack: without rev(), the player taken first goes back first. *)
PutBackForward(w, b) ==
  /\ pc[w] \in {"rollback", "return"}
  /\ inside[w] = b
  /\ queue' = [queue EXCEPT ![b] = <<Head(taken[w]).player>> \o @]
  /\ taken' = [taken EXCEPT ![w] = Tail(@)]
  /\ Release(w, b)
  /\ UNCHANGED <<pc, sideVars, clock, ticket, start, todo, approx, anchor, oldest,
                 formed, waiting>>

(* One iteration of rollback and of return_group: the player taken last    *)
(* goes back first, to the front of its bucket.                            *)
PutBack(w, b) ==
  /\ pc[w] \in {"rollback", "return"}
  /\ inside[w] = b
  /\ queue' = [queue EXCEPT ![b] = <<InHand(w).player>> \o @]
  /\ taken' = [taken EXCEPT ![w] = SubSeq(@, 1, Len(@) - 1)]
  /\ Release(w, b)
  /\ UNCHANGED <<pc, sideVars, clock, ticket, start, todo, approx, anchor, oldest,
                 formed, waiting>>

EndPutBack(w) ==
  /\ pc[w] \in {"rollback", "return"}
  /\ taken[w] = <<>>
  /\ EndRound(w)
  /\ UNCHANGED <<poolVars, sideVars, clock, ticket, taken, formed, waiting>>

(* The split of the group, and how long its longest waiting player waited. *)
Group(w) == [i \in Slot |-> taken[w][i].player]
Gap(g) ==
  LET lobby == [i \in Slot |-> RatingOf[g[i]]]
  IN  Spread(lobby, BestMask(lobby))
AnchorWait(g) == Max({clock - enqueued_at[g[i]] : i \in Slot})
FairAfter(g, wait) == Gap(g) <= MaxTeamGap(wait)
(* Mutant of Passes: the wait is rounded up. *)
PassesEarly(g) == FairAfter(g, AnchorWait(g) + 1)
Passes(g) == FairAfter(g, AnchorWait(g))

(* Mutant of FormMatch: a counter that does not wrap. *)
FormMatchSigned(w) ==
  /\ pc[w] = "gate"
  /\ Passes(Group(w))
  /\ formed' = formed \cup {Group(w)}
  /\ taken' = [taken EXCEPT ![w] = <<>>]
  /\ waiting' = waiting - GroupSize
  /\ EndRound(w)
  /\ UNCHANGED <<poolVars, sideVars, clock, ticket>>

(* Mutant of FormMatch: one team is subtracted from the depth. *)
FormMatchOneTeam(w) ==
  /\ pc[w] = "gate"
  /\ Passes(Group(w))
  /\ formed' = formed \cup {Group(w)}
  /\ taken' = [taken EXCEPT ![w] = <<>>]
  /\ waiting' = (waiting - TeamSize) % CounterRange
  /\ EndRound(w)
  /\ UNCHANGED <<poolVars, sideVars, clock, ticket>>

FormMatch(w) ==
  /\ pc[w] = "gate"
  /\ Passes(Group(w))
  /\ formed' = formed \cup {Group(w)}
  /\ taken' = [taken EXCEPT ![w] = <<>>]
  /\ waiting' = (waiting - GroupSize) % CounterRange
  /\ EndRound(w)
  /\ UNCHANGED <<poolVars, sideVars, clock, ticket>>

RefuseMatch(w) ==
  /\ pc[w] = "gate"
  /\ ~ Passes(Group(w))
  /\ GoTo(w, "return")
  /\ UNCHANGED <<poolVars, sideVars, clock, ticket, localVars, formed, waiting>>
-----------------------------------------------------------------------------
Tick ==
  /\ clock < MaxClock
  /\ clock' = clock + 1
  /\ UNCHANGED <<poolVars, pc, sideVars, ticket, localVars, formed, waiting>>

IngestionStep ==
  \/ \E p \in Player : Receive(p)
  \/ \E b \in Bucket : Lock(Ingestion, b) \/ Push(b)
  \/ CountArrival

SnapshotterStep ==
  \/ BeginPass
  \/ \E b \in Bucket : Lock(Snapshotter, b) \/ CopyBucket(b)

WorkerStep(w) ==
  \/ Claim(w) \/ SkipSparse(w) \/ BeginPeek(w) \/ FindNobody(w) \/ BeginHarvest(w)
  \/ EndHarvest(w) \/ EndPutBack(w) \/ FormMatch(w) \/ RefuseMatch(w)
  \/ \E b \in Bucket :
       \/ Lock(w, b) \/ TryLockFails(w, b)
       \/ CountBucket(w, b) \/ Peek(w, b) \/ Drain(w, b) \/ PutBack(w, b)

Next == Tick \/ IngestionStep \/ SnapshotterStep \/ \E w \in Worker : WorkerStep(w)

Spec == Init /\ [][Next]_vars

(* The operating system runs every thread, and time passes; players need   *)
(* not come.                                                               *)
Fairness ==
  /\ WF_vars(Tick)
  /\ WF_vars(IngestionStep /\ pc[Ingestion] # "read")
  /\ WF_vars(SnapshotterStep)
  /\ \A w \in Worker : WF_vars(WorkerStep(w))

FairSpec == Spec /\ Fairness
-----------------------------------------------------------------------------
Label == {"read", "enqueue", "count", "sleep", "copy", "claim", "density", "peek",
          "harvest", "gate", "rollback", "return"}

TypeOK ==
  /\ queue \in [Bucket -> Seq(Player)]
  /\ holder \in [Bucket -> Thread \cup {None}]
  /\ inside \in [Thread -> Bucket \cup {None}]
  /\ pc \in [Thread -> Label]
  /\ arriving \in Player \cup {None}
  /\ enqueued_at \in [Player -> Nat \cup {None}]
  /\ copying \in Bucket /\ next_pass \in Nat
  /\ clock \in Nat
  /\ ticket \in Bucket
  /\ start \in [Worker -> Bucket]
  /\ todo \in [Worker -> SUBSET Bucket]
  /\ approx \in [Worker -> 0 .. GroupSize]
  /\ anchor \in [Worker -> Bucket \cup {None}]
  /\ oldest \in [Worker -> Nat]
  /\ taken \in [Worker -> Seq(Held)]
  /\ formed \subseteq [Slot -> Player]
  /\ waiting \in 0 .. CounterRange - 1

Queued  == UNION {Range(queue[b]) : b \in Bucket}
Hand(w) == {taken[w][i].player : i \in DOMAIN taken[w]}
Taken   == UNION {Hand(w) : w \in Worker}
Matched == UNION {Range(g) : g \in formed}

(* Nobody is lost: whatever the threads do, each player that arrived is in *)
(* a bucket, in a worker's hand, on its way into the pool, or matched.     *)
NobodyLost ==
  {p \in Player : enqueued_at[p] # None}
    = Queued \cup Taken \cup Matched \cup ({arriving} \ {None})

(* Nobody is claimed twice: a player has one position in one of those      *)
(* places, so no two groups (and no two workers) ever share a player.      *)
NobodyTwice ==
  /\ \A b \in Bucket : IsInjective(queue[b])
  /\ \A w \in Worker : \A i, j \in DOMAIN taken[w] :
       taken[w][i].player = taken[w][j].player => i = j
  /\ \A g \in formed : IsInjective(g)
  /\ \A b, c \in Bucket : b # c => Range(queue[b]) \cap Range(queue[c]) = {}
  /\ \A v, w \in Worker : v # w => Hand(v) \cap Hand(w) = {}
  /\ \A g, h \in formed : g # h => Range(g) \cap Range(h) = {}
  /\ Queued \cap Taken = {} /\ Queued \cap Matched = {} /\ Taken \cap Matched = {}
  /\ arriving \notin Queued \cup Taken \cup Matched

(* A player is only ever in the bucket of its rating, and a player in hand *)
(* came from there: rollback (to the recorded origin) and return_group (to *)
(* the rating's bucket) put it back in the same place.                     *)
AtHome ==
  /\ \A b \in Bucket : \A i \in DOMAIN queue[b] : Home(queue[b][i]) = b
  /\ \A w \in Worker : \A i \in DOMAIN taken[w] :
       taken[w][i].bucket = Home(taken[w][i].player)

(* The depth counter of /metrics is off from the number of players waiting *)
(* by at most the one arrival not counted yet, and never drifts.           *)
DepthReconciles ==
  (waiting + (IF pc[Ingestion] = "count" THEN 1 ELSE 0)
     - Cardinality(Queued \cup Taken)) % CounterRange = 0

(* When STRIDE divides NUM_BUCKETS, as in .env.example, the players of a   *)
(* match come from STRIDE + 2 neighbouring buckets: no window wraps around *)
(* from the top ratings to the bottom ones.                                *)
NarrowGroups ==
  NumBuckets % Stride = 0 =>
    \A g \in formed : \A i, j \in Slot : Home(g[i]) - Home(g[j]) < Stride + 2

(* What matcher.rs says of the buckets: "the oldest player is always at    *)
(* the front", and a failed harvest leaves it so.                          *)
Fifo ==
  \A b \in Bucket : \A i, j \in DOMAIN queue[b] :
    i < j => enqueued_at[queue[b][i]] <= enqueued_at[queue[b][j]]

(* What matcher.rs says of the harvest: "the oldest player is always       *)
(* included".  The group at the gate has the oldest player the peek found. *)
AnchorServed ==
  \A w \in Worker : pc[w] = "gate" =>
    \E i \in Slot : enqueued_at[taken[w][i].player] = oldest[w]


(* The pool is the service README.md describes.  Harvests that take one    *)
(* bucket after the other, fail half way and are rolled back change        *)
(* nothing of it: players leave it in whole groups, each at one instant    *)
(* ("atomic eviction"), and fair for the longest wait among them.          *)
Service == INSTANCE Matchmaking WITH
  waiting <- Queued \cup Taken \cup ({arriving} \ {None}),
  since   <- enqueued_at,
  matches <- formed,
  Fair    <- FairAfter

ProvidesService == Service!Spec
=============================================================================
