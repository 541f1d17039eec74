------------------------------ MODULE Recovery ------------------------------
(***************************************************************************)
(* What survives a crash of the matchmaker, and how: the ingest stream in  *)
(* Redis (queue.rs), the ingestion thread with its cursor and the          *)
(* snapshotter (main.rs), the snapshot files (snapshot.rs), and the boot   *)
(* that restores the newest one and replays the stream behind it.          *)
(*                                                                         *)
(* An entry of the stream is its position there, which stands for its id;  *)
(* a player in the pool is the entry it came from.  The pool counts the    *)
(* copies of each entry: MatchPool has the order within the buckets, the   *)
(* locks and the steps of a harvest, all of it abstracted here to a player *)
(* being taken into a worker's hand, put back, or matched.                 *)
(***************************************************************************)
EXTENDS Integers, Sequences, FiniteSets, Functions, FiniteSetsExt

CONSTANTS
  Worker,       \* the match threads
  Latest,       \* the cursor "$"
  NumBuckets,   \* NUM_BUCKETS
  Home,         \* the bucket of the rating each entry carries
  GroupSize,    \* players in a match
  BatchSize,    \* COUNT of the ingestion thread's XREAD
  Interval,     \* SNAPSHOT_INTERVAL_SECS, in ticks
  Kept,         \* SNAPSHOTS_KEPT
  CounterRange, \* the values of an AtomicU64, 2^64 in the code
  MaxLag,       \* bound: ticks for which an entry may stay unread
  MaxEntries,   \* bound on the entries of the stream
  MaxClock,     \* bound: the clock stops here
  MaxFailures,  \* bound on the snapshot writes that fail
  MaxRestarts   \* bound on the crashes

ASSUME RecoveryAssumption ==
  /\ {NumBuckets, GroupSize, BatchSize, Interval, Kept, CounterRange} \subseteq Nat \ {0}
  /\ {MaxLag, MaxEntries, MaxClock, MaxFailures, MaxRestarts} \subseteq Nat
  /\ Home \in [1 .. MaxEntries -> 0 .. NumBuckets - 1]
  /\ Latest \notin Nat
  /\ IsFiniteSet(Worker)

Bucket == 0 .. NumBuckets - 1
Id     == 1 .. MaxEntries

(* stream_retain_ms *)
Retention == 2 * Interval

VARIABLES
  stream,    \* Redis: when each entry was added
  floor,     \* Redis: the entries up to this one have been trimmed
  files,     \* disk: the snapshots, oldest first
  up,        \* the process runs
  cursor,    \* read_cursor
  reading,   \* where the ingestion thread is: idle, asked Redis, or placing a batch
  last,      \* the position its XREAD reads after, Latest when it is idle
  batch,     \* the entries of the reply that are not yet in the pool
  newest,    \* the last one put there
  uncounted, \* 1 while that one is in the pool and not yet in the depth counter
  pool,      \* how many copies of an entry wait in their bucket
  hand,      \* the players a worker has taken
  waiting,   \* the depth counter of the metrics
  step,      \* where the snapshotter is
  copied,    \* how many buckets it has copied
  draft,     \* the snapshot it is taking
  due,       \* when it wakes up
  clock,
  failures,
  restarts

redisVars == <<stream, floor>>
readVars  == <<cursor, reading, last, batch, newest, uncounted>>
poolVars  == <<pool, hand, waiting>>
snapVars  == <<step, copied, draft, due>>
faultVars == <<failures, restarts>>
vars == <<redisVars, files, up, readVars, poolVars, snapVars, clock, faultVars>>

-----------------------------------------------------------------------------
Nobody == [i \in Id |-> 0]
NoDraft == [cursor |-> Latest, players |-> Nobody, missed |-> {}]

Held    == UNION {Range(hand[w]) : w \in Worker}
Newest  == files[Len(files)]

(* The entries an XREAD after position c can return. *)
After(c) == {i \in 1 .. Len(stream) : i > c /\ i > floor}

Init ==
  /\ stream = <<>> /\ floor = 0
  /\ files = <<>>
  /\ up = TRUE
  /\ cursor = Latest /\ reading = "idle" /\ last = Latest /\ batch = {}
  /\ newest = 0 /\ uncounted = 0
  /\ pool = Nobody /\ hand = [w \in Worker |-> <<>>] /\ waiting = 0
  /\ step = "sleep" /\ copied = 0 /\ draft = NoDraft /\ due = Interval
  /\ clock = 0
  /\ failures = 0 /\ restarts = 0
-----------------------------------------------------------------------------
(* push_ingest, called by enter_queue in the same process. *)
Publish ==
  /\ up
  /\ Len(stream) < MaxEntries
  /\ stream' = Append(stream, clock)
  /\ UNCHANGED <<floor, files, up, readVars, poolVars, snapVars, clock, faultVars>>

(* Mutant of Ask: every read is for new entries, also the first after a boot. *)
AskLatest ==
  /\ up
  /\ reading = "idle"
  /\ reading' = "asked"
  /\ last' = Len(stream)
  /\ UNCHANGED <<redisVars, files, up, cursor, batch, newest, uncounted, poolVars, snapVars,
                 clock, faultVars>>

(* The ingestion thread.  Redis resolves "$" when the XREAD arrives. *)
Ask ==
  /\ up
  /\ reading = "idle"
  /\ reading' = "asked"
  /\ last' = IF cursor = Latest THEN Len(stream) ELSE cursor
  /\ UNCHANGED <<redisVars, files, up, cursor, batch, newest, uncounted, poolVars, snapVars,
                 clock, faultVars>>

(* The reply holds what there was when Redis sent it. *)
Receive(end) ==
  /\ reading = "asked"
  /\ end \in After(last)
  /\ reading' = "placing"
  /\ batch' = {i \in After(last) : i <= end}
  /\ Cardinality(batch') <= BatchSize
  /\ newest' = last
  /\ UNCHANGED <<redisVars, files, up, cursor, last, uncounted, poolVars, snapVars, clock,
                 faultVars>>

(* The block timed out, or the call failed: an empty batch either way. *)
ReceiveNothing ==
  /\ reading = "asked"
  /\ reading' = "idle"
  /\ last' = Latest
  /\ UNCHANGED <<redisVars, files, up, cursor, batch, newest, uncounted, poolVars, snapVars,
                 clock, faultVars>>

(* Mutant of Enqueue: newest does not move past the first entry. *)
EnqueueKeepsFirst(i) ==
  /\ uncounted = 0
  /\ i \in batch /\ \A j \in batch : i <= j
  /\ batch' = batch \ {i}
  /\ newest' = IF newest = last THEN i ELSE newest
  /\ pool' = [pool EXCEPT ![i] = @ + 1]
  /\ uncounted' = 1
  /\ UNCHANGED <<redisVars, files, up, cursor, reading, last, hand, waiting, snapVars,
                 clock, faultVars>>

(* The entries of a reply go into the pool in their order, and each counts *)
(* once it is there: a worker may have matched it before.                  *)
Enqueue(i) ==
  /\ uncounted = 0
  /\ i \in batch /\ \A j \in batch : i <= j
  /\ batch' = batch \ {i}
  /\ newest' = i
  /\ pool' = [pool EXCEPT ![i] = @ + 1]
  /\ uncounted' = 1
  /\ UNCHANGED <<redisVars, files, up, cursor, reading, last, hand, waiting, snapVars,
                 clock, faultVars>>

Count ==
  /\ uncounted = 1
  /\ waiting' = (waiting + 1) % CounterRange
  /\ uncounted' = 0
  /\ UNCHANGED <<redisVars, files, up, cursor, reading, last, batch, newest, pool, hand,
                 snapVars, clock, faultVars>>

Advance ==
  /\ reading = "placing" /\ batch = {} /\ uncounted = 0
  /\ cursor' = newest
  /\ reading' = "idle"
  /\ last' = Latest /\ newest' = 0
  /\ UNCHANGED <<redisVars, files, up, batch, uncounted, poolVars, snapVars, clock, faultVars>>
-----------------------------------------------------------------------------
(* The match threads. *)

(* Mutant of Take: the player is looked at in one step, taken in another. *)
TakeBlind(w, i) ==
  /\ Len(hand[w]) < GroupSize
  /\ pool' = [pool EXCEPT ![i] = @ - 1]
  /\ hand' = [hand EXCEPT ![w] = Append(@, i)]
  /\ UNCHANGED <<redisVars, files, up, readVars, waiting, snapVars, clock, faultVars>>

Take(w, i) ==
  /\ pool[i] > 0
  /\ Len(hand[w]) < GroupSize
  /\ pool' = [pool EXCEPT ![i] = @ - 1]
  /\ hand' = [hand EXCEPT ![w] = Append(@, i)]
  /\ UNCHANGED <<redisVars, files, up, readVars, waiting, snapVars, clock, faultVars>>

PutBack(w) ==
  /\ hand[w] # <<>>
  /\ LET i == hand[w][Len(hand[w])]
     IN  pool' = [pool EXCEPT ![i] = @ + 1]
  /\ hand' = [hand EXCEPT ![w] = SubSeq(@, 1, Len(@) - 1)]
  /\ UNCHANGED <<redisVars, files, up, readVars, waiting, snapVars, clock, faultVars>>

FormMatch(w) ==
  /\ Len(hand[w]) = GroupSize
  /\ hand' = [hand EXCEPT ![w] = <<>>]
  /\ waiting' = (waiting - GroupSize) % CounterRange
  /\ UNCHANGED <<redisVars, files, up, readVars, pool, snapVars, clock, faultVars>>
-----------------------------------------------------------------------------
(* The snapshotter. *)

BeginSnapshot ==
  /\ up
  /\ step = "sleep" /\ clock >= due
  /\ draft' = [NoDraft EXCEPT !.cursor = cursor]
  /\ step' = "copy"
  /\ UNCHANGED <<redisVars, files, up, readVars, poolVars, copied, due, clock, faultVars>>

(* snapshot_players copies one bucket at a time.  The players of that      *)
(* bucket a worker has in hand are noted as missed: the code does not.     *)
CopyBucket ==
  /\ step = "copy"
  /\ draft' = [draft EXCEPT
       !.players = [i \in Id |-> IF Home[i] = copied THEN pool[i] ELSE @[i]],
       !.missed  = @ \cup {i \in Held : Home[i] = copied}]
  /\ copied' = (copied + 1) % NumBuckets
  /\ step' = IF copied' = 0 THEN "write" ELSE "copy"
  /\ UNCHANGED <<redisVars, files, up, readVars, poolVars, due, clock, faultVars>>

(* Mutant of WriteSnapshot: the cursor is read after the pool. *)
WriteSnapshotLateCursor ==
  /\ step = "write"
  /\ files' = Append(files, [at |-> clock, cursor |-> cursor,
                             players |-> draft.players, missed |-> draft.missed])
  /\ draft' = NoDraft
  /\ step' = "prune"
  /\ UNCHANGED <<redisVars, up, readVars, poolVars, copied, due, clock, faultVars>>

(* Up to the rename there is only a file boot does not look at. *)
WriteSnapshot ==
  /\ step = "write"
  /\ files' = Append(files, [at |-> clock, cursor |-> draft.cursor,
                             players |-> draft.players, missed |-> draft.missed])
  /\ draft' = NoDraft
  /\ step' = "prune"
  /\ UNCHANGED <<redisVars, up, readVars, poolVars, copied, due, clock, faultVars>>

WriteFails ==
  /\ step = "write"
  /\ failures < MaxFailures
  /\ failures' = failures + 1
  /\ draft' = NoDraft
  /\ step' = "trim"
  /\ UNCHANGED <<redisVars, files, up, readVars, poolVars, copied, due, clock, restarts>>

(* Mutant of Prune: the list is not reversed. *)
PruneNewest ==
  /\ step = "prune"
  /\ files' = SubSeq(files, 1, Min({Kept, Len(files)}))
  /\ step' = "trim"
  /\ UNCHANGED <<redisVars, up, readVars, poolVars, copied, draft, due, clock, faultVars>>

Prune ==
  /\ step = "prune"
  /\ files' = SubSeq(files, Max({1, Len(files) - Kept + 1}), Len(files))
  /\ step' = "trim"
  /\ UNCHANGED <<redisVars, up, readVars, poolVars, copied, draft, due, clock, faultVars>>

(* Mutant of Trim: the stream is kept for one interval. *)
TrimEarly ==
  /\ step = "trim"
  /\ floor' \in floor .. Len(stream)
  /\ \A i \in floor + 1 .. floor' : stream[i] + Interval < clock
  /\ due' = clock + Interval
  /\ step' = "sleep"
  /\ UNCHANGED <<stream, files, up, readVars, poolVars, copied, draft, clock, faultVars>>

(* XTRIM MINID ~ may leave older entries, and the call may fail. *)
Trim ==
  /\ step = "trim"
  /\ floor' \in floor .. Len(stream)
  /\ \A i \in floor + 1 .. floor' : stream[i] + Retention < clock
  /\ due' = clock + Interval
  /\ step' = "sleep"
  /\ UNCHANGED <<stream, files, up, readVars, poolVars, copied, draft, clock, faultVars>>
-----------------------------------------------------------------------------
(* The process dies between any two steps, and is started again. *)

Crash ==
  /\ up
  /\ restarts < MaxRestarts
  /\ up' = FALSE
  /\ cursor' = Latest /\ reading' = "idle" /\ last' = Latest /\ batch' = {}
  /\ newest' = 0 /\ uncounted' = 0
  /\ pool' = Nobody /\ hand' = [w \in Worker |-> <<>>] /\ waiting' = 0
  /\ step' = "sleep" /\ copied' = 0 /\ draft' = NoDraft /\ due' = 0
  /\ UNCHANGED <<redisVars, files, clock, faultVars>>

(* Mutant of Boot: restored players are not counted. *)
BootUncounted ==
  /\ ~ up
  /\ up' = TRUE
  /\ restarts' = restarts + 1
  /\ IF files = <<>>
     THEN UNCHANGED <<cursor, pool, waiting>>
     ELSE /\ cursor' = Newest.cursor
          /\ pool' = Newest.players
          /\ UNCHANGED waiting
  /\ due' = clock + Interval
  /\ UNCHANGED <<redisVars, files, reading, last, batch, newest, uncounted, hand, step,
                 copied, draft, clock, failures>>

Boot ==
  /\ ~ up
  /\ up' = TRUE
  /\ restarts' = restarts + 1
  /\ IF files = <<>>
     THEN UNCHANGED <<cursor, pool, waiting>>
     ELSE /\ cursor' = Newest.cursor
          /\ pool' = Newest.players
          /\ waiting' = SumFunction(Newest.players) % CounterRange
  /\ due' = clock + Interval
  /\ UNCHANGED <<redisVars, files, reading, last, batch, newest, uncounted, hand, step,
                 copied, draft, clock, failures>>

(* The entries the ingestion thread has still to put behind its cursor. *)
Unread == LET c == IF reading = "idle" THEN cursor ELSE last
          IN  IF c = Latest THEN {} ELSE After(c) \cup batch

(* Time passes, but not so fast that a snapshot takes a tick or an entry   *)
(* remains unread for more than MaxLag of them.                            *)
KeepsUp ==
  /\ step = "sleep" /\ clock < due
  /\ \A i \in Unread : clock < stream[i] + MaxLag

Tick ==
  /\ clock < MaxClock
  /\ up => KeepsUp
  /\ clock' = clock + 1
  /\ UNCHANGED <<redisVars, files, up, readVars, poolVars, snapVars, faultVars>>

IngestionStep ==
  Ask \/ ReceiveNothing \/ Count \/ Advance \/ \E i \in Id : Receive(i) \/ Enqueue(i)
WorkerStep(w) == PutBack(w) \/ FormMatch(w) \/ \E i \in Id : Take(w, i)
SnapshotStep  == BeginSnapshot \/ CopyBucket \/ WriteSnapshot \/ WriteFails \/ Prune \/ Trim

Next ==
  \/ Publish
  \/ IngestionStep
  \/ \E w \in Worker : WorkerStep(w)
  \/ SnapshotStep
  \/ Crash \/ Boot \/ Tick

Spec == Init /\ [][Next]_vars

(* The ingestion thread runs, and Redis answers it again and again. *)
Fairness ==
  /\ WF_vars(Ask \/ ReceiveNothing \/ Count \/ Advance \/ \E i \in Id : Enqueue(i))
  /\ SF_vars(\E i \in Id : Receive(i))

FairSpec == Spec /\ Fairness
-----------------------------------------------------------------------------
Offset == Nat \cup {Latest}

TypeOK ==
  /\ stream \in Seq(Nat) /\ Len(stream) <= MaxEntries
  /\ floor \in 0 .. Len(stream)
  /\ files \in Seq([at : Nat, cursor : Offset, players : [Id -> Nat], missed : SUBSET Id])
  /\ up \in BOOLEAN
  /\ cursor \in Offset /\ reading \in {"idle", "asked", "placing"} /\ last \in Offset
  /\ batch \subseteq 1 .. Len(stream) /\ newest \in 0 .. Len(stream)
  /\ uncounted \in 0 .. 1 /\ waiting \in 0 .. CounterRange - 1
  /\ pool \in [Id -> Nat]
  /\ hand \in [Worker -> Seq(Id)]
  /\ step \in {"sleep", "copy", "write", "prune", "trim"}
  /\ copied \in Bucket
  /\ draft \in [cursor : Offset, players : [Id -> Nat], missed : SUBSET Id]
  /\ due \in Nat /\ clock \in Nat
  /\ failures \in Nat /\ restarts \in Nat

Waiting == {i \in Id : pool[i] > 0} \cup Held

(* A snapshot that has an offset to replay from.  One taken before the     *)
(* first batch is complete has not: it says "$".                           *)
HasSnapshot == up /\ files # <<>> /\ Newest.cursor # Latest

(* What main.rs says of the order in which a snapshot reads: the cursor is *)
(* never ahead of the captured players.  Whoever waits and is not behind   *)
(* the cursor of the newest snapshot is in it, unless a match thread had   *)
(* that player in hand when the bucket was copied.                         *)
SnapshotCovers ==
  HasSnapshot =>
    \A i \in Waiting : i <= Newest.cursor => Newest.players[i] > 0 \/ i \in Newest.missed

(* What queue.rs says of the trimming.  As long as the newest snapshot is  *)
(* no older than the retention allows, a restart finds whoever waits: in   *)
(* the snapshot, or behind its cursor and still in the stream, whatever    *)
(* failed or crashed before.                                               *)
ReplayReaches ==
  HasSnapshot /\ clock + MaxLag <= Newest.at + Retention =>
    \A i \in Waiting \cup batch :
      \/ Newest.players[i] > 0 \/ i \in Newest.missed
      \/ i > Newest.cursor /\ i > floor

(* The offset a restart would replay from never goes back, nor is it lost, *)
(* through writes, pruning, crashes and boots.                             *)
NewestAdvances ==
  [][files # <<>> /\ Newest.cursor # Latest
       => (Newest.cursor)' # Latest /\ (Newest.cursor)' >= Newest.cursor]_vars

Copies(i) ==
  pool[i] + SumFunction([w \in Worker |-> Cardinality({k \in DOMAIN hand[w] : hand[w][k] = i})])

(* Replay may add a player the snapshot has, but once per restart: without *)
(* a crash every entry is in the pool at most once.                        *)
OncePerRestart == \A i \in Id : Copies(i) <= 1 + restarts

(* The depth counter agrees with the pool and the hands across restarts,   *)
(* but for the entry that is in the pool and not yet counted: when that    *)
(* one is matched first the counter wraps below zero, and comes back.      *)
DepthRestored ==
  (waiting + uncounted - SumFunction(pool) - SumFunction([w \in Worker |-> Len(hand[w])]))
     % CounterRange = 0

(* An entry the thread knows to be unread is read, unless the process dies *)
(* first: in particular what a boot finds behind the cursor it restored.   *)
ReplayCompletes ==
  \A i \in Id : up /\ reading = "idle" /\ i \in Unread ~> i \in batch \/ ~ up

(* What main.rs says of a snapshot and the replay from its offset: "replay *)
(* can only ever re-add a player (harmless), never skip one".              *)
NeverSkips ==
  HasSnapshot =>
    \A i \in Waiting : i <= Newest.cursor => Newest.players[i] > 0
=============================================================================
