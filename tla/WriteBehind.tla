---------------------------- MODULE WriteBehind ----------------------------
(***************************************************************************)
(* What happens to a match once it is formed: the match threads write it   *)
(* to Redis (commit_match), the retry thread does so when they could not,  *)
(* and the poller moves it from the sync stream to Postgres.               *)
(*                                                                         *)
(* Redis and Postgres outlive the process; the retry queue, the match ids  *)
(* and the poller's position in its loop do not.  A call to either fails   *)
(* in one of the ways of FailureModes.                                     *)
(***************************************************************************)
EXTENDS Integers, Sequences, SequencesExt

CONSTANTS
  Worker,         \* the match threads
  User,
  None,           \* no match, no consumer group
  GroupSize,      \* players per match; 10 in the code
  BatchSize,      \* entries per read; 50 in the code
  PendingLimit,   \* entries of the recovery read; 500 in the code
  FailureModes,   \* how much of a failed call was executed
  FreeOnly,       \* TRUE when clients queue only once their match has ended
  MaxMatches,     \* bound: matches formed per run of the process
  MaxFailures,    \* bound: failed calls to Redis
  MaxDbFailures,  \* bound: failed calls to Postgres, constraints aside
  MaxRestarts     \* bound: crashes of the process

ASSUME WriteBehindAssumption ==
  /\ GroupSize \in Nat \ {0} /\ BatchSize \in Nat \ {0} /\ PendingLimit \in Nat \ {0}
  /\ FailureModes \subseteq {"nothing", "tickets", "all"}
  /\ FreeOnly \in BOOLEAN
  /\ IsFiniteSet(Worker)
  /\ MaxMatches \in Nat /\ MaxFailures \in Nat /\ MaxDbFailures \in Nat /\ MaxRestarts \in Nat

VARIABLES
  next_match_id,
  inline,         \* the match each worker tries to commit, and its failed tries
  retry_q,        \* the deferred matches
  retrying,       \* the match the retry thread has popped
  backoff,        \* the retry thread sleeps before it requeues that match
  tickets,        \* the match each user's mm:status key announces
  stream,         \* match:sync:stream; nothing trims it
  group,          \* the consumer group: where it began and what it delivered last
  pending,        \* the group's entries delivered and not acknowledged
  poller,         \* where the poller is in its loop
  batch,          \* the entries the poller has in hand
  matches,        \* the status of each row of matches, None when there is none
  stored,         \* the match each of these rows was inserted for
  rows,           \* how many rows of match_players are equal to a given one
  in_match,       \* users.in_match
  matches_played, \* users.matches_played
  failures, db_failures, restarts,
  repeated        \* how many failed writes of a match were executed all the same

memory   == <<next_match_id, inline, retry_q, retrying, backoff, poller, batch>>
redis    == <<tickets, stream, group, pending>>
postgres == <<matches, stored, rows, in_match, matches_played>>
faults   == <<failures, db_failures, restarts, repeated>>
vars     == <<memory, redis, postgres, faults>>

MatchId == 1 .. MaxMatches
Team    == {g \in SUBSET User : Cardinality(g) = GroupSize}
(* A match is identified by its id and the run of the process that formed  *)
(* it: the ids start again at 1.  Only the id is written anywhere.         *)
Result  == [id : MatchId, run : 0 .. MaxRestarts, team : Team]
Row     == [match : MatchId, user : User, active : BOOLEAN]
NoGroup == [begin |-> 0, last |-> -1]

Try     == [result : Result, tries : 0 .. 2]

(* None is none of the values it stands beside. *)
ASSUME NoneAssumption == None \notin Result \cup Try \cup {"active", "ended"}

Init ==
  /\ next_match_id = 1
  /\ inline = [w \in Worker |-> None]
  /\ retry_q = <<>> /\ retrying = None /\ backoff = FALSE
  /\ poller = "boot" /\ batch = {}
  /\ tickets = [u \in User |-> None]
  /\ stream = <<>> /\ group = NoGroup /\ pending = {}
  /\ matches = [m \in MatchId |-> None]
  /\ stored = [m \in MatchId |-> None]
  /\ rows = [r \in Row |-> 0]
  /\ in_match = [u \in User |-> FALSE]
  /\ matches_played = [u \in User |-> 0]
  /\ failures = 0 /\ db_failures = 0 /\ restarts = 0
  /\ repeated = [m \in MatchId |-> 0]
-----------------------------------------------------------------------------
(* Matches on their way: formed and not in Postgres. *)
Deferred    == Range(retry_q) \cup ({retrying} \ {None})
InMemory    == {inline[w].result : w \in {v \in Worker : inline[v] # None}} \cup Deferred
Undelivered == {i \in DOMAIN stream : group.last < i}

Free(u) ==
  /\ \A r \in InMemory : u \notin r.team
  /\ \A i \in Undelivered \cup pending : u \notin stream[i].team
  /\ \A m \in MatchId : rows[[match |-> m, user |-> u, active |-> TRUE]] = 0

(* A match thread's group has passed the gate. *)
Form(w, team) ==
  /\ inline[w] = None
  /\ next_match_id \in MatchId
  /\ FreeOnly => \A u \in team : Free(u)
  /\ inline' = [inline EXCEPT ![w] =
                  [result |-> [id |-> next_match_id, run |-> restarts, team |-> team],
                   tries |-> 0]]
  /\ next_match_id' = next_match_id + 1
  /\ UNCHANGED <<retry_q, retrying, backoff, poller, batch, redis, postgres, faults>>

(* The pipeline of commit_match: a SET for every player, then the XADD.    *)
(* Nothing makes it atomic: when it fails, a prefix of it was executed.    *)
Announce(r, users) == tickets' = [u \in User |-> IF u \in users THEN r ELSE tickets[u]]

CommitSucceeds(r) ==
  /\ Announce(r, r.team)
  /\ stream' = Append(stream, r)
  /\ UNCHANGED <<group, pending, failures, repeated>>

CommitFails(r) ==
  /\ failures < MaxFailures
  /\ failures' = failures + 1
  /\ \/ "nothing" \in FailureModes /\ UNCHANGED <<tickets, stream, repeated>>
     \/ "tickets" \in FailureModes /\ UNCHANGED <<stream, repeated>>
          /\ \E users \in SUBSET r.team : Announce(r, users)
     \/ "all" \in FailureModes /\ Announce(r, r.team) /\ stream' = Append(stream, r)
          /\ repeated' = [repeated EXCEPT ![r.id] = @ + 1]
  /\ UNCHANGED <<group, pending>>

(* The two inline tries of run_worker, and the hand-over when both fail. *)
TryCommit(w) ==
  /\ inline[w] # None
  /\ inline[w].tries < 2
  /\ \/ /\ CommitSucceeds(inline[w].result)
        /\ inline' = [inline EXCEPT ![w] = None]
     \/ /\ CommitFails(inline[w].result)
        /\ inline' = [inline EXCEPT ![w].tries = @ + 1]
  /\ UNCHANGED <<next_match_id, retry_q, retrying, backoff, poller, batch, postgres,
                 db_failures, restarts>>

(* Mutant of Defer: the match is let go after its second try. *)
DeferNothing(w) ==
  /\ inline[w] # None
  /\ inline[w].tries = 2
  /\ inline' = [inline EXCEPT ![w] = None]
  /\ UNCHANGED <<next_match_id, retry_q, retrying, backoff, poller, batch, redis, postgres,
                 faults>>

Defer(w) ==
  /\ inline[w] # None
  /\ inline[w].tries = 2
  /\ retry_q' = Append(retry_q, inline[w].result)
  /\ inline' = [inline EXCEPT ![w] = None]
  /\ UNCHANGED <<next_match_id, retrying, backoff, poller, batch, redis, postgres, faults>>
-----------------------------------------------------------------------------
(* run_retry_worker: pop, try, and requeue at the back after the backoff. *)

(* Mutant of PopDeferred: off by one, the last match is never popped. *)
PopDeferredButOne ==
  /\ retrying = None
  /\ Len(retry_q) > 1
  /\ retrying' = Head(retry_q)
  /\ retry_q' = Tail(retry_q)
  /\ UNCHANGED <<next_match_id, inline, backoff, poller, batch, redis, postgres, faults>>

PopDeferred ==
  /\ retrying = None
  /\ retry_q # <<>>
  /\ retrying' = Head(retry_q)
  /\ retry_q' = Tail(retry_q)
  /\ UNCHANGED <<next_match_id, inline, backoff, poller, batch, redis, postgres, faults>>

(* Mutant of Retry: the match is requeued even when its write succeeded. *)
RetryAlways ==
  /\ retrying # None
  /\ ~ backoff
  /\ CommitSucceeds(retrying) \/ CommitFails(retrying)
  /\ backoff' = TRUE
  /\ UNCHANGED <<next_match_id, inline, retry_q, retrying, poller, batch, postgres, db_failures,
                 restarts>>

Retry ==
  /\ retrying # None
  /\ ~ backoff
  /\ \/ CommitSucceeds(retrying) /\ retrying' = None /\ UNCHANGED backoff
     \/ CommitFails(retrying) /\ backoff' = TRUE /\ UNCHANGED retrying
  /\ UNCHANGED <<next_match_id, inline, retry_q, poller, batch, postgres, db_failures, restarts>>

Requeue ==
  /\ backoff
  /\ retry_q' = Append(retry_q, retrying)
  /\ retrying' = None
  /\ backoff' = FALSE
  /\ UNCHANGED <<next_match_id, inline, poller, batch, redis, postgres, faults>>
-----------------------------------------------------------------------------
(* The poller, from the main thread's ensure_sync_group on.  By then the   *)
(* match threads are running.                                              *)

PollerGoes(label, entries) == poller' = label /\ batch' = entries

RedisFails == failures < MaxFailures /\ failures' = failures + 1

EnsureSyncGroup ==
  /\ poller = "boot"
  /\ \/ /\ group' = IF group = NoGroup
                      THEN [begin |-> Len(stream), last |-> Len(stream)]
                      ELSE group
        /\ UNCHANGED failures
     \/ RedisFails /\ UNCHANGED group
  /\ PollerGoes("recover", {})
  /\ UNCHANGED <<next_match_id, inline, retry_q, retrying, backoff, tickets, stream, pending,
                 postgres, db_failures, restarts, repeated>>

Oldest(n, entries) ==
  {i \in entries : Cardinality({j \in entries : j < i}) < n}

(* Up to which position the next read of the group delivers. *)
ReadsTo == IF group.last + BatchSize < Len(stream) THEN group.last + BatchSize ELSE Len(stream)
NewEntries == group.last + 1 .. ReadsTo

(* One read from id 0, at boot; an error and an empty list look alike. *)
ReadPending ==
  /\ poller = "recover"
  /\ \/ /\ LET found == Oldest(PendingLimit, pending)
           IN  PollerGoes(IF found = {} THEN "read" ELSE "insert", found)
        /\ UNCHANGED failures
     \/ RedisFails /\ PollerGoes("read", {})
  /\ UNCHANGED <<next_match_id, inline, retry_q, retrying, backoff, redis, postgres,
                 db_failures, restarts, repeated>>

(* Mutant of ReadSyncBatch: NOACK, no entry becomes pending. *)
ReadSyncBatchNoAck ==
  /\ poller = "read"
  /\ group # NoGroup
  /\ Undelivered # {}
  /\ group' = [group EXCEPT !.last = ReadsTo]
  /\ PollerGoes("insert", NewEntries)
  /\ UNCHANGED <<next_match_id, inline, retry_q, retrying, backoff, tickets, stream, pending,
                 postgres, faults>>

(* XREADGROUP ">": the group remembers what it delivered, read or lost. *)
ReadSyncBatch ==
  /\ poller = "read"
  /\ group # NoGroup
  /\ Undelivered # {}
  /\ pending' = pending \cup NewEntries
  /\ group' = [group EXCEPT !.last = ReadsTo]
  /\ \/ PollerGoes("insert", NewEntries) /\ UNCHANGED failures
     \/ "all" \in FailureModes /\ RedisFails /\ UNCHANGED <<poller, batch>>
  /\ UNCHANGED <<next_match_id, inline, retry_q, retrying, backoff, tickets, stream, postgres,
                 db_failures, restarts, repeated>>

(* insert_match_batch, in one transaction: the match rows skip the ids     *)
(* that exist, the player rows skip nothing, and uniq_active_player is     *)
(* the index on the users of the active ones.                              *)
Plays(u, i) == u \in stream[i].team
SeatsIn(entries, m, u) == {i \in entries : stream[i].id = m /\ Plays(u, i)}

RowsAfter ==
  [r \in Row |->
     rows[r] + (IF r.active THEN Cardinality(SeatsIn(batch, r.match, r.user)) ELSE 0)]

ActiveRows(table, u) ==
  SumFunction([m \in MatchId |-> table[[match |-> m, user |-> u, active |-> TRUE]]])

(* Mutant of Conflict: the unique index is on (match_id, user_id). *)
ConflictInMatch ==
  \E u \in User, m \in MatchId : RowsAfter[[match |-> m, user |-> u, active |-> TRUE]] > 1

Conflict == \E u \in User : ActiveRows(RowsAfter, u) > 1

Played(u) == \E i \in batch : Plays(u, i)

(* A new row of matches is that of the first entry with its id. *)
NewRows ==
  LET Entries(m) == {i \in batch : stream[i].id = m}
      IsNew(m)   == matches[m] = None /\ Entries(m) # {}
  IN  /\ matches' = [m \in MatchId |-> IF IsNew(m) THEN "active" ELSE matches[m]]
      /\ stored' = [m \in MatchId |-> IF IsNew(m) THEN stream[Min(Entries(m))] ELSE stored[m]]

(* Mutant of InsertRows: only players of matches not stored yet are counted. *)
InsertRowsCountNew ==
  LET New(u) == \E i \in batch : Plays(u, i) /\ matches[stream[i].id] = None
  IN  /\ NewRows
      /\ rows' = RowsAfter
      /\ in_match' = [u \in User |-> in_match[u] \/ Played(u)]
      /\ matches_played' = [u \in User |-> matches_played[u] + (IF New(u) THEN 1 ELSE 0)]

InsertRows ==
  /\ NewRows
  /\ rows' = RowsAfter
  /\ in_match' = [u \in User |-> in_match[u] \/ Played(u)]
  /\ matches_played' = [u \in User |-> matches_played[u] + (IF Played(u) THEN 1 ELSE 0)]

InsertMatchBatch ==
  /\ poller = "insert"
  /\ ~ Conflict
  /\ InsertRows
  /\ PollerGoes("ack", batch)
  /\ UNCHANGED <<next_match_id, inline, retry_q, retrying, backoff, redis, faults>>

(* Mutant of InsertFails: the batch is acknowledged all the same. *)
InsertFailsAcks ==
  /\ poller = "insert"
  /\ Conflict \/ db_failures < MaxDbFailures
  /\ db_failures' = IF Conflict THEN db_failures ELSE db_failures + 1
  /\ PollerGoes("ack", batch)
  /\ UNCHANGED <<next_match_id, inline, retry_q, retrying, backoff, redis, postgres, failures,
                 restarts, repeated>>

(* The entries stay pending; the poller goes on with new ones. *)
InsertFails ==
  /\ poller = "insert"
  /\ \/ Conflict /\ UNCHANGED <<postgres, db_failures>>
     \/ /\ db_failures < MaxDbFailures
        /\ db_failures' = db_failures + 1
        /\ \/ "nothing" \in FailureModes /\ UNCHANGED postgres
           \/ "all" \in FailureModes /\ ~ Conflict /\ InsertRows
  /\ PollerGoes("read", {})
  /\ UNCHANGED <<next_match_id, inline, retry_q, retrying, backoff, redis, failures, restarts,
                 repeated>>

(* The result of ack_sync is ignored. *)
AckSync ==
  /\ poller = "ack"
  /\ \/ pending' = pending \ batch /\ UNCHANGED failures
     \/ RedisFails /\ UNCHANGED pending
  /\ PollerGoes("read", {})
  /\ UNCHANGED <<next_match_id, inline, retry_q, retrying, backoff, tickets, stream, group,
                 postgres, db_failures, restarts, repeated>>
-----------------------------------------------------------------------------
(* POST /matches/{id}/end: in_match and matches_played stay. *)
EndMatch(m) ==
  /\ matches[m] = "active"
  /\ matches' = [matches EXCEPT ![m] = "ended"]
  /\ rows' = [r \in Row |->
                IF r.match # m THEN rows[r]
                ELSE IF r.active THEN 0
                ELSE rows[r] + rows[[match |-> m, user |-> r.user, active |-> TRUE]]]
  /\ UNCHANGED <<memory, redis, stored, in_match, matches_played, faults>>

(* The process dies at any instant and is started again. *)
Crash ==
  /\ restarts < MaxRestarts
  /\ restarts' = restarts + 1
  /\ repeated' = [m \in MatchId |-> 0]
  /\ next_match_id' = 1
  /\ inline' = [w \in Worker |-> None]
  /\ retry_q' = <<>> /\ retrying' = None /\ backoff' = FALSE
  /\ PollerGoes("boot", {})
  /\ UNCHANGED <<redis, postgres, failures, db_failures>>

WorkerStep(w) == TryCommit(w) \/ Defer(w)
RetryStep     == PopDeferred \/ Retry \/ Requeue
PollerStep    == EnsureSyncGroup \/ ReadPending \/ ReadSyncBatch \/ InsertMatchBatch
                 \/ InsertFails \/ AckSync

Next ==
  \/ \E w \in Worker : WorkerStep(w) \/ \E team \in Team : Form(w, team)
  \/ RetryStep
  \/ PollerStep
  \/ \E m \in MatchId : EndMatch(m)
  \/ Crash

Spec == Init /\ [][Next]_vars

(* The threads run.  Nobody has to form or end a match, or to crash. *)
Fairness ==
  /\ \A w \in Worker : WF_vars(WorkerStep(w))
  /\ WF_vars(RetryStep)
  /\ WF_vars(PollerStep)

FairSpec == Spec /\ Fairness
-----------------------------------------------------------------------------
TypeOK ==
  /\ next_match_id \in 1 .. MaxMatches + 1
  /\ inline \in [Worker -> Try \cup {None}]
  /\ retry_q \in Seq(Result)
  /\ retrying \in Result \cup {None}
  /\ backoff \in BOOLEAN
  /\ tickets \in [User -> Result \cup {None}]
  /\ stream \in Seq(Result)
  /\ group \in [begin : Nat, last : 0 .. Len(stream)] \cup {NoGroup}
  /\ pending \subseteq DOMAIN stream
  /\ poller \in {"boot", "recover", "read", "insert", "ack"}
  /\ batch \subseteq pending
  /\ matches \in [MatchId -> {None, "active", "ended"}]
  /\ stored \in [MatchId -> Result \cup {None}]
  /\ rows \in [Row -> Nat]
  /\ in_match \in [User -> BOOLEAN]
  /\ matches_played \in [User -> Nat]
  /\ restarts \in 0 .. MaxRestarts
  /\ repeated \in [MatchId -> Nat]

RowsOf(m, u) ==
  rows[[match |-> m, user |-> u, active |-> TRUE]]
    + rows[[match |-> m, user |-> u, active |-> FALSE]]

Acked == {i \in DOMAIN stream : group.begin < i /\ i <= group.last /\ i \notin pending}

(* An entry leaves the pending list only when its match and all its        *)
(* players are in Postgres, wherever a call fails and wherever the process *)
(* dies between the insert and the XACK.  The row of matches is that very  *)
(* match's, unless a match of another run of the process had taken its id; *)
(* and its players have a row for each entry that was acknowledged, the    *)
(* row of one match does not count for another.                            *)
AckedIsStored ==
  /\ \A i \in Acked :
       LET row == stored[stream[i].id]
       IN  row # None /\ (row = stream[i] \/ row.run # stream[i].run)
  /\ \A m \in MatchId, u \in User : Cardinality(SeatsIn(Acked, m, u)) <= RowsOf(m, u)

(* The counter on users agrees with the match_players rows after aborted   *)
(* batches, redeliveries and inserts whose reply was lost.                 *)
PlayedCountsRows ==
  \A u \in User : matches_played[u] = SumFunction([m \in MatchId |-> RowsOf(m, u)])

(* No user is in two active matches, however often it queued and whatever  *)
(* was delivered twice; and a stored active match is in nobody's past.     *)
SingleActiveMatch ==
  /\ \A u \in User : ActiveRows(rows, u) <= 1
  /\ \A m \in MatchId : matches[m] = "active" =>
       \A u \in User : rows[[match |-> m, user |-> u, active |-> FALSE]] = 0

Kept == InMemory \cup Range(stream)

(* Until the process dies, every match formed and every match a client was *)
(* told of is still to be written or in the stream: two failed tries, the  *)
(* retry queue and its backoff drop none.                                  *)
KeptUntilCrash ==
  restarts = 0 =>
    /\ \A m \in 1 .. next_match_id - 1 : \E r \in Kept : r.id = m
    /\ \A u \in User : tickets[u] \in Kept \cup {None}

(* How often match m is in hand, waits to be retried, and is in the stream. *)
Holders(f, m) == {w \in Worker : f[w] # None /\ f[w].result.id = m}
Places(s, m)  == {i \in DOMAIN s : s[i].id = m}
Copies(m) ==
  Cardinality(Holders(inline, m)) + Cardinality(Places(retry_q, m))
    + (IF retrying # None /\ retrying.id = m THEN 1 ELSE 0)
    + Cardinality(Places(stream, m))

(* The handing over from match thread to retry queue to retry thread to    *)
(* stream neither drops nor doubles a match, until the process dies: it is *)
(* in one place, and in one more for each write of it that failed and was  *)
(* executed all the same.  A failed write that was not, or only in part,   *)
(* and any other failed call adds none.                                    *)
PublishedOnce ==
  restarts = 0 => \A m \in 1 .. next_match_id - 1 : Copies(m) = 1 + repeated[m]

(* A match on its way while the consumer group exists reaches Postgres.    *)
FormedIsStored ==
  \A m \in MatchId :
    group # NoGroup /\ (\E r \in InMemory : r.id = m) ~> matches[m] # None

(* What src/README.md says of the way to Postgres: "at least once          *)
(* semantics, with duplicates absorbed by match id idempotency".  A match  *)
(* that is acknowledged is in matches.                                     *)
AckedHasItsRow == \A i \in Acked : stored[stream[i].id] = stream[i]

(* What main.rs says of flush_batch: a batch whose insert failed is "left  *)
(* un-ACKed so they are retried on the next pass".                         *)
FlushIsRetried ==
  \A i \in 1 .. MaxMatches : i \in pending ~> i \notin pending

(* What db.rs says of insert_match_batch: "skip any whose id was already   *)
(* stored (idempotent on redelivery from the stream)".  A player has one   *)
(* row per match.                                                          *)
RedeliveryIsIdempotent ==
  \A m \in MatchId, u \in User : RowsOf(m, u) <= 1
=============================================================================
