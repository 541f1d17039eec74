------------------------------ MODULE Backend ------------------------------
(***************************************************************************)
(* The HTTP side against the write-behind side: clients that queue and     *)
(* poll, the handlers enter_queue and status, and the mm:status keys that  *)
(* both the handlers and commit_match write.                               *)
(*                                                                         *)
(* The way of an entry through the ingest stream and the pool is that of   *)
(* Recovery and MatchPool: here it waits, and is taken by Form.  The       *)
(* process does not crash.                                                 *)
(***************************************************************************)
EXTENDS WriteBehind

CONSTANT MaxPosts  \* bound: requests to queue

VARIABLES
  client,   \* what each user's client does, or where its request is
  told,     \* the match the client was told of
  entries,  \* how many entries of each user wait for a match
  queued,   \* the users whose mm:status is "queued"; tickets has the others
  lapses,   \* how often a user's client was misinformed
  posts

backendVars == <<client, told, entries, queued, lapses, posts>>

BackendInit ==
  /\ Init
  /\ client = [u \in User |-> "away"]
  /\ told = [u \in User |-> None]
  /\ entries = [u \in User |-> 0]
  /\ queued = {}
  /\ lapses = [u \in User |-> 0]
  /\ posts = 0

GoTo(u, label) == client' = [client EXCEPT ![u] = label]
Lapse(u)       == lapses' = [lapses EXCEPT ![u] = @ + 1]
-----------------------------------------------------------------------------
(* enter_queue, from the request to the answer. *)

Post(u) ==
  /\ client[u] = "away"
  /\ posts < MaxPosts
  /\ posts' = posts + 1
  /\ GoTo(u, "lookup")
  /\ UNCHANGED <<vars, told, entries, queued, lapses>>

(* The rating comes from the cache or, when it is not there or Redis does  *)
(* not answer, from Postgres.  It never changes: only whether it is found  *)
(* matters.  The result of cache_player is ignored.                        *)
Lookup(u) ==
  /\ client[u] = "lookup"
  /\ GoTo(u, "publish") \/ GoTo(u, "away")
  /\ UNCHANGED <<vars, told, entries, queued, lapses, posts>>

(* A failed XADD is answered with an error; it may have been executed. *)
Publish(u) ==
  /\ client[u] = "publish"
  /\ \/ /\ entries' = [entries EXCEPT ![u] = @ + 1]
        /\ GoTo(u, "mark")
        /\ UNCHANGED <<failures, lapses>>
     \/ /\ RedisFails
        /\ GoTo(u, "away")
        /\ \/ "nothing" \in FailureModes /\ UNCHANGED <<entries, lapses>>
           \/ "all" \in FailureModes /\ entries' = [entries EXCEPT ![u] = @ + 1] /\ Lapse(u)
  /\ UNCHANGED <<memory, redis, postgres, db_failures, restarts, repeated, told, queued, posts>>

(* Mutant of Mark: the client is answered without a status. *)
MarkNothing(u) ==
  /\ client[u] = "mark"
  /\ GoTo(u, "polling")
  /\ UNCHANGED <<vars, told, entries, queued, lapses, posts>>

(* set_queued; its result is ignored. *)
Mark(u) ==
  /\ client[u] = "mark"
  /\ \/ /\ tickets' = [tickets EXCEPT ![u] = None]
        /\ queued' = queued \cup {u}
        /\ UNCHANGED <<failures, lapses>>
     \/ /\ RedisFails
        /\ Lapse(u)
        /\ UNCHANGED <<tickets, queued>>
  /\ GoTo(u, "polling")
  /\ UNCHANGED <<memory, stream, group, pending, postgres, db_failures, restarts, repeated, told,
                 entries, posts>>
-----------------------------------------------------------------------------
(* GET /status.  An answer of "queued" changes nothing. *)

PollMatched(u) ==
  /\ client[u] = "polling"
  /\ tickets[u] # None
  /\ told' = [told EXCEPT ![u] = tickets[u]]
  /\ GoTo(u, "playing")
  /\ UNCHANGED <<vars, entries, queued, lapses, posts>>

(* No key, or no answer from Redis: "not_found" either way, and the client *)
(* may queue again.                                                        *)
PollNotFound(u) ==
  /\ client[u] = "polling"
  /\ \/ /\ tickets[u] = None /\ u \notin queued
        /\ UNCHANGED <<failures, lapses>>
     \/ RedisFails /\ Lapse(u)
  /\ GoTo(u, "away")
  /\ UNCHANGED <<memory, redis, postgres, db_failures, restarts, repeated, told, entries, queued,
                 posts>>

(* The client is free once its match has ended. *)
Leave(u) ==
  /\ client[u] = "playing"
  /\ matches[told[u].id] = "ended"
  /\ told' = [told EXCEPT ![u] = None]
  /\ GoTo(u, "away")
  /\ UNCHANGED <<vars, entries, queued, lapses, posts>>

(* Mutant of Expire: only the tickets of commit_match are SET with EX. *)
ExpireMatched(u) ==
  /\ tickets[u] # None
  /\ tickets' = [tickets EXCEPT ![u] = None]
  /\ IF client[u] = "polling" THEN Lapse(u) ELSE UNCHANGED lapses
  /\ UNCHANGED <<memory, stream, group, pending, postgres, faults, client, told, entries, queued,
                 posts>>

(* STATUS_TTL_SECS after it was set, the key is gone. *)
Expire(u) ==
  /\ tickets[u] # None \/ u \in queued
  /\ tickets' = [tickets EXCEPT ![u] = None]
  /\ queued' = queued \ {u}
  /\ IF client[u] = "polling" THEN Lapse(u) ELSE UNCHANGED lapses
  /\ UNCHANGED <<memory, stream, group, pending, postgres, faults, client, told, entries, posts>>
-----------------------------------------------------------------------------
(* The write-behind side. *)

(* Mutant of FormWaiting: the front of an empty bucket is taken. *)
FormAnybody(w, team) ==
  /\ Form(w, team)
  /\ entries' = [u \in User |-> entries[u] - (IF u \in team THEN 1 ELSE 0)]
  /\ UNCHANGED <<client, told, queued, lapses, posts>>

FormWaiting(w, team) ==
  /\ Form(w, team)
  /\ \A u \in team : entries[u] > 0
  /\ entries' = [u \in User |-> entries[u] - (IF u \in team THEN 1 ELSE 0)]
  /\ UNCHANGED <<client, told, queued, lapses, posts>>

(* A commit overwrites "queued".  When its reply is lost it is repeated,   *)
(* and tells its players again, be the match over or not.  A client that   *)
(* polls for its next match by then is misinformed.                        *)
ToldOfThePast(u) ==
  /\ client[u] = "polling"
  /\ tickets'[u] # tickets[u]
  /\ matches[tickets'[u].id] = "ended"

WriteBehindStep ==
  /\ (\E w \in Worker : WorkerStep(w)) \/ RetryStep \/ PollerStep \/ \E m \in MatchId : EndMatch(m)
  /\ queued' = {u \in queued : tickets'[u] = None}
  /\ lapses' = [u \in User |-> lapses[u] + (IF ToldOfThePast(u) THEN 1 ELSE 0)]
  /\ UNCHANGED <<client, told, entries, posts>>

ClientStep(u) ==
  Post(u) \/ Lookup(u) \/ Publish(u) \/ Mark(u) \/ PollMatched(u) \/ PollNotFound(u) \/ Leave(u)

BackendNext ==
  \/ \E u \in User : ClientStep(u) \/ Expire(u)
  \/ \E w \in Worker, team \in Team : FormWaiting(w, team)
  \/ WriteBehindStep

(* The handlers run and keys expire; clients poll. *)
BackendFairness ==
  \A u \in User :
    /\ WF_<<vars, backendVars>>(Lookup(u) \/ Publish(u) \/ Mark(u))
    /\ WF_<<vars, backendVars>>(PollMatched(u) \/ PollNotFound(u))
    /\ WF_<<vars, backendVars>>(Expire(u))

BackendSpec == BackendInit /\ [][BackendNext]_<<vars, backendVars>> /\ BackendFairness
-----------------------------------------------------------------------------
BackendTypeOK ==
  /\ client \in [User -> {"away", "lookup", "publish", "mark", "polling", "playing"}]
  /\ told \in [User -> Result \cup {None}]
  /\ entries \in [User -> Nat]
  /\ queued \subseteq {u \in User : tickets[u] = None}
  /\ lapses \in [User -> Nat]

(* The places a user holds: entries that wait, and matches not over. *)
Seats(u) ==
  entries[u]
    + Cardinality({r.id : r \in {q \in InMemory \cup Range(stream) :
                                   u \in q.team /\ matches[q.id] # "ended"}})

(* README.md: "no player is ever double booked".  For a client that queues *)
(* only when it is not waiting or playing as far as it was told, this is   *)
(* true but for the times it was misinformed: each expired key, lost       *)
(* status, lost answer or repeated announcement books it twice at most     *)
(* once.  That a key is there when the client starts to poll, and that     *)
(* "queued" covers the last match's ticket, is what it rests on.           *)
OneSeatPerLapse == \A u \in User : Seats(u) <= 1 + lapses[u]

(* No client polls for ever: a match, or the expiry of its key, ends it,   *)
(* also when set_queued came after the match and hid it.                   *)
PollingEnds == \A u \in User : client[u] = "polling" ~> client[u] # "polling"
=============================================================================
