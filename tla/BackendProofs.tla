---------------------------- MODULE BackendProofs ----------------------------
(***************************************************************************)
(* A theorem about Backend, for any number of users, match threads and     *)
(* requests and any number and kind of failed calls: a client is booked    *)
(* twice only if it was misinformed.                                       *)
(***************************************************************************)
EXTENDS Backend, WriteBehindProofs

(* A client that was never misinformed may hold a place while it is        *)
(* answered, while its key says that it waits or plays, and while the      *)
(* match it was told of goes on.                                           *)
Going(r) == matches[r.id] # "ended"

MayHold(u) ==
  \/ client[u] = "mark"
  \/ client[u] = "polling" /\ (u \in queued \/ (tickets[u] # None /\ Going(tickets[u])))
  \/ client[u] = "playing" /\ Going(told[u])

SeatsDue == \A u \in User : Seats(u) <= lapses[u] + One(MayHold(u))

(* What a user is told of is a match of its own that was formed. *)
Own(u, r) == r \in Kept /\ u \in r.team

ToldOwn ==
  \A u \in User : /\ tickets[u] # None => Own(u, tickets[u])
                  /\ client[u] = "playing" => Own(u, told[u])

BackendInv == Inv /\ BackendTypeOK /\ ToldOwn /\ SeatsDue
-----------------------------------------------------------------------------
(***************************************************************************)
(* Counting seats.                                                         *)
(***************************************************************************)

(* The user's matches that are not over. *)
Open(u) == {r.id : r \in {q \in Kept : u \in q.team /\ matches[q.id] # "ended"}}

(* The seats are the waiting entries and the open matches, finitely many. *)
LEMMA SeatsOpen ==
  ASSUME TypeOK, NEW u \in User
  PROVE  /\ Seats(u) = entries[u] + Cardinality(Open(u))
         /\ IsFiniteSet(Open(u)) /\ Cardinality(Open(u)) \in Nat
<1>1. Seats(u) = entries[u] + Cardinality(Open(u))
  BY DEF Seats, Open, Kept
<1>2. Open(u) \subseteq MatchId
  BY KeptTypes, ConstantTypes DEF Open
<1>3. IsFiniteSet(Open(u))
  BY <1>2, MatchIdFinite, FS_Subset
<1> QED
  BY <1>1, <1>3, FS_CardinalityType

(* The same, before and after a step. *)
SeatsCounted ==
  \A u \in User : /\ Seats(u) = entries[u] + Cardinality(Open(u))
                  /\ IsFiniteSet(Open(u)) /\ Cardinality(Open(u)) \in Nat

LEMMA SeatsBefore == TypeOK => SeatsCounted
BY SeatsOpen DEF SeatsCounted

LEMMA SeatsAfter == TypeOK' => SeatsCounted'
BY SeatsBefore, PTL

(* A handler that touches no match: what it does for its user decides.     *)
LEMMA HandlerFrame ==
  ASSUME BackendInv, Inv', BackendTypeOK', NEW u \in User,
         UNCHANGED <<inline, retry_q, retrying, stream, matches>>,
         \A v \in User \ {u} :
           /\ client'[v] = client[v] /\ told'[v] = told[v] /\ entries'[v] = entries[v]
           /\ tickets'[v] = tickets[v] /\ lapses'[v] = lapses[v] /\ (v \in queued' <=> v \in queued),
         tickets'[u] # None => tickets'[u] = tickets[u],
         client'[u] = "playing" => Own(u, told'[u]),
         entries'[u] + lapses[u] + One(MayHold(u)) <= entries[u] + lapses'[u] + One(MayHold(u)')
  PROVE  ToldOwn' /\ SeatsDue'
<1>1. Kept' = Kept
  BY SameKept
<1>2. \A v \in User : Open(v)' = Open(v)
  BY <1>1 DEF Open
<1>3. \A v \in User : /\ Seats(v) = entries[v] + Cardinality(Open(v))
                      /\ Cardinality(Open(v)) \in Nat
  BY SeatsOpen DEF BackendInv, Inv
<1>4. \A v \in User : Seats(v)' = entries'[v] + Cardinality(Open(v))
  <2>1. TypeOK' => \A v \in User : Seats(v)' = entries'[v] + Cardinality(Open(v)')
    BY DEF Seats, Open, Kept
  <2> QED BY <1>2, <2>1 DEF Inv
<1>5. \A v \in User : /\ entries[v] \in Nat /\ entries'[v] \in Nat
                      /\ lapses[v] \in Nat /\ lapses'[v] \in Nat
  BY DEF BackendInv, BackendTypeOK
<1>6. ToldOwn'
  <2> SUFFICES ASSUME NEW v \in User
               PROVE  /\ tickets'[v] # None => Own(v, tickets'[v])
                      /\ client'[v] = "playing" => Own(v, told'[v])
    BY <1>1 DEF ToldOwn, Own
  <2>1. CASE v = u
    BY <2>1 DEF BackendInv, ToldOwn
  <2>2. CASE v # u
    BY <2>2 DEF BackendInv, ToldOwn
  <2> QED BY <2>1, <2>2
<1>7. SeatsDue'
  <2> SUFFICES ASSUME NEW v \in User PROVE Seats(v)' <= lapses'[v] + One(MayHold(v)')
    BY DEF SeatsDue
  <2>1. Seats(v) <= lapses[v] + One(MayHold(v))
    BY DEF BackendInv, SeatsDue
  <2>2. One(MayHold(v)) \in Nat /\ One(MayHold(v)') \in Nat
    BY DEF One
  <2>3. CASE v = u
    BY <1>3, <1>4, <1>5, <2>1, <2>2, <2>3
  <2>4. CASE v # u
    <3>1. MayHold(v)' <=> MayHold(v)
      BY <2>4 DEF MayHold, Going
    <3>2. One(MayHold(v)') = One(MayHold(v))
      BY <3>1 DEF One
    <3> QED BY <1>3, <1>4, <1>5, <2>1, <2>2, <2>4, <3>2
  <2> QED BY <2>3, <2>4
<1> QED
  BY <1>6, <1>7

(* The handlers write no more of the write-behind side than tickets. *)
LEMMA TicketsInv ==
  ASSUME Inv, tickets' \in [User -> Result \cup {None}],
         UNCHANGED <<memory, stream, group, pending, postgres, restarts, repeated>>
  PROVE  Inv'
<1> USE DEF memory, postgres
<1>1. TypeOK'
  BY DEF Inv, TypeOK
<1>2. Done' = Done /\ \A m, u : SeatsIn(Done, m, u)' = SeatsIn(Done, m, u)
  BY DEF Done, Acked, SeatsIn, Plays
<1>3. DoneIsStored'
  BY <1>2 DEF Inv, DoneIsStored, RowsOf
<1>4. InHand' /\ RowsHaveEntries'
  BY DEF Inv, InHand, RowsHaveEntries
<1> QED
  BY <1>1, <1>3, <1>4 DEF Inv
-----------------------------------------------------------------------------
(***************************************************************************)
(* The handlers, the client and the expiry of keys.                        *)
(***************************************************************************)

(* What each step of a client writes of its user, and that it writes of no *)
(* other.                                                                  *)
LEMMA ClientInv ==
  ASSUME BackendInv, NEW u \in User, ClientStep(u) \/ Expire(u)
  PROVE  BackendInv'
<1> USE DEF GoTo, Lapse, RedisFails, vars, memory, redis, postgres, faults
<1>1. /\ client \in [User -> {"away", "lookup", "publish", "mark", "polling", "playing"}]
      /\ told \in [User -> Result \cup {None}] /\ entries \in [User -> Nat]
      /\ queued \subseteq {v \in User : tickets[v] = None} /\ lapses \in [User -> Nat]
      /\ tickets \in [User -> Result \cup {None}] /\ Inv
  BY DEF BackendInv, BackendTypeOK, Inv, TypeOK
<1>2. One(TRUE) = 1 /\ One(FALSE) = 0 /\ One(MayHold(u)) \in {0, 1} /\ One(MayHold(u)') \in {0, 1}
  BY DEF One
<1> DEFINE Goes ==
      /\ UNCHANGED <<memory, stream, group, pending, postgres, restarts, repeated>>
      /\ tickets' \in [User -> Result \cup {None}]
      /\ BackendTypeOK'
      /\ \A v \in User \ {u} :
           /\ client'[v] = client[v] /\ told'[v] = told[v] /\ entries'[v] = entries[v]
           /\ tickets'[v] = tickets[v] /\ lapses'[v] = lapses[v] /\ (v \in queued' <=> v \in queued)
      /\ tickets'[u] # None => tickets'[u] = tickets[u]
      /\ client'[u] = "playing" => Own(u, told'[u])
      /\ entries'[u] + lapses[u] + One(MayHold(u)) <= entries[u] + lapses'[u] + One(MayHold(u)')
<1>3. ASSUME Goes PROVE BackendInv'
  <2>1. Inv'
    BY <1>1, <1>3, TicketsInv
  <2>2. ToldOwn' /\ SeatsDue'
    BY <1>3, <2>1, HandlerFrame
  <2> QED BY <1>3, <2>1, <2>2 DEF BackendInv
<1>4. CASE Post(u)
  <2>1. ~ MayHold(u) /\ ~ MayHold(u)'
    BY <1>1, <1>4 DEF Post, MayHold
  <2> QED BY <1>1, <1>2, <1>3, <1>4, <2>1 DEF Post, BackendTypeOK, One
<1>5. CASE Lookup(u)
  <2>1. ~ MayHold(u) /\ ~ MayHold(u)'
    BY <1>1, <1>5 DEF Lookup, MayHold
  <2> QED BY <1>1, <1>2, <1>3, <1>5, <2>1 DEF Lookup, BackendTypeOK, One
<1>6. CASE Publish(u)
  <2>1. ~ MayHold(u) /\ (MayHold(u)' <=> client'[u] = "mark")
    BY <1>1, <1>6 DEF Publish, MayHold
  <2>2. /\ UNCHANGED <<memory, stream, group, pending, postgres, restarts, repeated,
                       tickets, told, queued>>
        /\ \/ /\ entries' = [entries EXCEPT ![u] = @ + 1]
              /\ client' = [client EXCEPT ![u] = "mark"]
              /\ UNCHANGED lapses
           \/ /\ client' = [client EXCEPT ![u] = "away"]
              /\ \/ UNCHANGED <<entries, lapses>>
                 \/ entries' = [entries EXCEPT ![u] = @ + 1] /\ lapses' = [lapses EXCEPT ![u] = @ + 1]
    BY <1>6 DEF Publish
  <2>3. BackendTypeOK'
    BY <1>1, <2>2 DEF BackendTypeOK
  <2>4. entries'[u] + lapses[u] + One(MayHold(u)) <= entries[u] + lapses'[u] + One(MayHold(u)')
    BY <1>1, <1>2, <2>1, <2>2 DEF One
  <2> QED BY <1>1, <1>3, <2>2, <2>3, <2>4
<1>7. CASE Mark(u)
  <2>1. u \in queued' => MayHold(u)'
    BY <1>1, <1>7 DEF Mark, MayHold
  <2> QED BY <1>1, <1>2, <1>3, <1>7, <2>1 DEF Mark, BackendTypeOK, One
<1>8. CASE PollMatched(u)
  <2>1. MayHold(u) => MayHold(u)'
    BY <1>1, <1>8 DEF PollMatched, MayHold, Going
  <2>2. Own(u, tickets[u])
    BY <1>8 DEF PollMatched, BackendInv, ToldOwn
  <2> QED BY <1>1, <1>2, <1>3, <1>8, <2>1, <2>2 DEF PollMatched, BackendTypeOK, One
<1>9. CASE PollNotFound(u)
  <2>1. MayHold(u) => lapses'[u] = lapses[u] + 1
    BY <1>1, <1>9 DEF PollNotFound, MayHold
  <2> QED BY <1>1, <1>2, <1>3, <1>9, <2>1 DEF PollNotFound, BackendTypeOK, One
<1>10. CASE Leave(u)
  <2>1. ~ MayHold(u) /\ ~ MayHold(u)'
    BY <1>1, <1>10 DEF Leave, MayHold, Going
  <2> QED BY <1>1, <1>2, <1>3, <1>10, <2>1 DEF Leave, BackendTypeOK, One
<1>11. CASE Expire(u)
  <2>1. MayHold(u) /\ client[u] # "polling" => MayHold(u)'
    BY <1>1, <1>11 DEF Expire, MayHold, Going
  <2>2. /\ tickets' = [tickets EXCEPT ![u] = None] /\ queued' = queued \ {u}
        /\ IF client[u] = "polling" THEN lapses' = [lapses EXCEPT ![u] = @ + 1]
                                    ELSE UNCHANGED lapses
        /\ UNCHANGED <<memory, stream, group, pending, postgres, restarts, repeated,
                       client, told, entries>>
    BY <1>11 DEF Expire
  <2>3. BackendTypeOK'
    BY <1>1, <2>2 DEF BackendTypeOK
  <2>4. entries'[u] + lapses[u] + One(MayHold(u)) <= entries[u] + lapses'[u] + One(MayHold(u)')
    BY <1>1, <1>2, <2>1, <2>2 DEF One
  <2>5. client'[u] = "playing" => Own(u, told'[u])
    BY <2>2 DEF BackendInv, ToldOwn
  <2> QED BY <1>1, <1>3, <2>2, <2>3, <2>4, <2>5
<1> QED
  BY <1>4, <1>5, <1>6, <1>7, <1>8, <1>9, <1>10, <1>11 DEF ClientStep
-----------------------------------------------------------------------------
(***************************************************************************)
(* The match threads, the retry thread and the poller.                     *)
(***************************************************************************)

(* A match takes one waiting entry of each of its players for one seat.    *)
LEMMA FormingInv ==
  ASSUME BackendInv, NEW w \in Worker, NEW team \in Team, FormWaiting(w, team)
  PROVE  BackendInv'
<1> DEFINE r == [id |-> next_match_id, run |-> restarts, team |-> team]
<1>1. /\ Kept' = Kept \cup {r} /\ r.id = next_match_id /\ r.team = team
      /\ UNCHANGED <<tickets, client, told, queued, lapses, matches>>
      /\ Form(w, team)
      /\ entries' = [u \in User |-> entries[u] - (IF u \in team THEN 1 ELSE 0)]
      /\ \A u \in team : entries[u] > 0
  BY FormAdds DEF FormWaiting, BackendInv, Form, postgres
<1>2. Inv'
  BY <1>1, NextInv DEF BackendInv, Next
<1>3. BackendTypeOK'
  BY <1>1 DEF BackendInv, BackendTypeOK
<1>4. ToldOwn'
  BY <1>1 DEF BackendInv, ToldOwn, Own
<1> HIDE DEF r
<1>5. SeatsDue'
  <2> SUFFICES ASSUME NEW u \in User PROVE Seats(u)' <= lapses'[u] + One(MayHold(u)')
    BY DEF SeatsDue
  <2>1. /\ Seats(u) = entries[u] + Cardinality(Open(u))
        /\ IsFiniteSet(Open(u)) /\ Cardinality(Open(u)) \in Nat
    BY SeatsOpen DEF BackendInv, Inv
  <2>2. /\ Seats(u)' = entries'[u] + Cardinality(Open(u)')
        /\ IsFiniteSet(Open(u)') /\ Cardinality(Open(u)') \in Nat
    BY <1>2, SeatsAfter DEF Inv, SeatsCounted
  <2>3. Seats(u) <= lapses[u] + One(MayHold(u))
    BY DEF BackendInv, SeatsDue
  <2>4. MayHold(u)' <=> MayHold(u)
    BY <1>1 DEF MayHold, Going
  <2>5. One(MayHold(u)') = One(MayHold(u)) /\ One(MayHold(u)) \in Nat
    BY <2>4 DEF One
  <2>6. entries[u] \in Nat /\ lapses[u] \in Nat /\ lapses'[u] = lapses[u]
    BY <1>1 DEF BackendInv, BackendTypeOK
  <2>7. CASE u \in team
    <3>1. Open(u)' \subseteq Open(u) \cup {next_match_id}
      BY <1>1 DEF Open
    <3>2. /\ IsFiniteSet(Open(u) \cup {next_match_id})
          /\ Cardinality(Open(u) \cup {next_match_id}) <= Cardinality(Open(u)) + 1
          /\ Cardinality(Open(u) \cup {next_match_id}) \in Nat
      <4>1. /\ IsFiniteSet(Open(u) \cup {next_match_id})
            /\ Cardinality(Open(u) \cup {next_match_id})
                 = IF next_match_id \in Open(u) THEN Cardinality(Open(u))
                                                ELSE Cardinality(Open(u)) + 1
        BY <2>1, FS_AddElement
      <4> QED BY <2>1, <4>1
    <3>3. Cardinality(Open(u)') <= Cardinality(Open(u)) + 1
      BY <2>1, <2>2, <3>1, <3>2, FS_Subset
    <3>4. entries'[u] = entries[u] - 1
      BY <1>1, <2>7
    <3> QED BY <2>1, <2>2, <2>3, <2>5, <2>6, <3>3, <3>4
  <2>8. CASE u \notin team
    <3>1. Open(u)' \subseteq Open(u)
      BY <1>1, <2>8 DEF Open
    <3>2. Cardinality(Open(u)') <= Cardinality(Open(u))
      BY <2>1, <3>1, FS_Subset
    <3>3. entries'[u] = entries[u]
      BY <1>1, <2>6, <2>8
    <3> QED BY <2>1, <2>2, <2>3, <2>5, <2>6, <3>2, <3>3
  <2> QED BY <2>7, <2>8
<1> QED
  BY <1>2, <1>3, <1>4, <1>5 DEF BackendInv
(* A ticket is written for a match that goes on, or counts as a lapse; and *)
(* the end of a match leaves its players one seat less.                    *)
LEMMA WayInv == BackendInv /\ WriteBehindStep => BackendInv'
<1> SUFFICES ASSUME BackendInv, WriteBehindStep PROVE BackendInv'
  OBVIOUS
<1>1. /\ \/ (\E w \in Worker : WorkerStep(w)) \/ RetryStep \/ PollerStep
         \/ \E m \in MatchId : EndMatch(m)
      /\ queued' = {u \in queued : tickets'[u] = None}
      /\ lapses' = [u \in User |-> lapses[u] + (IF ToldOfThePast(u) THEN 1 ELSE 0)]
      /\ UNCHANGED <<client, told, entries>>
  BY DEF WriteBehindStep
<1>2. Inv'
  BY <1>1, NextInv DEF BackendInv, Next
<1>3. NothingNew
  BY <1>1, WayKeeps DEF BackendInv
<1>4. ASSUME NEW m \in MatchId, matches[m] = "ended" PROVE matches'[m] = "ended"
  <2>1. matches' = matches \/ InsertRows \/ \E n \in MatchId : EndMatch(n)
    BY <1>1 DEF WorkerStep, TryCommit, Defer, RetryStep, PopDeferred, Retry, Requeue, PollerStep,
       EnsureSyncGroup, ReadPending, ReadSyncBatch, InsertMatchBatch, InsertFails, AckSync, postgres
  <2>2. matches \in [MatchId -> {None, "active", "ended"}] /\ None # "ended"
    BY ConstantTypes DEF BackendInv, Inv, TypeOK
  <2>3. CASE InsertRows
    BY <1>4, <2>2, <2>3 DEF InsertRows, NewRows
  <2>4. CASE \E n \in MatchId : EndMatch(n)
    BY <1>4, <2>2, <2>4 DEF EndMatch
  <2> QED BY <1>4, <2>1, <2>3, <2>4
<1>5. /\ tickets \in [User -> Result \cup {None}] /\ tickets' \in [User -> Result \cup {None}]
      /\ lapses \in [User -> Nat] /\ entries \in [User -> Nat]
      /\ queued \subseteq {u \in User : tickets[u] = None}
      /\ Kept \subseteq Result /\ \A q \in Result : q.id \in MatchId
  BY <1>2, KeptTypes, ConstantTypes DEF BackendInv, BackendTypeOK, Inv, TypeOK
<1>6. BackendTypeOK'
  BY <1>1, <1>5 DEF BackendInv, BackendTypeOK
<1>7. ToldOwn'
  BY <1>1, <1>3 DEF NothingNew, BackendInv, ToldOwn, Own
<1>8. ASSUME NEW u \in User PROVE Seats(u)' <= lapses'[u] + One(MayHold(u)')
  <2>1. /\ Seats(u) = entries[u] + Cardinality(Open(u))
        /\ IsFiniteSet(Open(u)) /\ Cardinality(Open(u)) \in Nat
        /\ Seats(u)' = entries[u] + Cardinality(Open(u)')
        /\ IsFiniteSet(Open(u)') /\ Cardinality(Open(u)') \in Nat
    BY <1>1, <1>2, SeatsBefore, SeatsAfter DEF BackendInv, Inv, SeatsCounted
  <2>2. Open(u)' \subseteq Open(u)
    BY <1>3, <1>4, <1>5 DEF Open, NothingNew
  <2>3. Cardinality(Open(u)') <= Cardinality(Open(u))
    BY <2>1, <2>2, FS_Subset
  (* A match of the user that ends is one seat less. *)
  <2>4. ASSUME NEW q \in Kept, u \in q.team, Going(q), ~ Going(q)'
        PROVE  Cardinality(Open(u)') + 1 <= Cardinality(Open(u))
    <3>1. q.id \in Open(u)
      BY <2>4 DEF Open, Going
    <3>2. q.id \notin Open(u)'
      BY <2>4 DEF Open, Going
    <3>3. Cardinality(Open(u)') # Cardinality(Open(u))
      BY <2>1, <2>2, <3>1, <3>2, FS_Subset
    <3> QED BY <2>1, <2>3, <3>3
  <2>5. /\ lapses[u] \in Nat /\ entries[u] \in Nat
        /\ lapses'[u] = lapses[u] + (IF ToldOfThePast(u) THEN 1 ELSE 0)
    BY <1>1, <1>5
  <2>6. Seats(u) <= lapses[u] + One(MayHold(u))
    BY DEF BackendInv, SeatsDue
  <2>7. CASE ~ MayHold(u) \/ MayHold(u)' \/ ToldOfThePast(u)
    BY <2>1, <2>3, <2>5, <2>6, <2>7 DEF One
  <2>8. CASE MayHold(u) /\ ~ MayHold(u)' /\ ~ ToldOfThePast(u)
    <3>1. \E q \in Kept : u \in q.team /\ Going(q) /\ ~ Going(q)'
      <4>1. CASE client[u] = "playing"
        BY <1>1, <2>8, <4>1 DEF MayHold, BackendInv, ToldOwn, Own, Going
      <4>2. CASE client[u] = "polling"
        <5>1. PICK q : q = tickets'[u]
          OBVIOUS
        <5>2. q # None
          <6>1. CASE u \in queued
            BY <1>1, <2>8, <4>2, <5>1, <6>1 DEF MayHold
          <6>2. CASE tickets[u] # None
            BY <1>3, <1>5, <5>1, <6>2, ConstantTypes DEF NothingNew
          <6> QED BY <2>8, <4>2, <6>1, <6>2 DEF MayHold
        <5>3. ~ Going(q)'
          BY <1>1, <2>8, <4>2, <5>1, <5>2 DEF MayHold, Going
        <5>4. q \in Kept /\ u \in q.team
          BY <1>3, <5>1, <5>2 DEF NothingNew, BackendInv, ToldOwn, Own
        <5>5. Going(q)
          <6>1. CASE q = tickets[u]
            BY <1>5, <2>8, <4>2, <5>2, <6>1 DEF MayHold
          <6>2. CASE q # tickets[u]
            BY <2>8, <4>2, <5>1, <6>2 DEF ToldOfThePast, Going
          <6> QED BY <6>1, <6>2
        <5> QED BY <5>3, <5>4, <5>5
      <4> QED BY <1>1, <2>8, <4>1, <4>2 DEF MayHold
    <3>2. Cardinality(Open(u)') + 1 <= Cardinality(Open(u))
      BY <2>4, <3>1
    <3> QED BY <2>1, <2>5, <2>6, <2>8, <3>2 DEF One
  <2> QED BY <2>7, <2>8
<1> QED
  BY <1>2, <1>6, <1>7, <1>8 DEF BackendInv, SeatsDue
-----------------------------------------------------------------------------
(* At first nobody waits and nobody plays. *)
LEMMA InitBackend == BackendInit => BackendInv
<1> SUFFICES ASSUME BackendInit PROVE BackendInv
  OBVIOUS
<1>1. Inv /\ tickets = [u \in User |-> None] /\ inline = [w \in Worker |-> None]
      /\ retry_q = <<>> /\ retrying = None /\ stream = <<>>
  BY InitInv DEF BackendInit, Init
<1>2. BackendTypeOK
  BY <1>1 DEF BackendInit, BackendTypeOK
<1>3. ToldOwn
  BY <1>1 DEF BackendInit, ToldOwn
<1>4. Kept = {}
  BY <1>1 DEF Kept, InMemory, Deferred, Range
<1>5. \A u \in User : Open(u) = {}
  BY <1>4 DEF Open
<1>6. SeatsDue
  BY <1>1, <1>5, SeatsOpen, FS_EmptySet DEF Inv, BackendInit, SeatsDue, MayHold, One
<1> QED
  BY <1>1, <1>2, <1>3, <1>6 DEF BackendInv

(* Every step of the handlers, the clients and the threads keeps it. *)
LEMMA NextBackend == BackendInv /\ [BackendNext]_<<vars, backendVars>> => BackendInv'
<1> SUFFICES ASSUME BackendInv, [BackendNext]_<<vars, backendVars>> PROVE BackendInv'
  OBVIOUS
<1>1. CASE UNCHANGED <<vars, backendVars>>
  <2>1. Inv'
    BY <1>1, NextInv DEF BackendInv
  <2>2. /\ UNCHANGED <<inline, retry_q, retrying, stream, matches, tickets>>
        /\ UNCHANGED <<client, told, entries, queued, lapses>>
    BY <1>1 DEF vars, memory, redis, postgres, backendVars
  <2>3. BackendTypeOK'
    BY <2>2 DEF BackendInv, BackendTypeOK
  <2>4. ToldOwn'
    BY <2>2, SameKept DEF BackendInv, ToldOwn, Own
  <2>5. \A u \in User : MayHold(u)' <=> MayHold(u)
    BY <2>2 DEF MayHold, Going
  <2>6. \A u \in User : Seats(u)' = Seats(u)
    BY <2>2 DEF Seats, InMemory, Deferred
  <2>7. SeatsDue'
    BY <2>2, <2>5, <2>6 DEF BackendInv, SeatsDue, One
  <2> QED BY <2>1, <2>3, <2>4, <2>7 DEF BackendInv
<1>2. CASE BackendNext
  BY <1>2, ClientInv, FormingInv, WayInv DEF BackendNext
<1> QED
  BY <1>1, <1>2

(* Every variable of the handlers keeps its type: no match takes the entry *)
(* of a user that has none, and no key is both "queued" and a ticket.      *)
THEOREM HandlersTypes == BackendSpec => []BackendTypeOK
<1>1. BackendInv => BackendTypeOK
  BY DEF BackendInv
<1> QED
  BY <1>1, InitBackend, NextBackend, PTL DEF BackendSpec

(* README.md's "no player is ever double booked", as far as it is true: a  *)
(* client holds one place, and one more for each time it was misinformed,  *)
(* whatever calls fail and in whatever way.                                *)
THEOREM BookedOnce == BackendSpec => []OneSeatPerLapse
<1>1. BackendInv => OneSeatPerLapse
  <2> SUFFICES ASSUME BackendInv, NEW u \in User PROVE Seats(u) <= 1 + lapses[u]
    BY DEF OneSeatPerLapse
  <2>1. Seats(u) <= lapses[u] + One(MayHold(u)) /\ lapses[u] \in Nat /\ entries[u] \in Nat
    BY DEF BackendInv, SeatsDue, BackendTypeOK
  <2>2. Seats(u) \in Nat
    BY <2>1, SeatsOpen DEF BackendInv, Inv
  <2>3. One(MayHold(u)) \in {0, 1}
    BY DEF One
  <2> QED BY <2>1, <2>2, <2>3
<1> QED
  BY <1>1, InitBackend, NextBackend, PTL DEF BackendSpec
=============================================================================
