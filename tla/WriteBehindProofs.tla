------------------------- MODULE WriteBehindProofs --------------------------
(***************************************************************************)
(* Theorems about WriteBehind, for any number of match threads, users and  *)
(* matches, any batch size, and any number of failed calls and crashes.    *)
(***************************************************************************)
EXTENDS WriteBehind, SequenceTheorems, FiniteSetTheorems, SumTheorems, TLAPS

(* The entries acknowledged, and those in hand to be. *)
Done == Acked \cup (IF poller = "ack" THEN batch ELSE {})

(* All of them have a row of matches, and each of their players a row of   *)
(* match_players.                                                          *)
DoneIsStored ==
  /\ \A i \in Done : stored[stream[i].id] # None
  /\ \A m \in MatchId, u \in User : Cardinality(SeatsIn(Done, m, u)) <= RowsOf(m, u)

(* A row of matches was inserted for an entry of the stream with its id.   *)
RowsHaveEntries ==
  \A m \in MatchId :
    /\ matches[m] = None <=> stored[m] = None
    /\ stored[m] # None => stored[m].id = m /\ \E i \in DOMAIN stream : stored[m] = stream[i]

(* A deferred match that waits for its backoff is in the retry thread's    *)
(* hand.                                                                   *)
InHand == backoff => retrying # None

Inv == TypeOK /\ InHand /\ RowsHaveEntries /\ DoneIsStored

(* What no step takes back: an entry of the stream, a row of matches, a    *)
(* row of match_players.                                                   *)
StreamGrows ==
  /\ DOMAIN stream \subseteq DOMAIN stream'
  /\ \A i \in DOMAIN stream : stream'[i] = stream[i]

TablesGrow ==
  /\ \A m \in MatchId : stored[m] # None => stored'[m] # None
  /\ \A m \in MatchId, u \in User : RowsOf(m, u)' >= RowsOf(m, u)

(* The constants and the sets derived from them. *)
LEMMA ConstantTypes ==
  /\ GroupSize \in Nat \ {0} /\ BatchSize \in Nat \ {0} /\ PendingLimit \in Nat \ {0}
  /\ MaxMatches \in Nat /\ MaxRestarts \in Nat
  /\ MatchId \subseteq Nat \ {0}
  /\ \A r \in Result : r.id \in MatchId /\ r.team \in SUBSET User /\ r # None
  /\ \A t \in Try : t # None /\ t.result \in Result /\ t.tries \in 0 .. 2
  /\ None # "active" /\ None # "ended"
BY WriteBehindAssumption, NoneAssumption DEF MatchId, Result, Team, Try

(* The entries of the stream are results, and those in hand are entries. *)
LEMMA EntryTypes ==
  ASSUME TypeOK
  PROVE  /\ Len(stream) \in Nat /\ DOMAIN stream = 1 .. Len(stream)
         /\ \A i \in DOMAIN stream : stream[i] \in Result
         /\ batch \subseteq DOMAIN stream
         /\ IsFiniteSet(batch)
<1>1. stream \in Seq(Result) /\ batch \subseteq pending /\ pending \subseteq DOMAIN stream
  BY DEF TypeOK
<1>2. Len(stream) \in Nat /\ DOMAIN stream = 1 .. Len(stream)
  BY <1>1, LenProperties
<1>3. \A i \in DOMAIN stream : stream[i] \in Result
  BY <1>1, ElementOfSeq
<1>4. IsFiniteSet(DOMAIN stream)
  BY <1>2, FS_Interval
<1> QED
  BY <1>1, <1>2, <1>3, <1>4, FS_Subset

(* Appending a result leaves the entries before it where they are. *)
LEMMA AppendGrows ==
  ASSUME TypeOK, NEW r \in Result, stream' = Append(stream, r)
  PROVE  /\ stream' \in Seq(Result)
         /\ Len(stream') = Len(stream) + 1
         /\ StreamGrows
         /\ stream'[Len(stream) + 1] = r
<1>1. stream \in Seq(Result)
  BY DEF TypeOK
<1>2. /\ stream' \in Seq(Result) /\ Len(stream') = Len(stream) + 1
      /\ \A i \in 1 .. Len(stream) : stream'[i] = stream[i]
      /\ stream'[Len(stream) + 1] = r
  BY <1>1, AppendProperties
<1>3. DOMAIN stream = 1 .. Len(stream) /\ DOMAIN stream' = 1 .. Len(stream')
      /\ Len(stream) \in Nat
  BY <1>1, <1>2, LenProperties
<1> QED
  BY <1>2, <1>3 DEF StreamGrows

(* A player's rows in a match are counted by natural numbers. *)
LEMMA RowTypes ==
  ASSUME NEW table \in [Row -> Nat], NEW m \in MatchId, NEW u \in User
  PROVE  /\ table[[match |-> m, user |-> u, active |-> TRUE]] \in Nat
         /\ table[[match |-> m, user |-> u, active |-> FALSE]] \in Nat
BY DEF Row

(* What is done is in the stream. *)
LEMMA DoneTypes ==
  ASSUME TypeOK
  PROVE  /\ Done \subseteq DOMAIN stream
         /\ \A entries \in SUBSET DOMAIN stream : \A m, u :
              IsFiniteSet(SeatsIn(entries, m, u)) /\ Cardinality(SeatsIn(entries, m, u)) \in Nat
<1>1. Done \subseteq DOMAIN stream
  BY EntryTypes DEF Done, Acked
<1>2. IsFiniteSet(DOMAIN stream)
  BY EntryTypes, FS_Interval
<1> QED
  BY <1>1, <1>2, FS_Subset, FS_CardinalityType DEF SeatsIn

(* The rows of a player in a match, of either kind. *)
LEMMA RowsOfType ==
  ASSUME TypeOK, NEW m \in MatchId, NEW u \in User
  PROVE  RowsOf(m, u) \in Nat
<1>1. rows \in [Row -> Nat]
  BY DEF TypeOK
<1> QED
  BY <1>1, RowTypes DEF RowsOf

(* What is done stays stored when no more is done. *)
LEMMA DoneFrame ==
  ASSUME Inv, TypeOK', StreamGrows, TablesGrow, Done' \subseteq Done
  PROVE  DoneIsStored'
<1>1. Done \subseteq DOMAIN stream
  BY DoneTypes DEF Inv
<1>2. ASSUME NEW i \in Done' PROVE stored'[stream'[i].id] # None
  <2>1. i \in DOMAIN stream /\ stream'[i] = stream[i] /\ stored[stream[i].id] # None
    BY <1>1, <1>2 DEF StreamGrows, Inv, DoneIsStored
  <2>2. stream[i].id \in MatchId
    BY <2>1, EntryTypes, ConstantTypes DEF Inv
  <2> QED
    BY <2>1, <2>2 DEF TablesGrow
<1>3. ASSUME NEW m \in MatchId, NEW u \in User
      PROVE  Cardinality(SeatsIn(Done, m, u)') <= RowsOf(m, u)'
  <2>1. SeatsIn(Done, m, u)' \subseteq SeatsIn(Done, m, u)
    BY <1>1 DEF SeatsIn, Plays, StreamGrows
  <2>2. IsFiniteSet(SeatsIn(Done, m, u)) /\ Cardinality(SeatsIn(Done, m, u)) \in Nat
    BY <1>1, DoneTypes DEF Inv
  <2>3. /\ Cardinality(SeatsIn(Done, m, u)') <= Cardinality(SeatsIn(Done, m, u))
        /\ Cardinality(SeatsIn(Done, m, u)') \in Nat
    BY <2>1, <2>2, FS_Subset, FS_CardinalityType
  <2>4. RowsOf(m, u) \in Nat /\ RowsOf(m, u)' \in Nat
    <3>1. rows \in [Row -> Nat] /\ rows' \in [Row -> Nat]
      BY DEF Inv, TypeOK
    <3> QED
      BY <3>1, RowTypes DEF RowsOf
  <2>5. Cardinality(SeatsIn(Done, m, u)) <= RowsOf(m, u) /\ RowsOf(m, u)' >= RowsOf(m, u)
    BY DEF Inv, DoneIsStored, TablesGrow
  <2> QED
    BY <2>2, <2>3, <2>4, <2>5
<1> QED
  BY <1>2, <1>3 DEF DoneIsStored

(* A step that moves neither the group nor its pending list, and gives the *)
(* poller no batch to acknowledge, does nothing more.                      *)
LEMMA SameDone ==
  ASSUME TypeOK, TypeOK', StreamGrows, group' = group, pending' = pending,
         poller' = "ack" => poller = "ack" /\ batch' = batch
  PROVE  Done' \subseteq Done
<1>1. group.last \in -1 .. Len(stream) /\ stream' \in Seq(Result) /\ group.begin \in Nat
  BY EntryTypes DEF TypeOK, NoGroup
<1>2. \A i \in DOMAIN stream' : i \in Nat \ {0}
  BY <1>1, LenProperties
<1>3. \A i \in DOMAIN stream' : i <= group.last => i \in DOMAIN stream
  BY <1>1, <1>2, EntryTypes
<1> QED
  BY <1>3 DEF Done, Acked

(* A step that leaves the tables or the stream alone takes nothing back. *)
LEMMA SameTables ==
  ASSUME Inv, StreamGrows, UNCHANGED <<matches, stored, rows>>
  PROVE  TablesGrow /\ RowsHaveEntries'
<1>1. ASSUME NEW m \in MatchId, NEW u \in User
      PROVE  RowsOf(m, u)' = RowsOf(m, u) /\ RowsOf(m, u) \in Nat
  BY RowsOfType DEF RowsOf, Inv
<1>2. \A m \in MatchId, u \in User : RowsOf(m, u)' >= RowsOf(m, u)
  BY <1>1
<1>3. RowsHaveEntries'
  BY DEF Inv, RowsHaveEntries, StreamGrows
<1> QED
  BY <1>2, <1>3 DEF TablesGrow

LEMMA SameStream == ASSUME UNCHANGED stream PROVE StreamGrows
BY DEF StreamGrows

(* Nothing is stored, delivered or in hand at first. *)
LEMMA InitInv == Init => Inv
<1> SUFFICES ASSUME Init PROVE Inv
  OBVIOUS
<1> USE ConstantTypes
<1>1. stream \in Seq(Result) /\ Len(stream) = 0 /\ DOMAIN stream = {}
  BY EmptySeq DEF Init
<1>2. TypeOK
  <2>1. /\ retry_q \in Seq(Result) /\ next_match_id \in 1 .. MaxMatches + 1
        /\ restarts \in 0 .. MaxRestarts
    BY EmptySeq DEF Init
  <2>2. group = NoGroup
    BY DEF Init
  <2> QED
    BY <1>1, <2>1, <2>2 DEF Init, TypeOK
<1> QED
  <2>1. Done = {}
    BY <1>1 DEF Init, Done, Acked
  <2>2. ASSUME NEW m \in MatchId, NEW u \in User
        PROVE  Cardinality(SeatsIn(Done, m, u)) <= RowsOf(m, u)
    <3>1. SeatsIn(Done, m, u) = {}
      BY <2>1 DEF SeatsIn
    <3>2. RowsOf(m, u) \in Nat /\ Cardinality({}) = 0
      BY <1>2, RowsOfType, FS_EmptySet
    <3> QED
      BY <3>1, <3>2
  <2>3. RowsHaveEntries
    BY DEF Init, RowsHaveEntries
  <2> QED
    BY <1>2, <2>1, <2>2, <2>3 DEF Init, Inv, InHand, DoneIsStored
-----------------------------------------------------------------------------
(***************************************************************************)
(* The steps that only add.                                                *)
(***************************************************************************)

(* The invariant survives a step that moves neither the group nor its      *)
(* pending list, takes nothing out of the tables, and gives the poller no  *)
(* batch to acknowledge.                                                   *)
LEMMA FrameInv ==
  ASSUME Inv, TypeOK', StreamGrows, TablesGrow, RowsHaveEntries',
         group' = group, pending' = pending,
         poller' = "ack" => poller = "ack" /\ batch' = batch,
         backoff' => retrying' # None
  PROVE  Inv'
<1>1. Done' \subseteq Done
  BY SameDone DEF Inv
<1> QED
  BY <1>1, DoneFrame DEF Inv, InHand

(* A try to commit a match, whatever becomes of it, adds at most one entry *)
(* to the stream.                                                          *)
LEMMA CommitEffect ==
  ASSUME TypeOK, NEW r \in Result, CommitSucceeds(r) \/ CommitFails(r)
  PROVE  /\ tickets' \in [User -> Result \cup {None}]
         /\ repeated' \in [MatchId -> Nat]
         /\ stream' \in Seq(Result) /\ StreamGrows
         /\ group' = group /\ group' \in [begin : Nat, last : 0 .. Len(stream')] \cup {NoGroup}
         /\ pending' = pending /\ pending' \subseteq DOMAIN stream'
<1>1. stream' = stream \/ stream' = Append(stream, r)
  BY DEF CommitSucceeds, CommitFails
<1>2. /\ stream' \in Seq(Result) /\ StreamGrows
      /\ Len(stream') \in Nat /\ Len(stream) \in Nat /\ Len(stream) <= Len(stream')
  <2>1. CASE stream' = stream
    BY <2>1, EntryTypes, SameStream DEF TypeOK
  <2>2. CASE stream' = Append(stream, r)
    BY <2>2, AppendGrows, EntryTypes
  <2> QED
    BY <1>1, <2>1, <2>2
<1>3. tickets' \in [User -> Result \cup {None}]
  BY DEF TypeOK, CommitSucceeds, CommitFails, Announce
<1>4. /\ group' = group /\ pending' = pending
      /\ repeated' \in [MatchId -> Nat]
  BY DEF TypeOK, CommitSucceeds, CommitFails
<1>5. group \in [begin : Nat, last : 0 .. Len(stream')] \cup {NoGroup}
  BY <1>2 DEF TypeOK
<1>6. pending \subseteq DOMAIN stream'
  BY <1>2 DEF TypeOK, StreamGrows
<1> QED
  BY <1>2, <1>3, <1>4, <1>5, <1>6

(* A new match is typed, and in a free hand. *)
LEMMA FormInv ==
  ASSUME Inv, NEW w \in Worker, NEW team \in Team, Form(w, team)
  PROVE  Inv'
<1> USE ConstantTypes DEF Inv, Form, memory, redis, postgres, faults
<1>1. [result |-> [id |-> next_match_id, run |-> restarts, team |-> team], tries |-> 0] \in Try
  BY DEF TypeOK, Try, Result
<1>2. inline' \in [Worker -> Try \cup {None}]
  BY <1>1 DEF TypeOK
<1>3. next_match_id' \in 1 .. MaxMatches + 1
  BY DEF TypeOK, MatchId
<1>4. TypeOK'
  BY <1>2, <1>3 DEF TypeOK
<1> QED
  BY <1>4, FrameInv, SameStream, SameTables DEF InHand

(* The tries in line and the retries write to the stream and to tickets only. *)
LEMMA TryCommitInv ==
  ASSUME Inv, NEW w \in Worker, TryCommit(w)
  PROVE  Inv'
<1> USE ConstantTypes DEF Inv, TryCommit, postgres
<1> DEFINE r == inline[w].result
<1>1. inline[w] \in Try /\ r \in Result
  BY DEF TypeOK
<1>2. CommitSucceeds(r) \/ CommitFails(r)
  OBVIOUS
<1>3. inline' \in [Worker -> Try \cup {None}]
  <2>1. [inline[w] EXCEPT !.tries = @ + 1] \in Try
    BY <1>1 DEF Try
  <2> QED
    BY <2>1 DEF TypeOK
<1>4. TypeOK'
  BY <1>1, <1>2, <1>3, CommitEffect DEF TypeOK
<1> QED
  BY <1>1, <1>2, <1>4, CommitEffect, FrameInv, SameTables DEF InHand

LEMMA DeferInv ==
  ASSUME Inv, NEW w \in Worker, Defer(w)
  PROVE  Inv'
<1> USE ConstantTypes DEF Inv, Defer, redis, postgres, faults
<1>1. inline[w].result \in Result /\ retry_q \in Seq(Result)
  BY DEF TypeOK
<1>2. retry_q' \in Seq(Result)
  BY <1>1, AppendProperties
<1>3. TypeOK'
  BY <1>2 DEF TypeOK
<1> QED
  BY <1>3, FrameInv, SameStream, SameTables DEF InHand

LEMMA PopDeferredInv ==
  ASSUME Inv, PopDeferred
  PROVE  Inv'
<1> USE ConstantTypes DEF Inv, PopDeferred, redis, postgres, faults
<1>1. retry_q' \in Seq(Result) /\ retrying' \in Result
  BY HeadTailProperties DEF TypeOK
<1>2. TypeOK'
  BY <1>1 DEF TypeOK
<1> QED
  BY <1>1, <1>2, FrameInv, SameStream, SameTables DEF InHand

LEMMA RetryInv ==
  ASSUME Inv, Retry
  PROVE  Inv'
<1> USE ConstantTypes DEF Inv, Retry, postgres
<1>1. retrying \in Result
  BY DEF TypeOK
<1>2. CommitSucceeds(retrying) \/ CommitFails(retrying)
  OBVIOUS
<1>3. TypeOK'
  BY <1>1, <1>2, CommitEffect DEF TypeOK
<1> QED
  BY <1>1, <1>2, <1>3, CommitEffect, FrameInv, SameTables DEF InHand

LEMMA RequeueInv ==
  ASSUME Inv, Requeue
  PROVE  Inv'
<1> USE ConstantTypes DEF Inv, Requeue, redis, postgres, faults
<1>1. retrying \in Result /\ retry_q \in Seq(Result)
  BY DEF TypeOK, InHand
<1>2. retry_q' \in Seq(Result)
  BY <1>1, AppendProperties
<1>3. TypeOK'
  BY <1>2 DEF TypeOK
<1> QED
  BY <1>3, FrameInv, SameStream, SameTables DEF InHand

(* A crash empties what is in memory: nothing is in hand to acknowledge. *)
LEMMA CrashInv ==
  ASSUME Inv, Crash
  PROVE  Inv'
<1> USE ConstantTypes DEF Inv, Crash, PollerGoes, redis, postgres
<1>1. retry_q' \in Seq(Result) /\ next_match_id' \in 1 .. MaxMatches + 1 
      /\ restarts' \in 0 .. MaxRestarts
  BY EmptySeq DEF TypeOK
<1>2. TypeOK'
  BY <1>1 DEF TypeOK
<1> QED
  BY <1>2, FrameInv, SameStream, SameTables DEF InHand
-----------------------------------------------------------------------------
(***************************************************************************)
(* The poller, and the tables it writes.                                   *)
(***************************************************************************)

(* The group begins at the end of the stream: nothing before it counts.    *)
LEMMA EnsureSyncGroupInv ==
  ASSUME Inv, EnsureSyncGroup
  PROVE  Inv'
<1> USE ConstantTypes DEF Inv, EnsureSyncGroup, PollerGoes, RedisFails, postgres
<1>1. Len(stream) \in Nat
  BY EntryTypes
<1>2. group' \in [begin : Nat, last : 0 .. Len(stream)] \cup {NoGroup}
  BY <1>1 DEF TypeOK
<1>3. TypeOK'
  BY <1>2 DEF TypeOK
<1>4. CASE group' = group
  BY <1>3, <1>4, FrameInv, SameStream, SameTables DEF InHand
<1>5. CASE group' # group
  <2>1. group'.begin = group'.last /\ group'.begin \in Nat
    BY <1>1, <1>5
  <2>2. Done' \subseteq Done
    BY <1>1, <2>1, EntryTypes DEF Done, Acked
  <2>3. TablesGrow /\ RowsHaveEntries' /\ StreamGrows
    BY SameStream, SameTables
  <2> QED
    BY <1>3, <2>2, <2>3, DoneFrame DEF InHand
<1> QED
  BY <1>4, <1>5

(* A recovered batch is inserted, not acknowledged. *)
LEMMA ReadPendingInv ==
  ASSUME Inv, ReadPending
  PROVE  Inv'
<1> USE ConstantTypes DEF Inv, ReadPending, PollerGoes, RedisFails, redis, postgres
<1>1. batch' \subseteq pending /\ poller' \in {"read", "insert"}
  BY DEF Oldest
<1>2. TypeOK'
  BY <1>1 DEF TypeOK
<1> QED
  BY <1>1, <1>2, FrameInv, SameStream, SameTables DEF InHand

(* What the group delivers becomes pending, whether the poller gets it or  *)
(* the reply is lost.                                                      *)
LEMMA ReadSyncBatchInv ==
  ASSUME Inv, ReadSyncBatch
  PROVE  Inv'
<1> USE ConstantTypes DEF Inv, ReadSyncBatch, PollerGoes, RedisFails, postgres
<1>1. /\ Len(stream) \in Nat /\ DOMAIN stream = 1 .. Len(stream)
      /\ group.last \in 0 .. Len(stream) /\ group.begin \in Nat
      /\ group \in [begin : Nat, last : 0 .. Len(stream)]
  BY EntryTypes DEF TypeOK
<1>2. ReadsTo \in 0 .. Len(stream) /\ group.last <= ReadsTo
  BY <1>1 DEF ReadsTo
<1>3. group' \in [begin : Nat, last : 0 .. Len(stream)]
      /\ group'.begin = group.begin /\ group'.last = ReadsTo
  BY <1>1, <1>2
<1>4. NewEntries \subseteq DOMAIN stream
  BY <1>1, <1>2 DEF NewEntries
<1>5. poller' \in {"read", "insert"} /\ batch' \subseteq pending'
  BY DEF TypeOK
<1>6. TypeOK'
  BY <1>3, <1>4, <1>5 DEF TypeOK
<1>7. Done' \subseteq Done
  <2> SUFFICES ASSUME NEW i \in Acked' PROVE i \in Acked
    BY <1>5 DEF Done
  <2>1. i \in DOMAIN stream /\ group.begin < i /\ i <= ReadsTo /\ i \notin pending \cup NewEntries
    BY <1>3 DEF Acked
  <2>2. i <= group.last
    BY <1>1, <1>2, <2>1 DEF NewEntries
  <2> QED
    BY <2>1, <2>2 DEF Acked
<1>8. TablesGrow /\ RowsHaveEntries' /\ StreamGrows
  BY SameStream, SameTables
<1> QED
  BY <1>6, <1>7, <1>8, DoneFrame DEF InHand

(* A new row of matches is the first entry of the batch with its id. *)
LEMMA NewRowsEffect ==
  ASSUME TypeOK, RowsHaveEntries, NewRows, UNCHANGED stream
  PROVE  /\ matches' \in [MatchId -> {None, "active", "ended"}]
         /\ stored' \in [MatchId -> Result \cup {None}]
         /\ \A m \in MatchId : stored[m] # None => stored'[m] # None
         /\ \A i \in batch : stored'[stream[i].id] # None
         /\ RowsHaveEntries'
<1> USE ConstantTypes
<1> DEFINE Entries(m) == {i \in batch : stream[i].id = m}
           IsNew(m)   == matches[m] = None /\ Entries(m) # {}
<1>1. /\ matches \in [MatchId -> {None, "active", "ended"}]
      /\ stored \in [MatchId -> Result \cup {None}]
  BY DEF TypeOK
<1>2. /\ matches' = [m \in MatchId |-> IF IsNew(m) THEN "active" ELSE matches[m]]
      /\ stored' = [m \in MatchId |-> IF IsNew(m) THEN stream[Min(Entries(m))] ELSE stored[m]]
  BY DEF NewRows
<1>3. \A i \in batch : i \in DOMAIN stream /\ i \in Nat /\ stream[i] \in Result
  BY EntryTypes
<1>4. ASSUME NEW m \in MatchId, IsNew(m)
      PROVE  /\ stored'[m] \in Result /\ stored'[m].id = m
             /\ \E i \in DOMAIN stream : stored'[m] = stream[i]
  <2> DEFINE E == Entries(m)
  <2>1. E \in SUBSET Nat /\ E # {}
    BY <1>3, <1>4
  <2>2. stored'[m] = stream[Min(E)]
    BY <1>2, <1>4
  <2> HIDE DEF E
  <2>3. Min(E) \in E
    BY <2>1, LeastNumber DEF Min
  <2> QED
    BY <1>3, <2>2, <2>3 DEF E
<1>5. \A m \in MatchId : IsNew(m) => matches'[m] = "active"
  BY <1>2
<1>6. \A m \in MatchId : ~ IsNew(m) => matches'[m] = matches[m] /\ stored'[m] = stored[m]
  BY <1>2
<1>7. matches' \in [MatchId -> {None, "active", "ended"}]
  BY <1>1, <1>2
<1>8. stored' \in [MatchId -> Result \cup {None}]
  <2>1. stored' = [m \in MatchId |-> stored'[m]]
    BY <1>2
  <2>2. \A m \in MatchId : stored'[m] \in Result \cup {None}
    BY <1>1, <1>4, <1>6
  <2> QED
    BY <2>1, <2>2
<1>9. ASSUME NEW i \in batch PROVE stored'[stream[i].id] # None
  <2> DEFINE m == stream[i].id
  <2>1. m \in MatchId /\ i \in Entries(m)
    BY <1>3
  <2>2. CASE IsNew(m)
    BY <1>4, <2>1, <2>2
  <2>3. CASE ~ IsNew(m)
    <3>1. matches[m] # None /\ stored'[m] = stored[m]
      BY <1>6, <2>1, <2>3
    <3> QED
      BY <2>1, <3>1 DEF RowsHaveEntries
  <2> QED
    BY <2>2, <2>3
<1>10. ASSUME NEW m \in MatchId
       PROVE  /\ matches'[m] = None <=> stored'[m] = None
              /\ stored'[m] # None =>
                   stored'[m].id = m /\ \E i \in DOMAIN stream : stored'[m] = stream[i]
  <2>1. CASE IsNew(m)
    BY <1>4, <1>5, <2>1
  <2>2. CASE ~ IsNew(m)
    BY <1>6, <2>2 DEF RowsHaveEntries
  <2> QED
    BY <2>1, <2>2
<1> HIDE DEF IsNew, Entries
<1>11. \A m \in MatchId : stored[m] # None => stored'[m] # None
  BY <1>4, <1>6
<1> QED
  BY <1>7, <1>8, <1>9, <1>10, <1>11 DEF RowsHaveEntries

(* After InsertRows the players of the batch have one more active row per  *)
(* entry, and nobody has fewer than before.                                *)
LEMMA InsertEffect ==
  ASSUME Inv, InsertRows, UNCHANGED stream
  PROVE  /\ matches' \in [MatchId -> {None, "active", "ended"}]
         /\ stored' \in [MatchId -> Result \cup {None}]
         /\ rows' \in [Row -> Nat]
         /\ in_match' \in [User -> BOOLEAN]
         /\ matches_played' \in [User -> Nat]
         /\ TablesGrow /\ RowsHaveEntries'
         /\ \A i \in batch : stored'[stream[i].id] # None
         /\ \A m \in MatchId, u \in User :
              RowsOf(m, u)' = RowsOf(m, u) + Cardinality(SeatsIn(batch, m, u))
<1> USE ConstantTypes DEF InsertRows, Inv
<1>1. \A m, u : Cardinality(SeatsIn(batch, m, u)) \in Nat
  BY EntryTypes, DoneTypes
<1>2. rows \in [Row -> Nat]
  BY DEF TypeOK
<1>3. rows' = [r \in Row |->
                 rows[r] + (IF r.active THEN Cardinality(SeatsIn(batch, r.match, r.user)) ELSE 0)]
  BY DEF RowsAfter
<1>4. rows' \in [Row -> Nat]
  BY <1>1, <1>2, <1>3
<1>5. in_match' \in [User -> BOOLEAN] /\ matches_played' \in [User -> Nat]
  BY DEF TypeOK
<1>6. /\ matches' \in [MatchId -> {None, "active", "ended"}]
      /\ stored' \in [MatchId -> Result \cup {None}]
      /\ \A m \in MatchId : stored[m] # None => stored'[m] # None
      /\ \A i \in batch : stored'[stream[i].id] # None
      /\ RowsHaveEntries'
  BY NewRowsEffect
<1>7. ASSUME NEW m \in MatchId, NEW u \in User
      PROVE  /\ RowsOf(m, u)' = RowsOf(m, u) + Cardinality(SeatsIn(batch, m, u))
             /\ RowsOf(m, u) \in Nat
  <2> DEFINE seat == [match |-> m, user |-> u, active |-> TRUE]
             past == [match |-> m, user |-> u, active |-> FALSE]
  <2>1. seat \in Row /\ past \in Row /\ seat.active /\ ~ past.active
        /\ seat.match = m /\ seat.user = u
    BY DEF Row
  <2>2. /\ rows'[seat] = rows[seat] + Cardinality(SeatsIn(batch, m, u))
        /\ rows'[past] = rows[past] + 0
    BY <1>3, <2>1
  <2>3. rows[seat] \in Nat /\ rows[past] \in Nat /\ Cardinality(SeatsIn(batch, m, u)) \in Nat
    BY <1>1, <1>2, <2>1
  <2> QED
    BY <2>2, <2>3 DEF RowsOf
<1>8. \A m \in MatchId, u \in User : RowsOf(m, u)' >= RowsOf(m, u)
  BY <1>1, <1>7
<1> QED
  BY <1>4, <1>5, <1>6, <1>7, <1>8 DEF TablesGrow

(* A batch is acknowledged after its insert, when it is stored.  None of   *)
(* its entries is acknowledged yet: each is counted once.                  *)
LEMMA InsertMatchBatchInv ==
  ASSUME Inv, InsertMatchBatch
  PROVE  Inv'
<1> USE ConstantTypes DEF Inv, InsertMatchBatch, PollerGoes, redis, faults
<1>1. TypeOK'
  BY InsertEffect DEF TypeOK
<1>2. Done = Acked /\ Done' = Acked \cup batch /\ Acked \cap batch = {}
  BY DEF Done, Acked, TypeOK
<1>3. Acked \subseteq DOMAIN stream /\ batch \subseteq DOMAIN stream
  BY EntryTypes DEF Acked
<1>4. ASSUME NEW i \in Done' PROVE stored'[stream'[i].id] # None
  <2>1. CASE i \in batch
    BY <2>1, InsertEffect
  <2>2. CASE i \in Acked
    <3>1. stored[stream[i].id] # None /\ stream[i].id \in MatchId
      BY <1>2, <1>3, <2>2, EntryTypes DEF DoneIsStored
    <3> QED
      BY <3>1, InsertEffect DEF TablesGrow
  <2> QED
    BY <1>2, <1>4, <2>1, <2>2
<1>5. ASSUME NEW m \in MatchId, NEW u \in User
      PROVE  Cardinality(SeatsIn(Done, m, u)') <= RowsOf(m, u)'
  <2> DEFINE A == SeatsIn(Acked, m, u)
             B == SeatsIn(batch, m, u)
  <2>1. SeatsIn(Done, m, u)' = A \cup B /\ A \cap B = {} /\ SeatsIn(Done, m, u) = A
    BY <1>2 DEF SeatsIn, Plays
  <2>2. /\ IsFiniteSet(A) /\ IsFiniteSet(B)
        /\ Cardinality(A) \in Nat /\ Cardinality(B) \in Nat
    BY <1>3, DoneTypes
  <2> HIDE DEF A, B
  <2>3. Cardinality(A \cup B) = Cardinality(A) + Cardinality(B)
    <3>1. Cardinality(A \cap B) = 0
      BY <2>1, FS_EmptySet
    <3>2. Cardinality(A \cup B) = Cardinality(A) + Cardinality(B) - Cardinality(A \cap B)
      BY <2>2, FS_Union
    <3> QED
      BY <2>2, <3>1, <3>2
  <2>4. Cardinality(A) <= RowsOf(m, u) /\ RowsOf(m, u) \in Nat
    BY <2>1, RowsOfType DEF DoneIsStored
  <2>5. RowsOf(m, u)' = RowsOf(m, u) + Cardinality(B)
    BY InsertEffect DEF B
  <2> QED
    BY <2>1, <2>2, <2>3, <2>4, <2>5
<1>6. DoneIsStored'
  BY <1>4, <1>5 DEF DoneIsStored
<1> QED
  BY <1>1, <1>6, InsertEffect DEF InHand

(* A failed insert leaves the tables alone or has been carried out.        *)
LEMMA InsertFailsInv ==
  ASSUME Inv, InsertFails
  PROVE  Inv'
<1> USE ConstantTypes DEF Inv, InsertFails, PollerGoes, redis
<1>1. CASE UNCHANGED postgres
  <2>1. TypeOK'
    BY <1>1 DEF TypeOK, postgres
  <2> QED
    BY <1>1, <2>1, FrameInv, SameStream, SameTables DEF InHand, postgres
<1>2. CASE InsertRows
  <2>1. TypeOK'
    BY <1>2, InsertEffect DEF TypeOK
  <2> QED
    BY <1>2, <2>1, FrameInv, SameStream, InsertEffect DEF InHand
<1> QED
  BY <1>1, <1>2

(* What leaves the pending list was in a batch that had been stored.       *)
LEMMA AckSyncInv ==
  ASSUME Inv, AckSync
  PROVE  Inv'
<1> USE ConstantTypes DEF Inv, AckSync, PollerGoes, RedisFails, postgres
<1>1. TypeOK'
  BY DEF TypeOK
<1>2. Done' \subseteq Done
  BY DEF Done, Acked
<1>3. TablesGrow /\ RowsHaveEntries' /\ StreamGrows
  BY SameStream, SameTables
<1> QED
  BY <1>1, <1>2, <1>3, DoneFrame DEF InHand

(* Ending a match turns its active rows into inactive ones.                *)
LEMMA EndMatchInv ==
  ASSUME Inv, NEW m \in MatchId, EndMatch(m)
  PROVE  Inv'
<1> USE ConstantTypes DEF Inv, EndMatch, memory, redis, faults
<1>1. rows \in [Row -> Nat] /\ matches \in [MatchId -> {None, "active", "ended"}]
  BY DEF TypeOK
<1>2. rows' \in [Row -> Nat] /\ matches' \in [MatchId -> {None, "active", "ended"}]
  <2>1. \A r \in Row : [match |-> m, user |-> r.user, active |-> TRUE] \in Row
    BY DEF Row
  <2> QED
    BY <1>1, <2>1
<1>3. TypeOK'
  BY <1>2 DEF TypeOK
<1>4. ASSUME NEW n \in MatchId, NEW u \in User
      PROVE  RowsOf(n, u)' = RowsOf(n, u) /\ RowsOf(n, u) \in Nat
  <2> DEFINE seat == [match |-> n, user |-> u, active |-> TRUE]
             past == [match |-> n, user |-> u, active |-> FALSE]
  <2>1. seat \in Row /\ past \in Row
        /\ seat.active /\ ~ past.active /\ seat.match = n /\ past.match = n
        /\ past.user = u
    BY DEF Row
  <2>2. rows[seat] \in Nat /\ rows[past] \in Nat
    BY <1>1, <2>1
  <2>3. CASE n = m
    <3>1. rows'[seat] = 0 /\ rows'[past] = rows[past] + rows[seat]
      BY <2>1, <2>3
    <3> QED
      BY <2>2, <3>1 DEF RowsOf
  <2>4. CASE n # m
    <3>1. rows'[seat] = rows[seat] /\ rows'[past] = rows[past]
      BY <2>1, <2>4
    <3> QED
      BY <2>2, <3>1 DEF RowsOf
  <2> QED
    BY <2>3, <2>4
<1>5. RowsHaveEntries'
  BY <1>1 DEF RowsHaveEntries
<1>6. \A n \in MatchId, u \in User : RowsOf(n, u)' >= RowsOf(n, u)
  BY <1>4
<1>7. TablesGrow
  BY <1>6 DEF TablesGrow
<1> QED
  BY <1>3, <1>5, <1>7, FrameInv, SameStream DEF InHand

(* Every step keeps the invariant. *)
LEMMA NextInv == Inv /\ [Next]_vars => Inv'
<1> SUFFICES ASSUME Inv, [Next]_vars PROVE Inv'
  OBVIOUS
<1>1. CASE UNCHANGED vars
  <2>1. TypeOK'
    BY <1>1 DEF Inv, TypeOK, vars, memory, redis, postgres, faults
  <2> QED
    BY <1>1, <2>1, FrameInv, SameStream, SameTables
       DEF Inv, InHand, vars, memory, redis, postgres, faults
<1>2. CASE \E w \in Worker : WorkerStep(w) \/ \E team \in Team : Form(w, team)
  BY <1>2, FormInv, TryCommitInv, DeferInv DEF WorkerStep
<1>3. CASE RetryStep
  BY <1>3, PopDeferredInv, RetryInv, RequeueInv DEF RetryStep
<1>4. CASE PollerStep
  BY <1>4, EnsureSyncGroupInv, ReadPendingInv, ReadSyncBatchInv, InsertMatchBatchInv,
     InsertFailsInv, AckSyncInv DEF PollerStep
<1>5. CASE \E m \in MatchId : EndMatch(m)
  BY <1>5, EndMatchInv
<1>6. CASE Crash
  BY <1>6, CrashInv
<1> QED
  BY <1>1, <1>2, <1>3, <1>4, <1>5, <1>6 DEF Next

LEMMA InvHolds == Spec => []Inv
BY InitInv, NextInv, PTL DEF Spec

(* Every variable keeps its type, through every failure and crash. *)
THEOREM TypeCorrect == Spec => []TypeOK
<1>1. Inv => TypeOK
  BY DEF Inv
<1> QED
  BY <1>1, InvHolds, PTL
-----------------------------------------------------------------------------
(***************************************************************************)
(* A match on its way from the thread that formed it to the stream: none   *)
(* is dropped, and none is doubled unless a write of it that failed had    *)
(* been carried out.                                                       *)
(***************************************************************************)

(***************************************************************************)
(* No match is dropped.                                                    *)
(***************************************************************************)

(* A step that keeps what was kept and no more, and announces only that,   *)
(* to its players.                                                         *)
NothingNew ==
  /\ Kept' = Kept
  /\ \A u \in User :
       tickets'[u] = tickets[u] \/ (tickets'[u] \in Kept /\ u \in tickets'[u].team)
  /\ UNCHANGED <<next_match_id, restarts>>

(* What such a step keeps. *)
LEMMA KeptFrame == ASSUME KeptUntilCrash, NothingNew PROVE KeptUntilCrash'
BY DEF KeptUntilCrash, NothingNew

(* A step that touches neither the matches in memory nor the stream.       *)
LEMMA SameKept ==
  ASSUME UNCHANGED <<inline, retry_q, retrying, stream>>
  PROVE  Kept' = Kept
BY DEF Kept, InMemory, Deferred, Range

(* A failed try is still a try.                                            *)
LEMMA TryIsSome ==
  ASSUME NEW t \in Try, t.tries < 2
  PROVE  [t EXCEPT !.tries = @ + 1] # None
<1>1. [t EXCEPT !.tries = @ + 1] \in Try
  BY DEF Try
<1> QED
  BY <1>1, ConstantTypes

(* Appending adds one element to what a sequence holds.                    *)
LEMMA AppendRange ==
  ASSUME NEW s \in Seq(Result), NEW r \in Result
  PROVE  Range(Append(s, r)) = Range(s) \cup {r}
<1> DEFINE t == Append(s, r)
<1>1. /\ t \in Seq(Result) /\ Len(t) = Len(s) + 1
      /\ \A i \in 1 .. Len(s) : t[i] = s[i]
      /\ t[Len(s) + 1] = r
  BY AppendProperties
<1>2. DOMAIN t = 1 .. Len(t) /\ DOMAIN s = 1 .. Len(s) /\ Len(s) \in Nat
  BY <1>1, LenProperties
<1> HIDE DEF t
<1>3. DOMAIN t = DOMAIN s \cup {Len(s) + 1}
  BY <1>1, <1>2
<1>4. Range(t) = Range(s) \cup {r}
  BY <1>1, <1>2, <1>3 DEF Range
<1> QED
  BY <1>4 DEF t

(* A try moves its match into the stream or leaves it where it is, and     *)
(* announces nothing else.                                                 *)
LEMMA CommitKeeps ==
  ASSUME TypeOK, NEW r \in Result, CommitSucceeds(r) \/ CommitFails(r)
  PROVE  /\ Range(stream) \subseteq Range(stream')
         /\ Range(stream') \subseteq Range(stream) \cup {r}
         /\ CommitSucceeds(r) => r \in Range(stream')
         /\ \A u \in User : tickets'[u] = tickets[u] \/ (tickets'[u] = r /\ u \in r.team)
<1>1. stream \in Seq(Result)
  BY DEF TypeOK
<1>2. stream' = stream \/ stream' = Append(stream, r)
  BY DEF CommitSucceeds, CommitFails
<1>3. CommitSucceeds(r) => stream' = Append(stream, r)
  BY DEF CommitSucceeds
<1>4. \A u \in User : tickets'[u] = tickets[u] \/ (tickets'[u] = r /\ u \in r.team)
  BY DEF CommitSucceeds, CommitFails, Announce
<1>5. stream' = Append(stream, r) => Range(stream') = Range(stream) \cup {r}
  BY <1>1, AppendRange
<1> QED
  BY <1>2, <1>3, <1>4, <1>5

(* A new match is kept, beside what was kept. *)
LEMMA FormAdds ==
  ASSUME Inv, NEW w \in Worker, NEW team \in Team, Form(w, team)
  PROVE  /\ Kept' = Kept \cup {[id |-> next_match_id, run |-> restarts, team |-> team]}
         /\ UNCHANGED <<tickets, restarts>>
         /\ next_match_id \in Nat /\ next_match_id' = next_match_id + 1
<1> DEFINE r == [id |-> next_match_id, run |-> restarts, team |-> team]
<1>1. inline' = [inline EXCEPT ![w] = [result |-> r, tries |-> 0]]
      /\ inline[w] = None /\ next_match_id' = next_match_id + 1
      /\ UNCHANGED <<retry_q, retrying, stream, tickets, restarts>>
  BY DEF Form, redis, faults
<1>2. [result |-> r, tries |-> 0] # None /\ next_match_id \in Nat
  <2>1. next_match_id \in MatchId
    BY DEF Form
  <2>2. [result |-> r, tries |-> 0] \in Try
    BY <2>1 DEF Inv, TypeOK, Try, Result
  <2> QED
    BY <2>1, <2>2, ConstantTypes
<1>3. inline'[w] = [result |-> r, tries |-> 0] /\ \A v \in Worker \ {w} : inline'[v] = inline[v]
  BY <1>1 DEF Inv, TypeOK
<1> DEFINE Inline(x)  == \E v \in Worker : inline[v] # None /\ inline[v].result = x
           InlineP(x) == \E v \in Worker : inline'[v] # None /\ inline'[v].result = x
<1>4. \A x : InlineP(x) <=> Inline(x) \/ x = r
  <2>1. inline'[w] # None /\ inline'[w].result = r
    BY <1>2, <1>3
  <2> HIDE DEF r
  <2> QED BY <1>1, <1>3, <2>1
<1> HIDE DEF r
<1>5. \A x : /\ x \in Kept <=> Inline(x) \/ x \in Deferred \cup Range(stream)
             /\ x \in Kept' <=> InlineP(x) \/ x \in Deferred \cup Range(stream)
  BY <1>1 DEF Kept, InMemory, Deferred
<1> HIDE DEF Inline, InlineP
<1>6. Kept' = Kept \cup {r}
  BY <1>4, <1>5
<1> QED
  BY <1>1, <1>2, <1>6 DEF r

(* The new id is that of the new match. *)
LEMMA FormKeeps ==
  ASSUME Inv, KeptUntilCrash, NEW w \in Worker, NEW team \in Team, Form(w, team)
  PROVE  KeptUntilCrash'
<1> DEFINE r == [id |-> next_match_id, run |-> restarts, team |-> team]
<1>1. /\ Kept' = Kept \cup {r} /\ UNCHANGED <<tickets, restarts>> /\ r.id = next_match_id
      /\ next_match_id \in Nat /\ next_match_id' = next_match_id + 1
  BY FormAdds
<1> HIDE DEF r
<1> SUFFICES ASSUME restarts = 0
             PROVE  /\ \A m \in 1 .. next_match_id : \E x \in Kept' : x.id = m
                    /\ \A u \in User : tickets[u] \in Kept' \cup {None}
  BY <1>1 DEF KeptUntilCrash
<1>2. ASSUME NEW m \in 1 .. next_match_id PROVE \E x \in Kept' : x.id = m
  <2>1. CASE m = next_match_id
    BY <1>1, <2>1
  <2>2. CASE m # next_match_id
    <3>1. m \in 1 .. next_match_id - 1
      BY <1>1, <2>2
    <3> QED
      BY <1>1, <3>1 DEF KeptUntilCrash
  <2> QED
    BY <2>1, <2>2
<1> QED
  BY <1>1, <1>2 DEF KeptUntilCrash

(* A successful try leaves the worker's hand for the stream.               *)
LEMMA TryCommitKeeps ==
  ASSUME Inv, NEW w \in Worker, TryCommit(w)
  PROVE  NothingNew
<1> DEFINE r == inline[w].result
<1>1. inline[w] \in Try /\ r \in Result /\ r \in Kept
  BY ConstantTypes DEF Inv, TypeOK, TryCommit, Kept, InMemory
<1>2. /\ \/ CommitSucceeds(r) /\ inline' = [inline EXCEPT ![w] = None]
         \/ CommitFails(r) /\ inline' = [inline EXCEPT ![w].tries = @ + 1]
      /\ UNCHANGED <<next_match_id, retry_q, retrying, restarts>>
  BY DEF TryCommit
<1>3. /\ Range(stream) \subseteq Range(stream')
      /\ Range(stream') \subseteq Range(stream) \cup {r}
      /\ CommitSucceeds(r) => r \in Range(stream')
      /\ \A u \in User : tickets'[u] = tickets[u] \/ (tickets'[u] = r /\ u \in r.team)
  BY <1>1, <1>2, CommitKeeps DEF Inv
<1>4. \A v \in Worker \ {w} : inline'[v] = inline[v]
  BY <1>2 DEF Inv, TypeOK
<1>5. CommitFails(r) /\ ~ CommitSucceeds(r) => inline'[w] # None /\ inline'[w].result = r
  <2> SUFFICES ASSUME inline' = [inline EXCEPT ![w].tries = @ + 1]
               PROVE  inline'[w] # None /\ inline'[w].result = r
    BY <1>2
  <2>1. inline'[w] = [inline[w] EXCEPT !.tries = @ + 1]
    BY DEF Inv, TypeOK
  <2>2. [inline[w] EXCEPT !.tries = @ + 1].result = r
    BY <1>1 DEF Try
  <2>3. inline'[w] # None
    BY <1>1, <2>1, TryIsSome DEF Try, TryCommit
  <2> QED
    BY <2>1, <2>2, <2>3
<1>6. Kept \subseteq Kept'
  <2> SUFFICES ASSUME NEW x \in Kept PROVE x \in Kept'
    OBVIOUS
  <2>1. CASE \E v \in Worker : inline[v] # None /\ inline[v].result = x
    <3>1. PICK v \in Worker : inline[v] # None /\ inline[v].result = x
      BY <2>1
    <3>2. CASE v # w
      BY <1>4, <3>1, <3>2 DEF Kept, InMemory
    <3>3. CASE v = w /\ CommitSucceeds(r)
      BY <1>3, <3>1, <3>3 DEF Kept
    <3>4. CASE v = w /\ ~ CommitSucceeds(r)
      BY <1>2, <1>5, <3>1, <3>4 DEF Kept, InMemory
    <3> QED
      BY <3>2, <3>3, <3>4
  <2>2. CASE x \in Deferred
    BY <1>2, <2>2 DEF Kept, InMemory, Deferred
  <2>3. CASE x \in Range(stream)
    BY <1>3, <2>3 DEF Kept
  <2> QED
    BY <2>1, <2>2, <2>3 DEF Kept, InMemory
<1>7. Kept' \subseteq Kept
  <2> SUFFICES ASSUME NEW x \in Kept' PROVE x \in Kept
    OBVIOUS
  <2>1. CASE \E v \in Worker : inline'[v] # None /\ inline'[v].result = x
    <3>1. PICK v \in Worker : inline'[v] # None /\ inline'[v].result = x
      BY <2>1
    <3>2. CASE v # w
      BY <1>4, <3>1, <3>2 DEF Kept, InMemory
    <3>3. CASE v = w
      <4>1. inline'[w].result = r
        BY <1>1, <1>2, <3>1, <3>3 DEF Inv, TypeOK, Try
      <4> QED BY <1>1, <3>1, <3>3, <4>1
    <3> QED BY <3>2, <3>3
  <2>2. CASE x \in Deferred'
    BY <1>2, <2>2 DEF Kept, InMemory, Deferred
  <2>3. CASE x \in Range(stream')
    BY <1>1, <1>3, <2>3 DEF Kept
  <2> QED
    BY <2>1, <2>2, <2>3 DEF Kept, InMemory
<1> QED
  BY <1>1, <1>2, <1>3, <1>6, <1>7 DEF NothingNew

(* The hand over to the retry queue, and the way through the retry thread. *)
LEMMA DeferKeeps ==
  ASSUME Inv, NEW w \in Worker, Defer(w)
  PROVE  NothingNew
<1> DEFINE r == inline[w].result
<1>1. r \in Result /\ retry_q \in Seq(Result)
  BY ConstantTypes DEF Inv, TypeOK, Defer
<1>2. /\ retry_q' = Append(retry_q, r) /\ inline' = [inline EXCEPT ![w] = None]
      /\ UNCHANGED <<next_match_id, retrying, stream, tickets, restarts>>
  BY DEF Defer, redis, faults
<1>3. Range(retry_q') = Range(retry_q) \cup {r}
  BY <1>1, <1>2, AppendRange
<1>4. \A v \in Worker \ {w} : inline'[v] = inline[v]
  BY <1>2 DEF Inv, TypeOK
<1>5. Kept \subseteq Kept'
  <2> SUFFICES ASSUME NEW x \in Kept PROVE x \in Kept'
    OBVIOUS
  <2>1. CASE \E v \in Worker : inline[v] # None /\ inline[v].result = x
    <3>1. PICK v \in Worker : inline[v] # None /\ inline[v].result = x
      BY <2>1
    <3>2. CASE v # w
      BY <1>4, <3>1, <3>2 DEF Kept, InMemory
    <3>3. CASE v = w
      BY <1>3, <3>1, <3>3 DEF Kept, InMemory, Deferred
    <3> QED
      BY <3>2, <3>3
  <2>2. CASE x \in Deferred
    BY <1>2, <1>3, <2>2 DEF Kept, InMemory, Deferred
  <2>3. CASE x \in Range(stream)
    BY <1>2, <2>3 DEF Kept
  <2> QED
    BY <2>1, <2>2, <2>3 DEF Kept, InMemory
<1>6. Kept' \subseteq Kept
  <2> SUFFICES ASSUME NEW x \in Kept' PROVE x \in Kept
    OBVIOUS
  <2>1. inline'[w] = None /\ r \in Kept
    BY <1>2 DEF Inv, TypeOK, Defer, Kept, InMemory
  <2>2. CASE \E v \in Worker : inline'[v] # None /\ inline'[v].result = x
    BY <1>4, <2>1, <2>2 DEF Kept, InMemory
  <2>3. CASE x \in Deferred'
    BY <1>2, <1>3, <2>1, <2>3 DEF Kept, InMemory, Deferred
  <2>4. CASE x \in Range(stream')
    BY <1>2, <2>4 DEF Kept
  <2> QED
    BY <2>2, <2>3, <2>4 DEF Kept, InMemory
<1> QED
  BY <1>2, <1>5, <1>6 DEF NothingNew

LEMMA PopDeferredKeeps ==
  ASSUME Inv, PopDeferred
  PROVE  NothingNew
<1>1. /\ retry_q \in Seq(Result) /\ retry_q # <<>> /\ retrying = None
      /\ retrying' = Head(retry_q) /\ retry_q' = Tail(retry_q)
      /\ UNCHANGED <<next_match_id, inline, stream, tickets, restarts>>
  BY DEF Inv, TypeOK, PopDeferred, redis, faults
<1>2. ASSUME NEW i \in DOMAIN retry_q
      PROVE  \/ retry_q[i] = Head(retry_q)
             \/ \E j \in DOMAIN Tail(retry_q) : Tail(retry_q)[j] = retry_q[i]
  <2>1. /\ Tail(retry_q) \in Seq(Result) /\ Len(Tail(retry_q)) = Len(retry_q) - 1
        /\ \A j \in 1 .. Len(Tail(retry_q)) : Tail(retry_q)[j] = retry_q[j + 1]
    BY <1>1, HeadTailProperties
  <2>2. /\ DOMAIN retry_q = 1 .. Len(retry_q) /\ Len(retry_q) \in Nat
        /\ DOMAIN Tail(retry_q) = 1 .. Len(retry_q) - 1
    BY <1>1, <2>1, LenProperties
  <2>3. CASE i = 1
    BY <1>1, <2>3
  <2>4. CASE i # 1
    <3>1. i - 1 \in 1 .. Len(retry_q) - 1 /\ (i - 1) + 1 = i
      BY <2>2, <2>4
    <3>2. i - 1 \in DOMAIN Tail(retry_q) /\ Tail(retry_q)[i - 1] = retry_q[i]
      BY <2>1, <2>2, <3>1
    <3> QED
      BY <3>2
  <2> QED
    BY <2>3, <2>4
<1>3. retrying' # None
  BY <1>1, HeadTailProperties, ConstantTypes
<1>4. Kept \subseteq Kept'
  <2> SUFFICES ASSUME NEW x \in Kept PROVE x \in Kept'
    OBVIOUS
  <2>1. CASE x \in Range(retry_q)
    <3>1. PICK i \in DOMAIN retry_q : retry_q[i] = x
      BY <2>1 DEF Range
    <3>2. x = retrying' \/ \E j \in DOMAIN retry_q' : retry_q'[j] = x
      BY <1>1, <1>2, <3>1
    <3> QED
      BY <1>3, <3>2 DEF Kept, InMemory, Deferred, Range
  <2>2. CASE x \notin Range(retry_q)
    BY <1>1, <2>2 DEF Kept, InMemory, Deferred
  <2> QED
    BY <2>1, <2>2
<1>5. Head(retry_q) \in Range(retry_q) /\ Range(Tail(retry_q)) \subseteq Range(retry_q)
  <2>1. /\ Tail(retry_q) \in Seq(Result) /\ Len(Tail(retry_q)) = Len(retry_q) - 1
        /\ \A j \in 1 .. Len(Tail(retry_q)) : Tail(retry_q)[j] = retry_q[j + 1]
        /\ Head(retry_q) = retry_q[1]
    BY <1>1, HeadTailProperties
  <2>2. /\ DOMAIN retry_q = 1 .. Len(retry_q) /\ Len(retry_q) \in Nat
        /\ DOMAIN Tail(retry_q) = 1 .. Len(retry_q) - 1 /\ Len(retry_q) # 0
    BY <1>1, <2>1, LenProperties, EmptySeq
  <2>3. 1 \in DOMAIN retry_q /\ \A j \in DOMAIN Tail(retry_q) : j + 1 \in DOMAIN retry_q
    BY <2>2
  <2> QED
    BY <2>1, <2>2, <2>3 DEF Range
<1>6. Kept' \subseteq Kept
  BY <1>1, <1>5 DEF Kept, InMemory, Deferred
<1> QED
  BY <1>1, <1>4, <1>6 DEF NothingNew

LEMMA RetryKeeps ==
  ASSUME Inv, Retry
  PROVE  NothingNew
<1> DEFINE r == retrying
<1>1. r \in Result /\ r \in Kept
  BY DEF Inv, TypeOK, Retry, Kept, InMemory, Deferred
<1>2. /\ \/ CommitSucceeds(r) /\ retrying' = None
         \/ CommitFails(r) /\ retrying' = retrying
      /\ UNCHANGED <<next_match_id, inline, retry_q, restarts>>
  BY DEF Retry
<1>3. /\ Range(stream) \subseteq Range(stream')
      /\ Range(stream') \subseteq Range(stream) \cup {r}
      /\ CommitSucceeds(r) => r \in Range(stream')
      /\ \A u \in User : tickets'[u] = tickets[u] \/ (tickets'[u] = r /\ u \in r.team)
  BY <1>1, <1>2, CommitKeeps DEF Inv
<1>4. Kept \subseteq Kept'
  <2> SUFFICES ASSUME NEW x \in Kept PROVE x \in Kept'
    OBVIOUS
  <2>1. CASE x = r
    BY <1>1, <1>2, <1>3, <2>1, ConstantTypes DEF Kept, InMemory, Deferred
  <2>2. CASE x # r /\ x \in InMemory
    BY <1>2, <2>2 DEF Kept, InMemory, Deferred
  <2>3. CASE x \in Range(stream)
    BY <1>3, <2>3 DEF Kept
  <2> QED
    BY <2>1, <2>2, <2>3 DEF Kept
<1>5. Kept' \subseteq Kept
  BY <1>1, <1>2, <1>3 DEF Kept, InMemory, Deferred
<1> QED
  BY <1>1, <1>2, <1>3, <1>4, <1>5 DEF NothingNew

LEMMA RequeueKeeps ==
  ASSUME Inv, Requeue
  PROVE  NothingNew
<1>1. retrying \in Result /\ retry_q \in Seq(Result)
  BY DEF Inv, TypeOK, InHand, Requeue
<1>2. /\ retry_q' = Append(retry_q, retrying) /\ retrying' = None
      /\ UNCHANGED <<next_match_id, inline, stream, tickets, restarts>>
  BY DEF Requeue, redis, faults
<1>3. Range(retry_q') = Range(retry_q) \cup {retrying}
  BY <1>1, <1>2, AppendRange
<1>4. retrying # None
  BY DEF Requeue, Inv, InHand
<1>5. Kept' = Kept
  BY <1>2, <1>3, <1>4 DEF Kept, InMemory, Deferred
<1> QED
  BY <1>2, <1>5 DEF NothingNew

(* No step but the forming of a match adds one, or a crash drops one. *)
LEMMA WayKeeps ==
  ASSUME Inv,
         \/ (\E w \in Worker : WorkerStep(w)) \/ RetryStep \/ PollerStep
         \/ (\E m \in MatchId : EndMatch(m)) \/ UNCHANGED vars
  PROVE  NothingNew
<1>1. CASE UNCHANGED vars \/ PollerStep \/ \E m \in MatchId : EndMatch(m)
  <2>1. UNCHANGED <<next_match_id, inline, retry_q, retrying, stream, tickets, restarts>>
    BY <1>1 DEF vars, memory, redis, faults, PollerStep, EnsureSyncGroup, ReadPending,
       ReadSyncBatch,
                InsertMatchBatch, InsertFails, AckSync, EndMatch
  <2> QED
    BY <2>1, SameKept DEF NothingNew
<1>2. CASE \E w \in Worker : WorkerStep(w)
  BY <1>2, TryCommitKeeps, DeferKeeps DEF WorkerStep
<1>3. CASE RetryStep
  BY <1>3, PopDeferredKeeps, RetryKeeps, RequeueKeeps DEF RetryStep
<1> QED
  BY <1>1, <1>2, <1>3

(* Every step until the crash keeps every match. *)
LEMMA KeptStep == Inv /\ KeptUntilCrash /\ [Next]_vars => KeptUntilCrash'
<1> SUFFICES ASSUME Inv, KeptUntilCrash, [Next]_vars PROVE KeptUntilCrash'
  OBVIOUS
<1>1. CASE \E w \in Worker, team \in Team : Form(w, team)
  BY <1>1, FormKeeps
<1>2. CASE Crash
  <2>1. restarts' # 0
    BY <1>2 DEF Crash, Inv, TypeOK
  <2> QED
    BY <2>1 DEF KeptUntilCrash
<1>3. CASE \/ (\E w \in Worker : WorkerStep(w)) \/ RetryStep \/ PollerStep
           \/ (\E m \in MatchId : EndMatch(m)) \/ UNCHANGED vars
  BY <1>3, WayKeeps, KeptFrame
<1> QED
  BY <1>1, <1>2, <1>3 DEF Next

(* Until the process dies, the two tries, the retry queue and its backoff  *)
(* drop no match, and clients are told of no match that was dropped.       *)
THEOREM NoMatchDropped == Spec => []KeptUntilCrash
<1>1. Init => KeptUntilCrash
  BY DEF Init, KeptUntilCrash
<1> QED
  BY <1>1, KeptStep, InvHolds, PTL DEF Spec
-----------------------------------------------------------------------------
(***************************************************************************)
(* Within a run of the process an id is that of one match.                 *)
(***************************************************************************)

(* What is kept was formed in this run, with an id given out already, or   *)
(* in an earlier one; and nothing else has its id and its run.             *)
IdsIdentify ==
  /\ \A r \in Kept : r.run <= restarts /\ (r.run = restarts => r.id < next_match_id)
  /\ \A r, s \in Kept : r.id = s.id /\ r.run = s.run => r = s

(* What is kept is matches. *)
LEMMA KeptTypes == ASSUME TypeOK PROVE Kept \subseteq Result
<1>1. \A w \in Worker : inline[w] # None => inline[w].result \in Result
  BY ConstantTypes DEF TypeOK
<1>2. Range(retry_q) \subseteq Result /\ Range(stream) \subseteq Result
  <2>1. /\ \A i \in DOMAIN retry_q : retry_q[i] \in Result
        /\ \A i \in DOMAIN stream : stream[i] \in Result
    BY ElementOfSeq, LenProperties DEF TypeOK
  <2> QED BY <2>1 DEF Range
<1>3. retrying # None => retrying \in Result
  BY DEF TypeOK
<1> QED
  BY <1>1, <1>2, <1>3 DEF Kept, InMemory, Deferred

(* A crash empties the memory; what is left belongs to earlier runs. *)
LEMMA CrashIdentifies ==
  ASSUME Inv, IdsIdentify, Crash
  PROVE  IdsIdentify'
<1>1. /\ inline' = [w \in Worker |-> None] /\ retry_q' = <<>> /\ retrying' = None
      /\ stream' = stream /\ restarts' = restarts + 1 /\ restarts \in Int
  BY DEF Crash, redis, Inv, TypeOK
<1>2. Kept' = Range(stream)
  BY <1>1 DEF Kept, InMemory, Deferred, Range
<1>3. \A r \in Range(stream) : r \in Kept /\ r.run \in Int
  <2>1. \A r \in Range(stream) : r \in Result
    BY EntryTypes DEF Inv, Range
  <2> QED
    BY <2>1 DEF Kept, Result
<1> QED
  BY <1>1, <1>2, <1>3 DEF IdsIdentify

LEMMA IdentifyStep == Inv /\ IdsIdentify /\ [Next]_vars => IdsIdentify'
<1> SUFFICES ASSUME Inv, IdsIdentify, [Next]_vars PROVE IdsIdentify'
  OBVIOUS
<1>1. CASE \E w \in Worker, team \in Team : Form(w, team)
  <2>1. PICK w \in Worker, team \in Team : Form(w, team)
    BY <1>1
  <2> DEFINE new == [id |-> next_match_id, run |-> restarts, team |-> team]
  <2>2. /\ Kept' = Kept \cup {new} /\ restarts' = restarts /\ restarts \in Int
        /\ next_match_id \in Nat /\ next_match_id' = next_match_id + 1
        /\ new.id = next_match_id /\ new.run = restarts
    BY <2>1, FormAdds DEF Inv, TypeOK
  <2> HIDE DEF new
  <2>3. \A r \in Kept : r.run <= restarts /\ (r.run = restarts => r.id < next_match_id /\ r.id \in Int)
    <3>1. \A r \in Kept : r.id \in Int
      <4>1. Kept \subseteq Result
        BY KeptTypes DEF Inv
      <4>2. \A r \in Result : r.id \in Int
        BY DEF Result, MatchId
      <4> QED
        BY <4>1, <4>2
    <3> QED
      BY <3>1 DEF IdsIdentify
  <2> QED
    BY <2>2, <2>3 DEF IdsIdentify
<1>2. CASE Crash
  BY <1>2, CrashIdentifies
<1>3. CASE \/ (\E w \in Worker : WorkerStep(w)) \/ RetryStep \/ PollerStep
           \/ (\E m \in MatchId : EndMatch(m)) \/ UNCHANGED vars
  BY <1>3, WayKeeps DEF NothingNew, IdsIdentify
<1> QED
  BY <1>1, <1>2, <1>3 DEF Next

LEMMA IdentifyHolds == Spec => []IdsIdentify
<1>1. Init => IdsIdentify
  BY DEF Init, IdsIdentify, Kept, InMemory, Deferred, Range
<1> QED
  BY <1>1, IdentifyStep, InvHolds, PTL DEF Spec

(* What the poller has acknowledged is in Postgres: the row of matches is  *)
(* that match's or that of a match of another run which had taken its id,  *)
(* and each of its players has a row of match_players for it, which counts *)
(* for no other entry.                                                     *)
THEOREM AcknowledgedIsStored == Spec => []AckedIsStored
<1>1. Inv /\ IdsIdentify => AckedIsStored
  <2> SUFFICES ASSUME Inv, IdsIdentify PROVE AckedIsStored
    OBVIOUS
  <2>1. Acked \subseteq Done /\ Done \subseteq DOMAIN stream
    BY DoneTypes DEF Done, Inv
  <2>2. ASSUME NEW i \in Acked
        PROVE  LET row == stored[stream[i].id]
               IN  row # None /\ (row = stream[i] \/ row.run # stream[i].run)
    <3> DEFINE row == stored[stream[i].id]
    <3>1. row # None /\ stream[i].id \in MatchId
      BY <2>1, EntryTypes, ConstantTypes DEF Inv, DoneIsStored
    <3>2. row.id = stream[i].id /\ \E j \in DOMAIN stream : row = stream[j]
      BY <3>1 DEF Inv, RowsHaveEntries
    <3>3. row \in Kept /\ stream[i] \in Kept
      BY <2>1, <3>2 DEF Kept, Range
    <3> QED
      BY <3>1, <3>2, <3>3 DEF IdsIdentify
  <2>3. ASSUME NEW m \in MatchId, NEW u \in User
        PROVE  Cardinality(SeatsIn(Acked, m, u)) <= RowsOf(m, u)
    <3>1. /\ SeatsIn(Acked, m, u) \subseteq SeatsIn(Done, m, u)
          /\ IsFiniteSet(SeatsIn(Done, m, u)) /\ Cardinality(SeatsIn(Done, m, u)) \in Nat
      BY <2>1, DoneTypes DEF SeatsIn, Inv
    <3>2. /\ Cardinality(SeatsIn(Acked, m, u)) <= Cardinality(SeatsIn(Done, m, u))
          /\ Cardinality(SeatsIn(Acked, m, u)) \in Nat
      BY <3>1, FS_Subset, FS_CardinalityType
    <3>3. Cardinality(SeatsIn(Done, m, u)) <= RowsOf(m, u) /\ RowsOf(m, u) \in Nat
      BY RowsOfType DEF Inv, DoneIsStored
    <3> QED
      BY <3>1, <3>2, <3>3
  <2> QED
    BY <2>2, <2>3 DEF AckedIsStored
<1> QED
  BY <1>1, InvHolds, IdentifyHolds, PTL
-----------------------------------------------------------------------------
(***************************************************************************)
(* No match is doubled.                                                    *)
(***************************************************************************)
One(x) == IF x THEN 1 ELSE 0

Has(x, m) == x # None /\ x.result.id = m

(* Overwriting what a worker holds changes the count of holders by what it *)
(* held and what it holds.                                                 *)
LEMMA CountHolders ==
  ASSUME NEW f \in [Worker -> Try \cup {None}], NEW g \in [Worker -> Try \cup {None}],
         NEW w \in Worker, \A v \in Worker \ {w} : g[v] = f[v],
         NEW m
  PROVE  /\ Cardinality(Holders(f, m)) \in Nat /\ Cardinality(Holders(g, m)) \in Nat
         /\ Cardinality(Holders(g, m)) + One(Has(f[w], m))
              = Cardinality(Holders(f, m)) + One(Has(g[w], m))
<1> DEFINE A == Holders(f, m)
           B == Holders(g, m)
<1>1. IsFiniteSet(Worker)
  BY WriteBehindAssumption
<1>2. A \in SUBSET Worker /\ B \in SUBSET Worker
  BY DEF Holders
<1>3. IsFiniteSet(A) /\ IsFiniteSet(B)
  BY <1>1, <1>2, FS_Subset
<1>4. w \in A <=> Has(f[w], m)
  BY DEF Holders, Has
<1>5. w \in B <=> Has(g[w], m)
  BY DEF Holders, Has
<1>6. A \ {w} = B \ {w}
  BY DEF Holders
<1> HIDE DEF A, B
<1>7. Cardinality(A) \in Nat /\ Cardinality(B) \in Nat
  BY <1>3, FS_CardinalityType
<1>8. Cardinality(A \ {w}) = IF w \in A THEN Cardinality(A) - 1 ELSE Cardinality(A)
  BY <1>3, FS_RemoveElement
<1>9. Cardinality(B \ {w}) = IF w \in B THEN Cardinality(B) - 1 ELSE Cardinality(B)
  BY <1>3, FS_RemoveElement
<1>10. Cardinality(B) + One(Has(f[w], m)) = Cardinality(A) + One(Has(g[w], m))
  <2>1. Cardinality(A) - One(w \in A) = Cardinality(B) - One(w \in B)
    BY <1>6, <1>7, <1>8, <1>9 DEF One
  <2>2. One(w \in A) = One(Has(f[w], m)) /\ One(w \in B) = One(Has(g[w], m))
    BY <1>4, <1>5 DEF One
  <2>3. One(w \in A) \in Nat /\ One(w \in B) \in Nat
    BY DEF One
  <2> QED
    BY <1>7, <2>1, <2>2, <2>3
<1> QED
  BY <1>7, <1>10 DEF A, B

(* The places of a match in a sequence are finitely many.                  *)
LEMMA PlacesFinite ==
  ASSUME NEW s \in Seq(Result), NEW m
  PROVE  IsFiniteSet(Places(s, m)) /\ Cardinality(Places(s, m)) \in Nat
<1>1. DOMAIN s = 1 .. Len(s) /\ Len(s) \in Nat
  BY LenProperties
<1>2. IsFiniteSet(DOMAIN s)
  BY <1>1, FS_Interval
<1>3. Places(s, m) \in SUBSET DOMAIN s
  BY DEF Places
<1> QED
  BY <1>2, <1>3, FS_Subset, FS_CardinalityType

(* Appending a result is one place more for its match. *)
LEMMA CountAppend ==
  ASSUME NEW s \in Seq(Result), NEW r \in Result, NEW m
  PROVE  Cardinality(Places(Append(s, r), m)) = Cardinality(Places(s, m)) + One(r.id = m)
<1> DEFINE t == Append(s, r)
           n == Len(s) + 1
<1>1. /\ t \in Seq(Result) /\ Len(t) = n /\ t[n] = r
      /\ \A i \in 1 .. Len(s) : t[i] = s[i]
  BY AppendProperties
<1>2. DOMAIN t = 1 .. Len(t) /\ DOMAIN s = 1 .. Len(s) /\ Len(s) \in Nat
  BY <1>1, LenProperties
<1> HIDE DEF t
<1>3. Places(t, m) = IF r.id = m THEN Places(s, m) \cup {n} ELSE Places(s, m)
  BY <1>1, <1>2 DEF Places
<1>4. n \notin Places(s, m)
  BY <1>2 DEF Places
<1>5. IsFiniteSet(Places(s, m)) /\ Cardinality(Places(s, m)) \in Nat
  BY PlacesFinite
<1>6. Cardinality(Places(s, m) \cup {n}) = Cardinality(Places(s, m)) + 1
  BY <1>4, <1>5, FS_AddElement
<1>7. Cardinality(Places(t, m)) = Cardinality(Places(s, m)) + One(r.id = m)
  BY <1>3, <1>5, <1>6 DEF One
<1> QED
  BY <1>7 DEF t

(* Dropping the first element moves the others one place forward.          *)
LEMMA CountTail ==
  ASSUME NEW s \in Seq(Result), s # <<>>, NEW m
  PROVE  Cardinality(Places(s, m)) = Cardinality(Places(Tail(s), m)) + One(Head(s).id = m)
<1> DEFINE t == Tail(s)
           A == Places(t, m)
           B == Places(s, m) \ {1}
           F == [i \in A |-> i + 1]
<1>1. /\ t \in Seq(Result) /\ Len(t) = Len(s) - 1
      /\ \A i \in 1 .. Len(t) : t[i] = s[i + 1]
  BY HeadTailProperties
<1>2. /\ DOMAIN t = 1 .. Len(s) - 1 /\ DOMAIN s = 1 .. Len(s) /\ Len(s) \in Nat \ {0}
      /\ Head(s) = s[1]
  BY <1>1, LenProperties, EmptySeq
<1> HIDE DEF t
<1>3. A \subseteq Int /\ \A i \in A : i + 1 \in B
  BY <1>1, <1>2 DEF Places
<1>4. \A j \in B : j - 1 \in A /\ (j - 1) + 1 = j
  BY <1>1, <1>2 DEF Places
<1> HIDE DEF A, B
<1>5. F \in Bijection(A, B)
  <2>1. F \in [A -> B]
    BY <1>3
  <2>2. \A i, j \in A : F[i] = F[j] => i = j
    BY <1>3
  <2>3. \A j \in B : \E i \in A : F[i] = j
    BY <1>4
  <2> QED
    BY <2>1, <2>2, <2>3 DEF Bijection, Injection, Surjection, IsInjective
<1>6. ExistsBijection(A, B)
  BY <1>5 DEF ExistsBijection
<1>7. IsFiniteSet(A) /\ IsFiniteSet(Places(s, m)) /\ Cardinality(Places(s, m)) \in Nat
  BY <1>1, PlacesFinite DEF A
<1>8. Cardinality(B) = Cardinality(A)
  BY <1>6, <1>7, FS_Bijection
<1>9. 1 \in Places(s, m) <=> Head(s).id = m
  BY <1>2 DEF Places
<1>10. Cardinality(B) = IF 1 \in Places(s, m) THEN Cardinality(Places(s, m)) - 1
                                              ELSE Cardinality(Places(s, m))
  BY <1>7, FS_RemoveElement DEF B
<1>11. Cardinality(Places(s, m)) = Cardinality(A) + One(Head(s).id = m)
  BY <1>7, <1>8, <1>9, <1>10 DEF One
<1> QED
  BY <1>11 DEF A, t

(* Every match formed is in one place, and in one more for each failed     *)
(* write of it that was executed; no match is that was not formed.         *)
Single ==
  restarts = 0 =>
    \A m \in MatchId : /\ m < next_match_id => Copies(m) = 1 + repeated[m]
                       /\ ~ (m < next_match_id) => Copies(m) = 0 /\ repeated[m] = 0

(* The four counts of a match.                                             *)
LEMMA CountTypes ==
  ASSUME TypeOK, NEW m
  PROVE  /\ Cardinality(Holders(inline, m)) \in Nat
         /\ Cardinality(Places(retry_q, m)) \in Nat
         /\ Cardinality(Places(stream, m)) \in Nat
<1>1. inline \in [Worker -> Try \cup {None}] /\ retry_q \in Seq(Result) /\ stream \in Seq(Result)
  BY DEF TypeOK
<1>2. IsFiniteSet(Holders(inline, m))
  BY WriteBehindAssumption, FS_Subset DEF Holders
<1> QED
  BY <1>1, <1>2, PlacesFinite, FS_CardinalityType

(* A write failed, and was executed: a match that has a place gets another. *)
Doubles(m) ==
  Copies(m) # 0 /\ Copies(m)' = Copies(m) + 1 /\ repeated'[m] = repeated[m] + 1

Moves(m) == Copies(m)' = Copies(m) /\ repeated'[m] = repeated[m]

(* A step that moves a match from one place to another, or doubles it.     *)
LEMMA SingleFrame ==
  ASSUME TypeOK, Single, UNCHANGED <<next_match_id, restarts>>,
         \A m \in MatchId : Moves(m) \/ Doubles(m)
  PROVE  Single'
<1> SUFFICES ASSUME restarts = 0, NEW m \in MatchId
             PROVE  /\ m < next_match_id => Copies(m)' = 1 + repeated'[m]
                    /\ ~ (m < next_match_id) => Copies(m)' = 0 /\ repeated'[m] = 0
  BY DEF Single
<1>1. repeated[m] \in Nat
  BY DEF TypeOK
<1>2. /\ m < next_match_id => Copies(m) = 1 + repeated[m]
      /\ ~ (m < next_match_id) => Copies(m) = 0 /\ repeated[m] = 0
  BY DEF Single
<1>3. CASE Moves(m)
  BY <1>2, <1>3 DEF Moves
<1>4. CASE Doubles(m)
  BY <1>1, <1>2, <1>4 DEF Doubles
<1> QED
  BY <1>3, <1>4

(* A new match has one place, as its id was not given before. *)
LEMMA FormSingle ==
  ASSUME Inv, Single, NEW w \in Worker, NEW team \in Team, Form(w, team)
  PROVE  Single'
<1> DEFINE x == [result |-> [id |-> next_match_id, run |-> restarts, team |-> team], tries |-> 0]
<1>1. inline' = [inline EXCEPT ![w] = x] /\ inline[w] = None
      /\ next_match_id' = next_match_id + 1 /\ next_match_id \in Nat
      /\ UNCHANGED <<retry_q, retrying, stream, restarts, repeated>>
  BY ConstantTypes DEF Form, redis, faults
<1>2. x \in Try /\ x # None
  <2>1. x \in Try
    BY DEF Inv, TypeOK, Form, Try, Result
  <2> QED
    BY <2>1, ConstantTypes
<1>3. inline \in [Worker -> Try \cup {None}]
  BY DEF Inv, TypeOK
<1> SUFFICES ASSUME restarts = 0, NEW m \in MatchId
             PROVE  /\ m < next_match_id + 1 => Copies(m)' = 1 + repeated[m]
                    /\ ~ (m < next_match_id + 1) => Copies(m)' = 0 /\ repeated[m] = 0
  BY <1>1 DEF Single
<1>4. Cardinality(Holders(inline', m)) = Cardinality(Holders(inline, m)) + One(m = next_match_id)
  <2>1. inline'[w] = x /\ \A v \in Worker \ {w} : inline'[v] = inline[v]
    BY <1>1, <1>3
  <2>2. ~ Has(inline[w], m) /\ (Has(inline'[w], m) <=> m = next_match_id)
    BY <1>1, <1>2, <2>1 DEF Has
  <2>3. inline' \in [Worker -> Try \cup {None}]
    BY <1>1, <1>2, <1>3
  <2>4. /\ Cardinality(Holders(inline, m)) \in Nat /\ Cardinality(Holders(inline', m)) \in Nat
        /\ Cardinality(Holders(inline', m)) + One(Has(inline[w], m))
             = Cardinality(Holders(inline, m)) + One(Has(inline'[w], m))
    BY <1>3, <2>1, <2>3, CountHolders
  <2> QED
    BY <2>2, <2>4 DEF One
<1>5. Copies(m)' = Copies(m) + One(m = next_match_id)
  <2>1. /\ Cardinality(Holders(inline, m)) \in Nat
        /\ Cardinality(Places(retry_q, m)) \in Nat
        /\ Cardinality(Places(stream, m)) \in Nat
    BY CountTypes DEF Inv
  <2>2. One(m = next_match_id) \in Nat
    BY DEF One
  <2> QED
    BY <1>1, <1>4, <2>1, <2>2 DEF Copies
<1>6. m \in Nat /\ repeated[m] \in Nat
  BY ConstantTypes DEF Inv, TypeOK
<1>7. /\ m < next_match_id => Copies(m) = 1 + repeated[m]
      /\ ~ (m < next_match_id) => Copies(m) = 0 /\ repeated[m] = 0
  BY DEF Single
<1> QED
  BY <1>1, <1>5, <1>6, <1>7 DEF One

(* A try that succeeded moved the match; a failed one that was executed    *)
(* doubled it, and any other failed one left it where it was.              *)
LEMMA TryCommitSingle ==
  ASSUME Inv, Single, NEW w \in Worker, TryCommit(w)
  PROVE  Single'
<1> DEFINE r == inline[w].result
           x == inline'[w]
<1>1. inline[w] \in Try /\ r \in Result
  BY ConstantTypes DEF Inv, TypeOK, TryCommit
<1>2. /\ inline \in [Worker -> Try \cup {None}] /\ stream \in Seq(Result)
      /\ inline' \in [Worker -> Try \cup {None}]
  BY TryCommitInv DEF Inv, TypeOK
<1>3. /\ \/ /\ inline' = [inline EXCEPT ![w] = None] /\ repeated' = repeated
            /\ stream' = Append(stream, r)
         \/ /\ inline' = [inline EXCEPT ![w].tries = @ + 1]
            /\ \/ stream' = stream /\ repeated' = repeated
               \/ /\ stream' = Append(stream, r)
                  /\ repeated' = [repeated EXCEPT ![r.id] = @ + 1]
      /\ UNCHANGED <<next_match_id, retry_q, retrying, restarts>>
  BY DEF TryCommit, CommitSucceeds, CommitFails
<1>4. \A v \in Worker \ {w} : inline'[v] = inline[v]
  BY <1>2, <1>3
<1>5. ASSUME NEW m \in MatchId PROVE Moves(m) \/ Doubles(m)
  <2>1. /\ Cardinality(Holders(inline, m)) \in Nat /\ Cardinality(Holders(inline', m)) \in Nat
        /\ Cardinality(Holders(inline', m)) + One(Has(inline[w], m))
             = Cardinality(Holders(inline, m)) + One(Has(x, m))
    BY <1>2, <1>4, CountHolders
  <2>2. Has(inline[w], m) <=> r.id = m
    BY <1>1, ConstantTypes DEF Has
  <2>3. /\ Cardinality(Places(retry_q, m)) \in Nat
        /\ Cardinality(Places(stream, m)) \in Nat
    BY CountTypes DEF Inv
  <2>4. CASE /\ inline' = [inline EXCEPT ![w] = None] /\ stream' = Append(stream, r)
             /\ repeated' = repeated
    <3>1. ~ Has(x, m)
      BY <1>2, <2>4 DEF Has
    <3>2. Cardinality(Places(stream', m)) = Cardinality(Places(stream, m)) + One(r.id = m)
      BY <1>1, <1>2, <2>4, CountAppend
    <3>3. Cardinality(Holders(inline', m)) + One(r.id = m) = Cardinality(Holders(inline, m))
      BY <2>1, <2>2, <3>1 DEF One
    <3>4. One(r.id = m) \in Nat
      BY DEF One
    <3> QED
      BY <1>3, <2>1, <2>3, <2>4, <3>2, <3>3, <3>4 DEF Copies, Moves
  <2>5. CASE /\ inline' = [inline EXCEPT ![w].tries = @ + 1]
             /\ \/ stream' = stream /\ repeated' = repeated
                \/ /\ stream' = Append(stream, r)
                   /\ repeated' = [repeated EXCEPT ![r.id] = @ + 1]
    <3>1. x = [inline[w] EXCEPT !.tries = @ + 1]
      BY <1>2, <2>5
    <3>2. x # None /\ x.result = r
      <4>1. inline[w].tries < 2
        BY DEF TryCommit
      <4>2. x # None
        BY <1>1, <3>1, <4>1, TryIsSome
      <4>3. x.result = r
        BY <1>1, <3>1 DEF Try
      <4> QED
        BY <4>2, <4>3
    <3>3. Has(x, m) <=> r.id = m
      BY <3>2 DEF Has
    <3>4. Cardinality(Holders(inline', m)) = Cardinality(Holders(inline, m))
      BY <2>1, <2>2, <3>3 DEF One
    <3>5. CASE stream' = stream /\ repeated' = repeated
      BY <1>3, <3>4, <3>5 DEF Copies, Moves
    <3>6. CASE stream' = Append(stream, r) /\ repeated' = [repeated EXCEPT ![r.id] = @ + 1]
      <4>1. Cardinality(Places(stream', m)) = Cardinality(Places(stream, m)) + One(r.id = m)
        BY <1>1, <1>2, <3>6, CountAppend
      <4>2. Copies(m)' = Copies(m) + One(r.id = m)
        <5>1. One(r.id = m) \in Nat
          BY DEF One
        <5> QED
          BY <1>3, <2>1, <2>3, <3>4, <4>1, <5>1 DEF Copies
      <4>3. r.id = m => Copies(m) # 0
        <5> SUFFICES ASSUME r.id = m PROVE Copies(m) # 0
          OBVIOUS
        <5>1. w \in Holders(inline, m) /\ IsFiniteSet(Holders(inline, m))
          BY <2>2, WriteBehindAssumption, FS_Subset DEF Holders, Has
        <5>2. Cardinality(Holders(inline, m)) # 0
          BY <5>1, FS_EmptySet
        <5> QED
          BY <2>1, <2>3, <5>2 DEF Copies
      <4>4. Copies(m) \in Nat
        BY <2>1, <2>3 DEF Copies
      <4>5. repeated'[m] = IF r.id = m THEN repeated[m] + 1 ELSE repeated[m]
        BY <3>6 DEF Inv, TypeOK
      <4> QED
        BY <4>2, <4>3, <4>4, <4>5 DEF One, Doubles, Moves
    <3> QED
      BY <2>5, <3>5, <3>6
  <2> QED
    BY <1>3, <2>4, <2>5
<1> QED
  BY <1>3, <1>5, SingleFrame DEF Inv

(* Each hand over takes one place and gives one. *)
LEMMA DeferSingle ==
  ASSUME Inv, Single, NEW w \in Worker, Defer(w)
  PROVE  Single'
<1> DEFINE r == inline[w].result
<1>1. inline[w] \in Try /\ r \in Result
  BY ConstantTypes DEF Inv, TypeOK, Defer
<1>2. inline \in [Worker -> Try \cup {None}] /\ retry_q \in Seq(Result)
  BY DEF Inv, TypeOK
<1>3. /\ inline' = [inline EXCEPT ![w] = None] /\ retry_q' = Append(retry_q, r)
      /\ UNCHANGED <<next_match_id, retrying, stream, restarts, repeated>>
  BY DEF Defer, redis, faults
<1>4. /\ inline' \in [Worker -> Try \cup {None}] /\ inline'[w] = None
      /\ \A v \in Worker \ {w} : inline'[v] = inline[v]
  BY <1>2, <1>3
<1>5. ASSUME NEW m \in MatchId PROVE Moves(m)
  <2>1. /\ Cardinality(Holders(inline, m)) \in Nat /\ Cardinality(Holders(inline', m)) \in Nat
        /\ Cardinality(Holders(inline', m)) + One(Has(inline[w], m))
             = Cardinality(Holders(inline, m)) + One(Has(inline'[w], m))
    BY <1>2, <1>4, CountHolders
  <2>2. ~ Has(inline'[w], m) /\ (Has(inline[w], m) <=> r.id = m)
    BY <1>1, <1>4, ConstantTypes DEF Has
  <2>3. Cardinality(Places(retry_q', m)) = Cardinality(Places(retry_q, m)) + One(r.id = m)
    BY <1>1, <1>2, <1>3, CountAppend
  <2>4. Cardinality(Places(retry_q, m)) \in Nat /\ Cardinality(Places(stream, m)) \in Nat
    BY CountTypes DEF Inv
  <2> QED
    BY <1>3, <2>1, <2>2, <2>3, <2>4 DEF Copies, One, Moves
<1> QED
  BY <1>3, <1>5, SingleFrame DEF Inv

LEMMA PopDeferredSingle ==
  ASSUME Inv, Single, PopDeferred
  PROVE  Single'
<1>1. /\ retry_q \in Seq(Result) /\ retry_q # <<>> /\ retrying = None
      /\ retrying' = Head(retry_q) /\ retry_q' = Tail(retry_q)
      /\ UNCHANGED <<next_match_id, inline, stream, restarts, repeated>>
  BY DEF Inv, TypeOK, PopDeferred, redis, faults
<1>2. retrying' # None /\ retry_q' \in Seq(Result)
  BY <1>1, HeadTailProperties, ConstantTypes
<1>3. ASSUME NEW m \in MatchId PROVE Moves(m)
  <2>1. Cardinality(Places(retry_q, m)) = Cardinality(Places(retry_q', m)) + One(Head(retry_q).id = m)
    BY <1>1, CountTail
  <2>2. /\ Cardinality(Holders(inline, m)) \in Nat /\ Cardinality(Places(stream, m)) \in Nat
        /\ Cardinality(Places(retry_q', m)) \in Nat
    BY <1>2, CountTypes, PlacesFinite DEF Inv
  <2> QED
    BY <1>1, <1>2, <2>1, <2>2 DEF Copies, One, Moves
<1> QED
  BY <1>1, <1>3, SingleFrame DEF Inv

LEMMA RetrySingle ==
  ASSUME Inv, Single, Retry
  PROVE  Single'
<1>1. retrying \in Result /\ retrying # None /\ stream \in Seq(Result)
      /\ repeated \in [MatchId -> Nat]
  BY DEF Inv, TypeOK, Retry
<1>2. /\ \/ retrying' = None /\ stream' = Append(stream, retrying) /\ repeated' = repeated
         \/ /\ retrying' = retrying
            /\ \/ stream' = stream /\ repeated' = repeated
               \/ /\ stream' = Append(stream, retrying)
                  /\ repeated' = [repeated EXCEPT ![retrying.id] = @ + 1]
      /\ UNCHANGED <<next_match_id, inline, retry_q, restarts>>
  BY DEF Retry, CommitSucceeds, CommitFails
<1>3. ASSUME NEW m \in MatchId PROVE Moves(m) \/ Doubles(m)
  <2>1. /\ Cardinality(Holders(inline, m)) \in Nat /\ Cardinality(Places(retry_q, m)) \in Nat
        /\ Cardinality(Places(stream, m)) \in Nat
    BY CountTypes DEF Inv
  <2>2. stream' = Append(stream, retrying) =>
          Cardinality(Places(stream', m)) = Cardinality(Places(stream, m)) + One(retrying.id = m)
    BY <1>1, CountAppend
  <2>3. CASE retrying' = None /\ stream' = Append(stream, retrying) /\ repeated' = repeated
    BY <1>1, <1>2, <2>1, <2>2, <2>3 DEF Copies, One, Moves
  <2>4. CASE retrying' = retrying /\ stream' = stream /\ repeated' = repeated
    BY <1>2, <2>4 DEF Copies, Moves
  <2>5. CASE /\ retrying' = retrying /\ stream' = Append(stream, retrying)
             /\ repeated' = [repeated EXCEPT ![retrying.id] = @ + 1]
    <3>1. Copies(m)' = Copies(m) + One(retrying.id = m)
      BY <1>1, <1>2, <2>1, <2>2, <2>5 DEF Copies, One
    <3>2. Copies(m) \in Nat /\ (retrying.id = m => Copies(m) # 0)
      BY <1>1, <2>1 DEF Copies
    <3>3. repeated'[m] = IF retrying.id = m THEN repeated[m] + 1 ELSE repeated[m]
      BY <1>1, <2>5
    <3> QED
      BY <3>1, <3>2, <3>3 DEF One, Doubles, Moves
  <2> QED
    BY <1>2, <2>3, <2>4, <2>5
<1> QED
  BY <1>2, <1>3, SingleFrame DEF Inv

LEMMA RequeueSingle ==
  ASSUME Inv, Single, Requeue
  PROVE  Single'
<1>1. retrying \in Result /\ retrying # None /\ retry_q \in Seq(Result)
  BY DEF Inv, TypeOK, InHand, Requeue
<1>2. /\ retry_q' = Append(retry_q, retrying) /\ retrying' = None
      /\ UNCHANGED <<next_match_id, inline, stream, restarts, repeated>>
  BY DEF Requeue, redis, faults
<1>3. ASSUME NEW m \in MatchId PROVE Moves(m)
  <2>1. /\ Cardinality(Holders(inline, m)) \in Nat /\ Cardinality(Places(retry_q, m)) \in Nat
        /\ Cardinality(Places(stream, m)) \in Nat
    BY CountTypes DEF Inv
  <2>2. Cardinality(Places(retry_q', m)) = Cardinality(Places(retry_q, m)) + One(retrying.id = m)
    BY <1>1, <1>2, CountAppend
  <2> QED
    BY <1>1, <1>2, <2>1, <2>2 DEF Copies, One, Moves
<1> QED
  BY <1>2, <1>3, SingleFrame DEF Inv

(* No match is formed and none has a place. *)
LEMMA InitSingle == Init => Single
<1> SUFFICES ASSUME Init PROVE Single
  OBVIOUS
<1> SUFFICES ASSUME NEW m \in MatchId
             PROVE  Copies(m) = 0 /\ repeated[m] = 0 /\ ~ (m < next_match_id)
  BY DEF Single, Init
<1>1. Holders(inline, m) = {} /\ Places(retry_q, m) = {} /\ Places(stream, m) = {}
  BY DEF Init, Holders, Places
<1>2. Copies(m) = 0
  <2>1. retrying = None
    BY DEF Init
  <2>2. Cardinality({}) = 0
    BY FS_EmptySet
  <2> QED
    BY <1>1, <2>1, <2>2 DEF Copies
<1>3. m \in Nat \ {0} /\ next_match_id = 1 /\ repeated[m] = 0
  BY ConstantTypes DEF Init
<1> QED
  BY <1>2, <1>3

LEMMA SingleStep == Inv /\ Single /\ [Next]_vars => Single'
<1> SUFFICES ASSUME Inv, Single, [Next]_vars PROVE Single'
  OBVIOUS
<1>1. CASE UNCHANGED vars \/ PollerStep \/ \E m \in MatchId : EndMatch(m)
  <2>1. UNCHANGED <<next_match_id, inline, retry_q, retrying, stream, restarts, repeated>>
    BY <1>1 DEF vars, memory, redis, faults, PollerStep, EnsureSyncGroup, ReadPending,
       ReadSyncBatch,
                InsertMatchBatch, InsertFails, AckSync, EndMatch
  <2>2. \A m \in MatchId : Moves(m)
    BY <2>1 DEF Copies, Moves
  <2> QED
    BY <2>1, <2>2, SingleFrame DEF Inv
<1>2. CASE \E w \in Worker : WorkerStep(w) \/ \E team \in Team : Form(w, team)
  BY <1>2, FormSingle, TryCommitSingle, DeferSingle DEF WorkerStep
<1>3. CASE RetryStep
  BY <1>3, PopDeferredSingle, RetrySingle, RequeueSingle DEF RetryStep
<1>4. CASE Crash
  <2>1. restarts' # 0
    BY <1>4 DEF Crash, Inv, TypeOK
  <2> QED
    BY <2>1 DEF Single
<1> QED
  BY <1>1, <1>2, <1>3, <1>4 DEF Next

(* Every match formed is in exactly one place on its way to the stream,    *)
(* and in one more for each write of it that failed and was executed all   *)
(* the same, until the process dies.                                       *)
THEOREM OnePlaceEach == Spec => []PublishedOnce
<1>1. Inv /\ Single => PublishedOnce
  <2> SUFFICES ASSUME Inv, Single, restarts = 0, NEW m \in 1 .. next_match_id - 1
               PROVE  Copies(m) = 1 + repeated[m]
    BY DEF PublishedOnce
  <2>1. next_match_id \in 1 .. MaxMatches + 1 /\ MaxMatches \in Nat
    BY ConstantTypes DEF Inv, TypeOK
  <2>2. m \in MatchId /\ m < next_match_id
    BY <2>1 DEF MatchId
  <2> QED
    BY <2>2 DEF Single
<1>2. Inv /\ Single /\ [Next]_vars => Single'
  BY SingleStep
<1> QED
  BY <1>1, <1>2, InitSingle, InvHolds, PTL DEF Spec
-----------------------------------------------------------------------------
(***************************************************************************)
(* The tables in Postgres: whatever is delivered twice, aborted or         *)
(* repeated, no user is in two active matches, and the counter on users    *)
(* agrees with the rows of match_players.                                  *)
(***************************************************************************)

Seat(m, u) == [match |-> m, user |-> u, active |-> TRUE]
Past(m, u) == [match |-> m, user |-> u, active |-> FALSE]

(* Only a stored match has rows: without it a match could be inserted on   *)
(* top of rows that say it is over.                                        *)
RowsAreStored ==
  \A m \in MatchId, u \in User :
    matches[m] = None => rows[Seat(m, u)] = 0 /\ rows[Past(m, u)] = 0

Tables == RowsAreStored /\ SingleActiveMatch /\ PlayedCountsRows

(* The two ways a step changes Postgres: a batch goes in, a match ends.    *)
LEMMA TableSteps ==
  ASSUME [Next]_vars
  PROVE  \/ UNCHANGED <<matches, rows, matches_played>>
         \/ InsertRows /\ ~ Conflict
         \/ \E m \in MatchId : EndMatch(m)
<1>1. CASE UNCHANGED vars
  BY <1>1 DEF vars, postgres
<1>2. CASE \E w \in Worker : WorkerStep(w) \/ \E team \in Team : Form(w, team)
  BY <1>2 DEF WorkerStep, TryCommit, Defer, Form, postgres
<1>3. CASE RetryStep
  BY <1>3 DEF RetryStep, PopDeferred, Retry, Requeue, postgres
<1>4. CASE PollerStep
  BY <1>4 DEF PollerStep, EnsureSyncGroup, ReadPending, ReadSyncBatch, InsertMatchBatch,
              InsertFails, AckSync, postgres
<1>5. CASE Crash
  BY <1>5 DEF Crash, postgres
<1> QED
  BY <1>1, <1>2, <1>3, <1>4, <1>5 DEF Next

(* The two kinds of rows of a player in a match. *)
LEMMA SeatTypes ==
  ASSUME NEW m \in MatchId, NEW u \in User
  PROVE  /\ Seat(m, u) \in Row /\ Past(m, u) \in Row
         /\ Seat(m, u).match = m /\ Seat(m, u).user = u /\ Seat(m, u).active
         /\ Past(m, u).match = m /\ Past(m, u).user = u /\ ~ Past(m, u).active
BY DEF Seat, Past, Row

(* There are finitely many match ids. *)
LEMMA MatchIdFinite == IsFiniteSet(MatchId)
BY FS_Interval, ConstantTypes DEF MatchId

(* A user's active rows as a function of the match. *)
LEMMA ActiveRowsSum ==
  ASSUME NEW table \in [Row -> Nat], NEW u \in User
  PROVE  /\ [m \in MatchId |-> table[Seat(m, u)]] \in [MatchId -> Nat]
         /\ ActiveRows(table, u) = SumFunction([m \in MatchId |-> table[Seat(m, u)]])
         /\ ActiveRows(table, u) \in Nat
<1> DEFINE f == [m \in MatchId |-> table[Seat(m, u)]]
<1>1. f \in [MatchId -> Nat]
  BY SeatTypes
<1>2. ActiveRows(table, u) = SumFunction(f)
  BY DEF ActiveRows, Seat
<1> QED
  BY <1>1, <1>2, MatchIdFinite, SumFunctionNat

(* The rows a batch adds, as the table after it. *)
LEMMA InsertTable ==
  ASSUME TypeOK, InsertRows
  PROVE  /\ rows' = RowsAfter /\ rows' \in [Row -> Nat]
         /\ \A m \in MatchId, u \in User :
              /\ rows'[Past(m, u)] = rows[Past(m, u)]
              /\ rows'[Seat(m, u)] >= rows[Seat(m, u)]
              /\ (\E i \in batch : stream[i].id = m /\ Plays(u, i))
                   => rows'[Seat(m, u)] > rows[Seat(m, u)]
              /\ (~ \E i \in batch : stream[i].id = m /\ Plays(u, i))
                   => rows'[Seat(m, u)] = rows[Seat(m, u)]
<1> DEFINE Adds(m, u) == SeatsIn(batch, m, u)
<1>1. rows' = RowsAfter
  BY DEF InsertRows
<1>2. rows \in [Row -> Nat]
  BY DEF TypeOK
<1>3. \A m, u : IsFiniteSet(Adds(m, u)) /\ Cardinality(Adds(m, u)) \in Nat
  BY EntryTypes, DoneTypes
<1>4. ASSUME NEW r \in Row
      PROVE  rows'[r] = rows[r] + (IF r.active THEN Cardinality(Adds(r.match, r.user)) ELSE 0)
  BY <1>1 DEF RowsAfter
<1> HIDE DEF Adds
<1>5. rows' \in [Row -> Nat]
  <2>1. rows' = [r \in Row |-> rows'[r]]
    BY <1>1 DEF RowsAfter
  <2>2. \A r \in Row : rows'[r] \in Nat
    BY <1>2, <1>3, <1>4
  <2> QED BY <2>1, <2>2
<1>6. ASSUME NEW m \in MatchId, NEW u \in User
      PROVE  /\ rows'[Past(m, u)] = rows[Past(m, u)]
             /\ rows'[Seat(m, u)] = rows[Seat(m, u)] + Cardinality(Adds(m, u))
             /\ rows[Seat(m, u)] \in Nat /\ rows[Past(m, u)] \in Nat
  <2>1. rows[Seat(m, u)] \in Nat /\ rows[Past(m, u)] \in Nat
    BY <1>2, SeatTypes
  <2>2. rows'[Past(m, u)] = rows[Past(m, u)] + 0
    BY <1>4, SeatTypes
  <2>3. rows'[Seat(m, u)] = rows[Seat(m, u)] + Cardinality(Adds(m, u))
    BY <1>4, SeatTypes
  <2> QED BY <2>1, <2>2, <2>3
<1>7. ASSUME NEW m \in MatchId, NEW u \in User
      PROVE  (\E i \in batch : stream[i].id = m /\ Plays(u, i)) <=> Cardinality(Adds(m, u)) > 0
  <2>1. (\E i \in batch : stream[i].id = m /\ Plays(u, i)) <=> Adds(m, u) # {}
    BY DEF Adds, SeatsIn
  <2>2. Adds(m, u) # {} <=> Cardinality(Adds(m, u)) # 0
    BY <1>3, FS_EmptySet
  <2> QED BY <2>1, <2>2, <1>3
<1>8. ASSUME NEW m \in MatchId, NEW u \in User
      PROVE  /\ rows'[Seat(m, u)] >= rows[Seat(m, u)]
             /\ Cardinality(Adds(m, u)) > 0 => rows'[Seat(m, u)] > rows[Seat(m, u)]
             /\ ~ Cardinality(Adds(m, u)) > 0 => rows'[Seat(m, u)] = rows[Seat(m, u)]
  BY <1>3, <1>6
<1> QED
  BY <1>1, <1>5, <1>6, <1>7, <1>8

-----------------------------------------------------------------------------
(* A batch that violates no unique index leaves a user at most one active  *)
(* row, and if the batch holds an entry of the user it is the row of that  *)
(* entry, and the only one.                                                *)
LEMMA InsertSeats ==
  ASSUME TypeOK, InsertRows, ~ Conflict, NEW u \in User
  PROVE  /\ ActiveRows(rows', u) <= 1
         /\ \A i \in batch : Plays(u, i) =>
              LET m == stream[i].id
              IN  /\ m \in MatchId
                  /\ rows[Seat(m, u)] = 0 /\ rows'[Seat(m, u)] = 1
                  /\ \A n \in MatchId \ {m} : rows[Seat(n, u)] = 0 /\ rows'[Seat(n, u)] = 0
<1> DEFINE f == [m \in MatchId |-> rows'[Seat(m, u)]]
<1>1. rows \in [Row -> Nat] /\ rows' \in [Row -> Nat] /\ rows' = RowsAfter
  BY InsertTable DEF TypeOK
<1>2. f \in [MatchId -> Nat] /\ ActiveRows(rows', u) = SumFunction(f) /\ SumFunction(f) \in Nat
  BY <1>1, ActiveRowsSum
<1>3. SumFunction(f) <= 1
  BY <1>1, <1>2 DEF Conflict
<1>4. ASSUME NEW i \in batch, Plays(u, i)
      PROVE  LET m == stream[i].id
             IN  /\ m \in MatchId
                 /\ rows[Seat(m, u)] = 0 /\ rows'[Seat(m, u)] = 1
                 /\ \A n \in MatchId \ {m} : rows[Seat(n, u)] = 0 /\ rows'[Seat(n, u)] = 0
  <2> DEFINE m == stream[i].id
  <2>1. m \in MatchId
    BY EntryTypes, ConstantTypes
  <2>2. rows'[Seat(m, u)] > rows[Seat(m, u)] /\ \E j \in batch : stream[j].id = m /\ Plays(u, j)
    BY <1>4, <2>1, InsertTable
  <2> HIDE DEF m
  <2>3. \A n \in MatchId : /\ rows[Seat(n, u)] \in Nat /\ f[n] = rows'[Seat(n, u)] /\ f[n] \in Nat
                           /\ rows'[Seat(n, u)] >= rows[Seat(n, u)]
    BY <1>1, SeatTypes, InsertTable
  <2>4. f[m] <= SumFunction(f)
    BY <1>2, <2>1, MatchIdFinite, SumHasOne
  <2>5. rows[Seat(m, u)] = 0 /\ rows'[Seat(m, u)] = 1
    BY <1>2, <1>3, <2>1, <2>2, <2>3, <2>4
  <2>6. ASSUME NEW n \in MatchId \ {m}
        PROVE  rows[Seat(n, u)] = 0 /\ rows'[Seat(n, u)] = 0
    <3>1. f[m] + f[n] <= SumFunction(f)
      BY <1>2, <2>1, MatchIdFinite, SumHasTwo
    <3> HIDE DEF f
    <3> QED BY <1>2, <1>3, <2>1, <2>3, <2>5, <3>1
  <2> QED BY <2>1, <2>5, <2>6 DEF m
<1> QED BY <1>2, <1>3, <1>4

(* A batch without conflict inserts rows for users without an active match. *)
LEMMA InsertTables ==
  ASSUME TypeOK, Tables, InsertRows, ~ Conflict
  PROVE  Tables'
<1>1. /\ rows \in [Row -> Nat] /\ rows' \in [Row -> Nat]
      /\ matches \in [MatchId -> {None, "active", "ended"}]
      /\ \A m \in MatchId, u \in User :
           rows[Seat(m, u)] \in Nat /\ rows[Past(m, u)] \in Nat /\ rows'[Past(m, u)] = rows[Past(m, u)]
  BY InsertTable, SeatTypes DEF TypeOK
<1>2. \A m \in MatchId :
        /\ matches'[m] = None => matches[m] = None /\ ~ \E i \in batch : stream[i].id = m
        /\ matches'[m] = "active" => matches[m] \in {None, "active"}
  BY <1>1, ConstantTypes DEF InsertRows, NewRows
<1>3. RowsAreStored'
  <2>1. ASSUME NEW m \in MatchId, NEW u \in User, matches'[m] = None
        PROVE  rows'[Seat(m, u)] = 0 /\ rows'[Past(m, u)] = 0
    <3>1. matches[m] = None /\ ~ \E i \in batch : stream[i].id = m
      BY <1>2, <2>1
    <3>2. rows'[Seat(m, u)] = rows[Seat(m, u)] /\ rows'[Past(m, u)] = rows[Past(m, u)]
      BY <3>1, InsertTable
    <3> QED BY <3>1, <3>2 DEF Tables, RowsAreStored
  <2> QED BY <2>1 DEF RowsAreStored, Seat, Past
<1>4. SingleActiveMatch'
  <2>1. \A u \in User : ActiveRows(rows', u) <= 1
    BY InsertSeats
  <2>2. ASSUME NEW m \in MatchId, NEW u \in User, matches'[m] = "active"
        PROVE  rows'[Past(m, u)] = 0
    <3>1. matches[m] \in {None, "active"}
      BY <1>2, <2>2
    <3>2. rows[Past(m, u)] = 0
      BY <3>1 DEF Tables, RowsAreStored, SingleActiveMatch, Past
    <3> QED BY <1>1, <3>2
  <2> QED BY <2>1, <2>2 DEF SingleActiveMatch, Past, ActiveRows
<1>5. ASSUME NEW u \in User
      PROVE  matches_played'[u] = SumFunction([m \in MatchId |-> RowsOf(m, u)'])
  <2> DEFINE f == [m \in MatchId |-> RowsOf(m, u)]
             g == [m \in MatchId |-> RowsOf(m, u)']
  <2>1. \A m \in MatchId : /\ RowsOf(m, u) = rows[Seat(m, u)] + rows[Past(m, u)]
                           /\ RowsOf(m, u)' = rows'[Seat(m, u)] + rows'[Past(m, u)]
    BY DEF RowsOf, Seat, Past
  <2>2. f \in [MatchId -> Nat] /\ g \in [MatchId -> Nat]
    <3>1. \A m \in MatchId : rows'[Seat(m, u)] \in Nat /\ rows'[Past(m, u)] \in Nat
      BY <1>1, SeatTypes
    <3> QED BY <1>1, <2>1, <3>1
  <2>3. matches_played[u] = SumFunction(f) /\ matches_played[u] \in Nat
    BY DEF Tables, PlayedCountsRows, TypeOK
  <2>4. matches_played'[u] = matches_played[u] + (IF Played(u) THEN 1 ELSE 0)
    BY DEF InsertRows
  <2>5. CASE ~ Played(u)
    <3>1. \A m \in MatchId : rows'[Seat(m, u)] = rows[Seat(m, u)]
      BY <2>5, InsertTable DEF Played
    <3>2. f = g
      BY <1>1, <2>1, <3>1
    <3>3. matches_played'[u] = matches_played[u]
      BY <2>3, <2>4, <2>5
    <3> HIDE DEF f, g
    <3>4. matches_played'[u] = SumFunction(g)
      BY <2>3, <3>2, <3>3
    <3> QED BY <3>4 DEF g
  <2>6. CASE Played(u)
    <3>1. PICK i \in batch : Plays(u, i)
      BY <2>6 DEF Played
    <3>2. PICK m \in MatchId :
            /\ rows[Seat(m, u)] = 0 /\ rows'[Seat(m, u)] = 1
            /\ \A n \in MatchId \ {m} : rows[Seat(n, u)] = 0 /\ rows'[Seat(n, u)] = 0
      BY <3>1, InsertSeats
    <3>3. g[m] = f[m] + 1
      BY <1>1, <2>1, <3>2
    <3>4. \A n \in MatchId \ {m} : g[n] = f[n]
      BY <1>1, <2>1, <3>2
    <3>5. f \in [MatchId -> Int] /\ g \in [MatchId -> Int] /\ f[m] \in Int
      BY <2>2
    <3> HIDE DEF f, g
    <3>6. SumFunction(g) = SumFunction(f) - f[m] + g[m]
      BY <3>4, <3>5, MatchIdFinite, SumChange
    <3>7. SumFunction(g) = SumFunction(f) + 1
      BY <2>3, <3>3, <3>5, <3>6
    <3>8. matches_played'[u] = SumFunction(g)
      BY <2>3, <2>4, <2>6, <3>7
    <3> QED BY <3>8 DEF g
  <2> QED BY <2>5, <2>6
<1> QED
  BY <1>3, <1>4, <1>5 DEF Tables, PlayedCountsRows, RowsOf

(* The end of a match turns its active rows into past ones. *)
LEMMA EndTables ==
  ASSUME TypeOK, TypeOK', Tables, NEW m \in MatchId, EndMatch(m)
  PROVE  Tables'
<1> USE ConstantTypes
<1>1. /\ rows \in [Row -> Nat] /\ rows' \in [Row -> Nat]
      /\ matches \in [MatchId -> {None, "active", "ended"}]
  BY DEF TypeOK
<1>2. matches[m] = "active" /\ matches' = [matches EXCEPT ![m] = "ended"]
  BY DEF EndMatch
<1>3. ASSUME NEW n \in MatchId, NEW u \in User
      PROVE  /\ rows[Seat(n, u)] \in Nat /\ rows[Past(n, u)] \in Nat
             /\ n # m => /\ rows'[Seat(n, u)] = rows[Seat(n, u)]
                         /\ rows'[Past(n, u)] = rows[Past(n, u)]
             /\ n = m => /\ rows'[Seat(n, u)] = 0
                         /\ rows'[Past(n, u)] = rows[Past(n, u)] + rows[Seat(n, u)]
  <2>1. \A r \in Row : rows'[r] =
          IF r.match # m THEN rows[r]
          ELSE IF r.active THEN 0
          ELSE rows[r] + rows[Seat(m, r.user)]
    BY DEF EndMatch, Seat
  <2> QED BY <1>1, <2>1, SeatTypes
<1>4. RowsAreStored'
  <2>1. ASSUME NEW n \in MatchId, NEW u \in User, matches'[n] = None
        PROVE  rows'[Seat(n, u)] = 0 /\ rows'[Past(n, u)] = 0
    <3>1. n # m /\ matches[n] = None
      BY <1>1, <1>2, <2>1
    <3> QED BY <1>3, <3>1 DEF Tables, RowsAreStored
  <2> QED BY <2>1 DEF RowsAreStored, Seat, Past
<1>5. SingleActiveMatch'
  <2>1. ASSUME NEW u \in User
        PROVE  ActiveRows(rows', u) <= 1
    <3> DEFINE f == [n \in MatchId |-> rows[Seat(n, u)]]
               g == [n \in MatchId |-> rows'[Seat(n, u)]]
    <3>1. /\ f \in [MatchId -> Nat] /\ ActiveRows(rows, u) = SumFunction(f)
          /\ g \in [MatchId -> Nat] /\ ActiveRows(rows', u) = SumFunction(g)
          /\ ActiveRows(rows, u) \in Nat /\ ActiveRows(rows', u) \in Nat
      BY <1>1, ActiveRowsSum
    <3>2. \A n \in MatchId : g[n] <= f[n]
      BY <1>3
    <3>3. f \in [MatchId -> Int] /\ g \in [MatchId -> Int]
      BY <3>1
    <3>4. ActiveRows(rows, u) <= 1
      BY DEF Tables, SingleActiveMatch
    <3> HIDE DEF f, g
    <3>5. SumFunction(g) <= SumFunction(f)
      BY <3>2, <3>3, MatchIdFinite, SumGrows
    <3> QED BY <3>1, <3>4, <3>5
  <2>2. ASSUME NEW n \in MatchId, NEW u \in User, matches'[n] = "active"
        PROVE  rows'[Past(n, u)] = 0
    <3>1. n # m /\ matches[n] = "active"
      BY <1>1, <1>2, <2>2
    <3>2. rows[Past(n, u)] = 0
      BY <3>1 DEF Tables, SingleActiveMatch, Past
    <3> QED BY <1>3, <3>1, <3>2
  <2> QED BY <2>1, <2>2 DEF SingleActiveMatch, Past, ActiveRows
<1>6. PlayedCountsRows'
  <2>1. ASSUME NEW u \in User, NEW n \in MatchId
        PROVE  RowsOf(n, u)' = RowsOf(n, u)
    <3>1. /\ RowsOf(n, u) = rows[Seat(n, u)] + rows[Past(n, u)]
          /\ RowsOf(n, u)' = rows'[Seat(n, u)] + rows'[Past(n, u)]
      BY DEF RowsOf, Seat, Past
    <3>2. CASE n = m
      BY <1>3, <3>1, <3>2
    <3>3. CASE n # m
      BY <1>3, <3>1, <3>3
    <3> QED BY <3>2, <3>3
  <2>2. matches_played' = matches_played
    BY DEF EndMatch
  <2>3. ASSUME NEW u \in User
        PROVE  [n \in MatchId |-> RowsOf(n, u)'] = [n \in MatchId |-> RowsOf(n, u)]
    BY <2>1
  <2> QED BY <2>2, <2>3 DEF Tables, PlayedCountsRows
<1> QED
  BY <1>4, <1>5, <1>6 DEF Tables

(* The tables are empty at first. *)
LEMMA InitTables == Init => Tables
<1> SUFFICES ASSUME Init PROVE Tables
  OBVIOUS
<1>1. rows \in [Row -> Nat] /\ \A m \in MatchId, u \in User : rows[Seat(m, u)] = 0 /\ rows[Past(m, u)] = 0
  BY SeatTypes DEF Init
<1>2. \A m \in MatchId : matches[m] = None
  BY DEF Init
<1>3. ASSUME NEW u \in User PROVE ActiveRows(rows, u) = 0
  <2> DEFINE f == [m \in MatchId |-> rows[Seat(m, u)]]
  <2>1. f \in [MatchId -> Int] /\ \A m \in MatchId : f[m] = 0
    BY <1>1
  <2>2. ActiveRows(rows, u) = SumFunction(f)
    BY <1>1, ActiveRowsSum
  <2> HIDE DEF f
  <2> QED BY <2>1, <2>2, MatchIdFinite, SumFunctionZero
<1>4. ASSUME NEW u \in User PROVE SumFunction([m \in MatchId |-> RowsOf(m, u)]) = 0
  <2> DEFINE f == [m \in MatchId |-> RowsOf(m, u)]
  <2>1. \A m \in MatchId : RowsOf(m, u) = rows[Seat(m, u)] + rows[Past(m, u)]
    BY DEF RowsOf, Seat, Past
  <2>2. f \in [MatchId -> Int] /\ \A m \in MatchId : f[m] = 0
    BY <1>1, <2>1
  <2> HIDE DEF f
  <2>3. SumFunction(f) = 0
    BY <2>2, MatchIdFinite, SumFunctionZero
  <2> QED BY <2>3 DEF f
<1>5. \A u \in User : matches_played[u] = 0
  BY DEF Init
<1>6. RowsAreStored
  BY <1>1 DEF RowsAreStored
<1>7. SingleActiveMatch
  <2>1. \A m \in MatchId : matches[m] # "active"
    BY <1>2, ConstantTypes
  <2>2. \A u \in User : ActiveRows(rows, u) <= 1
    BY <1>3
  <2> QED BY <2>1, <2>2 DEF SingleActiveMatch
<1>8. PlayedCountsRows
  BY <1>4, <1>5 DEF PlayedCountsRows
<1> QED
  BY <1>6, <1>7, <1>8 DEF Tables

(* Every step keeps the tables right. *)
LEMMA TablesStep == Inv /\ Inv' /\ Tables /\ [Next]_vars => Tables'
<1> SUFFICES ASSUME Inv, Inv', Tables, [Next]_vars PROVE Tables'
  OBVIOUS
<1>1. CASE UNCHANGED <<matches, rows, matches_played>>
  BY <1>1 DEF Tables, RowsAreStored, SingleActiveMatch, PlayedCountsRows, RowsOf, ActiveRows
<1>2. CASE InsertRows /\ ~ Conflict
  BY <1>2, InsertTables DEF Inv
<1>3. CASE \E m \in MatchId : EndMatch(m)
  BY <1>3, EndTables DEF Inv
<1> QED
  BY <1>1, <1>2, <1>3, TableSteps

LEMMA TablesHold == Spec => []Tables
BY InitTables, TablesStep, InvHolds, PTL DEF Spec

(* No user is in two active matches, however often it queued and whatever  *)
(* the stream delivers twice; nobody of an active match has left it.       *)
THEOREM OneActiveMatch == Spec => []SingleActiveMatch
<1>1. Tables => SingleActiveMatch
  BY DEF Tables
<1> QED
  BY <1>1, TablesHold, PTL

(* users.matches_played is the number of the user's rows in match_players, *)
(* after every aborted, repeated or half-answered insert.                  *)
THEOREM PlayedIsCounted == Spec => []PlayedCountsRows
<1>1. Tables => PlayedCountsRows
  BY DEF Tables
<1> QED
  BY <1>1, TablesHold, PTL
=============================================================================
