--------------------------- MODULE RecoveryProofs ---------------------------
(***************************************************************************)
(* Theorems about Recovery, for any number of match threads, buckets and   *)
(* entries, any batch and group size, any interval and any number of       *)
(* snapshots kept, of crashes and of failed writes.                        *)
(***************************************************************************)
EXTENDS Recovery, SequenceTheorems, SumTheorems, TLAPS

-----------------------------------------------------------------------------
(***************************************************************************)
(* The inductive invariant.                                                *)
(***************************************************************************)

(* The loop of the ingestion thread: what it has in hand lies behind the   *)
(* position it read after, which is the cursor once there is one.          *)
Reading ==
  /\ reading = "idle" => last = Latest
  /\ reading # "idle" => last # Latest /\ (cursor # Latest => last = cursor)
  /\ reading # "placing" => batch = {} /\ uncounted = 0
  /\ reading = "placing" => last <= newest /\ \A i \in batch : newest < i

(* A process that is down has nothing in memory. *)
Down == ~ up => reading = "idle" /\ step = "sleep" /\ cursor = Latest /\ Waiting = {}

Capturing == step \in {"copy", "write"}

(* Offsets only move forward, from the newest file over the draft to the   *)
(* cursor.                                                                 *)
Cursors ==
  /\ Capturing /\ draft.cursor # Latest => cursor # Latest /\ draft.cursor <= cursor
  /\ files # <<>> /\ Newest.cursor # Latest =>
       /\ up => cursor # Latest /\ Newest.cursor <= cursor
       /\ Capturing => draft.cursor # Latest /\ Newest.cursor <= draft.cursor

(* Entries are in the order they were added, and the trimmed ones are old. *)
Times ==
  /\ \A i, j \in DOMAIN stream : i <= j => stream[i] <= stream[j]
  /\ \A i \in DOMAIN stream : stream[i] <= clock
  /\ \A i \in 1 .. floor : stream[i] + Retention < clock

(* Entry i was added no more than MaxLag before t. *)
Recent(i, t) == i \in DOMAIN stream /\ t <= stream[i] + MaxLag

(* ... and lies behind the offset c. *)
Late(i, c, t) == i > c /\ Recent(i, t)

(* When a snapshot is due, whatever is unread has just arrived. *)
Prompt == up /\ due <= clock => \A i \in Unread : Recent(i, clock)

Copied(i) == step = "write" \/ Home[i] < copied
InDraft(i) == draft.players[i] > 0 \/ i \in draft.missed

(* Of a snapshot being taken: what is behind its cursor is recent, and who *)
(* waits in a bucket already copied is in it or behind its cursor.         *)
Captured ==
  /\ step # "copy" => copied = 0
  /\ Capturing /\ draft.cursor # Latest =>
       /\ \A i \in After(draft.cursor) \cup batch : Recent(i, clock)
       /\ \A i \in Waiting : Copied(i) => InDraft(i) \/ Late(i, draft.cursor, clock)

InNewest(i) == Newest.players[i] > 0 \/ i \in Newest.missed

(* The same of the newest snapshot, relative to when it was written. *)
Saved ==
  files # <<>> /\ Newest.cursor # Latest =>
    /\ \A i \in After(Newest.cursor) \cup batch : Recent(i, Newest.at)
    /\ \A i \in Waiting : InNewest(i) \/ Late(i, Newest.cursor, Newest.at)
    /\ Newest.at <= clock

Inv == TypeOK /\ Reading /\ Down /\ Cursors /\ Times /\ Prompt /\ Captured /\ Saved

(* The constants and the sets derived from them. *)
LEMMA ConstantTypes ==
  /\ NumBuckets \in Nat \ {0} /\ GroupSize \in Nat \ {0} /\ Interval \in Nat \ {0}
  /\ Kept \in Nat \ {0} /\ MaxLag \in Nat /\ MaxEntries \in Nat
  /\ Retention \in Nat
  /\ Latest \notin Nat
  /\ 0 \in Bucket /\ Bucket \subseteq Nat
  /\ Id \subseteq Nat \ {0}
  /\ Home \in [Id -> Bucket]
  /\ CounterRange \in Nat \ {0}
<1>1. /\ NumBuckets \in Nat \ {0} /\ GroupSize \in Nat \ {0} /\ Interval \in Nat \ {0}
      /\ Kept \in Nat \ {0} /\ MaxLag \in Nat /\ MaxEntries \in Nat
  BY RecoveryAssumption
<1> QED
  BY <1>1, RecoveryAssumption DEF Retention, Bucket, Id

(* There are finitely many entries and match threads. *)
LEMMA FiniteConstants == IsFiniteSet(Id) /\ IsFiniteSet(Worker)
<1>1. 1 \in Int /\ MaxEntries \in Int
  BY ConstantTypes
<1> QED BY <1>1, RecoveryAssumption, FS_Interval DEF Id

(* Those who wait, in the pool or in a hand, are entries. *)
LEMMA WaitingType == TypeOK => Held \subseteq Id /\ Waiting \subseteq Id
<1> SUFFICES ASSUME TypeOK PROVE Held \subseteq Id /\ Waiting \subseteq Id
  OBVIOUS
<1>1. \A w \in Worker : hand[w] \in Seq(Id)
  BY DEF TypeOK
<1>2. \A w \in Worker : Range(hand[w]) \subseteq Id
  BY <1>1, ElementOfSeq, LenProperties DEF Range
<1> QED
  BY <1>2 DEF Held, Waiting

(* Nothing waits, is being read or being copied when the process starts. *)
LEMMA InitInv == Init => Inv
<1> SUFFICES ASSUME Init PROVE Inv
  OBVIOUS
<1> USE ConstantTypes
<1>1. Waiting = {}
  <2>1. \A w \in Worker : Range(hand[w]) = {}
    BY DEF Init, Range
  <2>2. Held = {}
    BY <2>1 DEF Held
  <2> QED
    BY <2>2 DEF Init, Waiting, Nobody
<1>2. TypeOK
  BY <1>1 DEF Init, TypeOK, Offset, After, NoDraft, Nobody
<1>3. Reading
  BY <1>1 DEF Init, Reading
<1>4. Down
  BY <1>1 DEF Init, Down
<1>5. Cursors
  BY <1>1 DEF Init, Cursors, Capturing
<1>6. Times
  BY <1>1 DEF Init, Times
<1>7. Prompt
  BY <1>1 DEF Init, Prompt, Unread, After, Recent
<1>8. Captured
  BY <1>1 DEF Init, Captured, Capturing
<1>9. Saved
  BY <1>1 DEF Init, Saved
<1> QED
  BY <1>2, <1>3, <1>4, <1>5, <1>6, <1>7, <1>8, <1>9 DEF Inv

(* The newest file is a snapshot. *)
LEMMA NewestType ==
  ASSUME TypeOK, files # <<>>
  PROVE  /\ Len(files) \in Nat \ {0} /\ Len(files) \in DOMAIN files
         /\ Newest.at \in Nat /\ Newest.cursor \in Offset
         /\ Newest.players \in [Id -> Nat] /\ Newest.missed \in SUBSET Id
<1> DEFINE S == [at : Nat, cursor : Offset, players : [Id -> Nat], missed : SUBSET Id]
<1>1. files \in Seq(S)
  BY DEF TypeOK
<1> HIDE DEF S
<1>2. Len(files) \in Nat \ {0} /\ Len(files) \in DOMAIN files
  BY <1>1, EmptySeq, LenProperties
<1>3. Newest \in S
  BY <1>1, <1>2, ElementOfSeq DEF Newest
<1> QED
  BY <1>2, <1>3 DEF S

(* A new entry is the youngest, and lies behind every offset: it is recent *)
(* for any snapshot that does not hold it.                                 *)
LEMMA PublishInv ==
  ASSUME Inv, Publish
  PROVE  Inv'
<1> USE ConstantTypes DEF Inv, Publish
<1> DEFINE n == Len(stream) + 1
<1>1. /\ stream' \in Seq(Nat) /\ Len(stream') = n /\ n \in Nat /\ n <= MaxEntries
      /\ \A i \in DOMAIN stream : i \in DOMAIN stream' /\ stream'[i] = stream[i]
      /\ n \in DOMAIN stream' /\ stream'[n] = clock
      /\ DOMAIN stream' = DOMAIN stream \cup {n} /\ DOMAIN stream = 1 .. Len(stream)
      /\ Waiting' = Waiting
  BY DEF TypeOK, Waiting, Held, poolVars
<1> HIDE DEF n
<1>2. TypeOK'
  BY <1>1 DEF TypeOK, readVars, poolVars, snapVars, faultVars
<1>3. Reading'
  BY <1>1 DEF Reading, readVars, poolVars, snapVars, faultVars
<1>4. Down'
  BY <1>1 DEF Down, readVars, poolVars, snapVars, faultVars
<1>5. Cursors'
  BY <1>1 DEF Cursors, Capturing, Newest, readVars, poolVars, snapVars, faultVars
<1>6. Times'
  <2>1. \A i \in DOMAIN stream' : stream'[i] <= clock
    BY <1>1 DEF TypeOK, Times
  <2>2. ASSUME NEW i \in DOMAIN stream', NEW j \in DOMAIN stream', i <= j
        PROVE  stream'[i] <= stream'[j]
    <3>1. CASE j = n
      BY <1>1, <2>1, <3>1
    <3>2. CASE j # n
      BY <1>1, <2>2, <3>2 DEF Times, TypeOK
    <3> QED
      BY <3>1, <3>2
  <2>3. \A i \in 1 .. floor' : stream'[i] + Retention < clock'
    BY <1>1 DEF Times, TypeOK
  <2> QED
    BY <2>1, <2>2, <2>3 DEF Times
<1>7. Prompt'
  <2> SUFFICES ASSUME up, due <= clock, NEW i \in Unread'
               PROVE  Recent(i, clock)'
    BY DEF Prompt, snapVars
  <2>1. CASE i = n
    BY <1>1, <2>1 DEF Recent, TypeOK
  <2>2. CASE i # n
    <3>1. i \in Unread
      BY <1>1, <2>2 DEF Unread, After, readVars, TypeOK
    <3> QED
      BY <1>1, <3>1 DEF Recent, Prompt
  <2> QED
    BY <2>1, <2>2
<1>8. Captured'
  <2> SUFFICES ASSUME Capturing, draft.cursor # Latest
               PROVE  /\ \A i \in After(draft.cursor)' \cup batch : Recent(i, clock)'
                      /\ \A i \in Waiting : Copied(i) => InDraft(i) \/ Late(i, draft.cursor, clock)'
    BY <1>1 DEF Captured, Capturing, Copied, InDraft, Late, Recent, readVars, snapVars
  <2>1. \A i, t : Recent(i, t) => Recent(i, t)'
    BY <1>1 DEF Recent
  <2>2. ASSUME NEW i \in After(draft.cursor)' \cup batch
        PROVE  Recent(i, clock)'
    <3>1. CASE i = n
      BY <1>1, <3>1 DEF Recent, TypeOK
    <3>2. CASE i # n
      <4>1. i \in After(draft.cursor) \cup batch
        BY <1>1, <2>2, <3>2 DEF After, snapVars, TypeOK
      <4> QED
        BY <1>1, <4>1 DEF Recent, Captured
    <3> QED
      BY <3>1, <3>2
  <2> QED
    BY <1>1, <2>1, <2>2 DEF Captured, Late, Recent, snapVars
<1>9. Saved'
  <2> SUFFICES ASSUME files # <<>>, Newest.cursor # Latest
               PROVE  /\ \A i \in After(Newest.cursor)' \cup batch : Recent(i, Newest.at)'
                      /\ \A i \in Waiting : InNewest(i) \/ Late(i, Newest.cursor, Newest.at)'
                      /\ Newest.at <= clock
    BY <1>1 DEF Saved, InNewest, Newest, Late, Recent, readVars
  <2>1. \A i, t : Recent(i, t) => Recent(i, t)'
    BY <1>1 DEF Recent
  <2>2. ASSUME NEW i \in After(Newest.cursor)' \cup batch
        PROVE  Recent(i, Newest.at)'
    <3>1. CASE i = n
      BY <1>1, <3>1, NewestType, SMTT(20) DEF Recent, TypeOK, Newest, Saved
    <3>2. CASE i # n
      <4>1. i \in After(Newest.cursor) \cup batch
        BY <1>1, <2>2, <3>2 DEF After, Newest, TypeOK
      <4> QED
        BY <1>1, <4>1 DEF Recent, Saved, Newest
    <3> QED
      BY <3>1, <3>2
  <2> QED
    BY <1>1, <2>1, <2>2 DEF Saved, Late, Recent, Newest
<1> QED
  BY <1>2, <1>3, <1>4, <1>5, <1>6, <1>7, <1>8, <1>9

(* The first read of a process without a cursor asks for what comes after  *)
(* the end of the stream: there is nothing unread then.                    *)
LEMMA AskInv ==
  ASSUME Inv, Ask
  PROVE  Inv'
<1> USE ConstantTypes DEF Inv, Ask
<1>1. Waiting' = Waiting
  BY DEF Waiting, Held, redisVars, poolVars, snapVars, faultVars
<1>2. TypeOK'
  BY DEF TypeOK, Offset, redisVars, poolVars, snapVars, faultVars
<1>3. Reading'
  BY <1>1 DEF Reading, redisVars, poolVars, snapVars, faultVars
<1>4. Down'
  BY <1>1 DEF Down, redisVars, poolVars, snapVars, faultVars
<1>5. Cursors'
  BY <1>1 DEF Cursors, Capturing, Newest, redisVars, poolVars, snapVars, faultVars
<1>6. Times'
  BY <1>1 DEF Times, Retention, redisVars, poolVars, snapVars, faultVars
<1>7. Prompt'
  <2>1. batch = {} /\ batch' = {}
    BY DEF Reading
  <2>2. CASE cursor = Latest
    <3>1. After(last') = {}
      BY <2>2 DEF After, TypeOK
    <3>2. last' # Latest /\ reading' = "asked" /\ stream' = stream /\ floor' = floor
      BY <2>2 DEF TypeOK, redisVars
    <3>3. Unread' = {}
      BY <2>1, <3>1, <3>2 DEF Unread, After
    <3> QED
      BY <3>3 DEF Prompt
  <2>3. CASE cursor # Latest
    <3>1. last' = cursor /\ reading' = "asked" /\ stream' = stream /\ floor' = floor
      BY <2>3 DEF redisVars
    <3>2. Unread' = Unread
      BY <2>1, <2>3, <3>1 DEF Unread, After
    <3> QED
      BY <3>1, <3>2 DEF Prompt, Recent, snapVars
  <2> QED
    BY <2>2, <2>3
<1>8. Captured'
  BY <1>1
     DEF Captured, Capturing, After, Recent, Late, Copied, InDraft, redisVars, poolVars,
         snapVars, faultVars
<1>9. Saved'
  BY <1>1
     DEF Saved, Newest, After, Recent, Late, InNewest, redisVars, poolVars, snapVars,
         faultVars
<1> QED
  BY <1>2, <1>3, <1>4, <1>5, <1>6, <1>7, <1>8, <1>9

(* The reply is what was unread: the entries move from the stream to the   *)
(* batch and stay behind the cursor.                                       *)
LEMMA ReceiveInv ==
  ASSUME Inv, NEW end \in Id, Receive(end)
  PROVE  Inv'
<1> USE ConstantTypes DEF Inv, Receive
<1>1. Waiting' = Waiting
  BY DEF Waiting, Held, redisVars, poolVars, snapVars, faultVars
<1>2. TypeOK'
  BY SMTT(20) DEF TypeOK, Offset, Reading, After, redisVars, poolVars, snapVars, faultVars
<1>3. Reading'
  BY <1>1 DEF Reading, TypeOK, Offset, After, redisVars, poolVars, snapVars, faultVars
<1>4. Down'
  BY <1>1 DEF Down, redisVars, poolVars, snapVars, faultVars
<1>5. Cursors'
  BY <1>1 DEF Cursors, Capturing, Newest, redisVars, poolVars, snapVars, faultVars
<1>6. Times'
  BY <1>1 DEF Times, Retention, redisVars, poolVars, snapVars, faultVars
<1>7. Prompt'
  BY <1>1 DEF Prompt, Unread, After, Recent, redisVars, poolVars, snapVars, faultVars
<1>8. Captured'
  <2> SUFFICES ASSUME Capturing, draft.cursor # Latest
               PROVE  /\ \A i \in After(draft.cursor) \cup batch' : Recent(i, clock)
                      /\ \A i \in Waiting : Copied(i) => InDraft(i) \/ Late(i, draft.cursor, clock)
    BY <1>1 DEF Captured, Capturing, Copied, InDraft, Late, Recent, After, redisVars, snapVars
  <2>1. batch' \subseteq After(draft.cursor)
    BY DEF After, Reading, Cursors, TypeOK, Offset
  <2> QED
    BY <2>1 DEF Captured
<1>9. Saved'
  <2> SUFFICES ASSUME files # <<>>, Newest.cursor # Latest
               PROVE  /\ \A i \in After(Newest.cursor) \cup batch' : Recent(i, Newest.at)
                      /\ \A i \in Waiting : InNewest(i) \/ Late(i, Newest.cursor, Newest.at)
                      /\ Newest.at <= clock
    BY <1>1 DEF Saved, InNewest, Newest, Late, Recent, After, redisVars
  <2>1. Newest.cursor \in Offset
    BY NewestType
  <2>2. batch' \subseteq After(Newest.cursor)
    BY <2>1, SMTT(20) DEF After, Reading, Cursors, Down, TypeOK, Offset
  <2> QED
    BY <2>2 DEF Saved
<1> QED
  BY <1>2, <1>3, <1>4, <1>5, <1>6, <1>7, <1>8, <1>9

(* A read without a reply changes the position of the reader only. *)
LEMMA ReceiveNothingInv ==
  ASSUME Inv, ReceiveNothing
  PROVE  Inv'
<1> USE ConstantTypes DEF Inv, ReceiveNothing
<1>1. Waiting' = Waiting
  BY DEF Waiting, Held, redisVars, poolVars, snapVars, faultVars
<1>2. TypeOK'
  BY <1>1 DEF TypeOK, Offset, redisVars, poolVars, snapVars, faultVars
<1>3. Reading'
  BY <1>1 DEF Reading, redisVars, poolVars, snapVars, faultVars
<1>4. Down'
  BY <1>1 DEF Down, redisVars, poolVars, snapVars, faultVars
<1>5. Cursors'
  BY <1>1 DEF Cursors, Capturing, Newest, redisVars, poolVars, snapVars, faultVars
<1>6. Times'
  BY <1>1 DEF Times, Retention, redisVars, poolVars, snapVars, faultVars
<1>7. Prompt'
  BY <1>1
     DEF Prompt, Unread, After, Recent, TypeOK, Offset, Reading, redisVars, poolVars,
         snapVars, faultVars
<1>8. Captured'
  BY <1>1
     DEF Captured, Capturing, After, Recent, Late, Copied, InDraft, redisVars, poolVars,
         snapVars, faultVars
<1>9. Saved'
  BY <1>1
     DEF Saved, Newest, After, Recent, Late, InNewest, redisVars, poolVars, snapVars,
         faultVars
<1> QED
  BY <1>2, <1>3, <1>4, <1>5, <1>6, <1>7, <1>8, <1>9

(* The entry that enters the pool was behind the cursor and behind the     *)
(* position the next batch is read from: a snapshot that does not hold it  *)
(* has an offset before it.                                                *)
LEMMA EnqueueInv ==
  ASSUME Inv, NEW e \in Id, Enqueue(e)
  PROVE  Inv'
<1> USE ConstantTypes DEF Inv, Enqueue
<1>a. /\ batch' = batch \ {e} /\ newest' = e /\ pool' = [pool EXCEPT ![e] = @ + 1]
      /\ e \in 1 .. Len(stream) /\ e \in Nat /\ reading = "placing"
      /\ newest < e /\ last < e /\ last # Latest
  BY DEF TypeOK, Reading, Offset
<1>b. Waiting' = Waiting \cup {e}
  <2>1. \A i \in Id : pool'[i] = IF i = e THEN pool[i] + 1 ELSE pool[i]
    BY <1>a DEF TypeOK
  <2> QED
    BY <1>a, <2>1 DEF TypeOK, Waiting, Held
<1>2. TypeOK'
  <2>1. pool' \in [Id -> Nat]
    BY <1>a DEF TypeOK
  <2>2. batch' \subseteq 1 .. Len(stream) /\ newest' \in 0 .. Len(stream)
    BY <1>a DEF TypeOK
  <2> QED
    BY <2>1, <2>2 DEF TypeOK, redisVars, snapVars, faultVars
<1>3. Reading'
  BY <1>a DEF Reading, TypeOK, Offset
<1>4. Down'
  BY <1>a DEF Down
<1>5. Cursors'
  BY <1>a DEF Cursors, Capturing, Newest, redisVars, snapVars, faultVars
<1>6. Times'
  BY <1>a DEF Times, Retention, redisVars, snapVars, faultVars
<1>7. Prompt'
  <2>1. Unread' \subseteq Unread
    BY <1>a DEF Unread, After, redisVars
  <2> QED
    BY <2>1 DEF Prompt, Recent, redisVars, snapVars
<1>8. Captured'
  <2> SUFFICES ASSUME Capturing, draft.cursor # Latest
               PROVE  /\ \A i \in After(draft.cursor) \cup batch' : Recent(i, clock)
                      /\ \A i \in Waiting' : Copied(i) => InDraft(i) \/ Late(i, draft.cursor, clock)
    BY DEF Captured, Capturing, Copied, InDraft, Late, Recent, After, redisVars, snapVars
  <2>1. Late(e, draft.cursor, clock)
    BY <1>a DEF Late, Captured, Reading, Cursors, TypeOK, Offset
  <2> QED
    BY <1>a, <1>b, <2>1 DEF Captured
<1>9. Saved'
  <2> SUFFICES ASSUME files # <<>>, Newest.cursor # Latest
               PROVE  /\ \A i \in After(Newest.cursor) \cup batch' : Recent(i, Newest.at)
                      /\ \A i \in Waiting' : InNewest(i) \/ Late(i, Newest.cursor, Newest.at)
                      /\ Newest.at <= clock
    BY DEF Saved, InNewest, Newest, Late, Recent, After, redisVars
  <2>1. Newest.cursor \in Offset
    BY NewestType
  <2>2. Late(e, Newest.cursor, Newest.at)
    BY <1>a, <2>1, SMTT(20) DEF Late, Saved, Reading, Cursors, Down, TypeOK, Offset
  <2> QED
    BY <1>a, <1>b, <2>2 DEF Saved
<1> QED
  BY <1>2, <1>3, <1>4, <1>5, <1>6, <1>7, <1>8, <1>9

(* Counting an entry moves nobody. *)
LEMMA CountInv ==
  ASSUME Inv, Count
  PROVE  Inv'
<1> USE ConstantTypes DEF Inv, Count
<1>1. Waiting' = Waiting
  BY DEF Waiting, Held
<1>2. TypeOK'
  <2>1. (waiting + 1) % CounterRange \in 0 .. CounterRange - 1
    BY DEF TypeOK
  <2> QED
    BY <2>1 DEF TypeOK, redisVars, snapVars, faultVars
<1>3. Reading'
  BY DEF Reading, TypeOK
<1>4. Down'
  BY <1>1 DEF Down, snapVars
<1>5. Cursors'
  BY DEF Cursors, Capturing, Newest, redisVars, snapVars
<1>6. Times'
  BY DEF Times, Retention, redisVars
<1>7. Prompt'
  BY DEF Prompt, Unread, After, Recent, redisVars, snapVars
<1>8. Captured'
  BY <1>1 DEF Captured, Capturing, After, Recent, Late, Copied, InDraft, redisVars, snapVars
<1>9. Saved'
  BY <1>1 DEF Saved, Newest, After, Recent, Late, InNewest, redisVars
<1> QED
  BY <1>2, <1>3, <1>4, <1>5, <1>6, <1>7, <1>8, <1>9

(* The cursor moves when the batch is in the pool, and never back. *)
LEMMA AdvanceInv ==
  ASSUME Inv, Advance
  PROVE  Inv'
<1> USE ConstantTypes DEF Inv, Advance
<1>1. Waiting' = Waiting
  BY DEF Waiting, Held, redisVars, poolVars, snapVars, faultVars
<1>2. TypeOK'
  BY <1>1 DEF TypeOK, Offset, redisVars, poolVars, snapVars, faultVars
<1>3. Reading'
  BY <1>1 DEF Reading, redisVars, poolVars, snapVars, faultVars
<1>4. Down'
  BY <1>1 DEF Down, redisVars, poolVars, snapVars, faultVars
<1>5. Cursors'
  <2>1. newest \in Nat /\ up /\ cursor' = newest /\ newest # Latest
    BY DEF TypeOK, Down
  <2>2. cursor # Latest => cursor <= newest
    BY DEF Reading
  <2>3. Newest' = Newest
    BY DEF Newest
  <2>4. files # <<>> => Newest.cursor \in Offset
    BY NewestType
  <2> QED
    BY <2>1, <2>2, <2>3, <2>4 DEF Cursors, Capturing, TypeOK, Offset, snapVars
<1>6. Times'
  BY <1>1 DEF Times, Retention, redisVars, poolVars, snapVars, faultVars
<1>7. Prompt'
  BY <1>1
     DEF Prompt, Unread, After, Recent, TypeOK, Offset, Reading, redisVars, poolVars,
         snapVars, faultVars
<1>8. Captured'
  BY <1>1
     DEF Captured, Capturing, After, Recent, Late, Copied, InDraft, redisVars, poolVars,
         snapVars, faultVars
<1>9. Saved'
  BY <1>1
     DEF Saved, Newest, After, Recent, Late, InNewest, redisVars, poolVars, snapVars,
         faultVars
<1> QED
  BY <1>2, <1>3, <1>4, <1>5, <1>6, <1>7, <1>8, <1>9

(* The draft takes the cursor first. Nothing is copied yet, and by Prompt  *)
(* what is unread has just arrived.                                        *)
LEMMA BeginSnapshotInv ==
  ASSUME Inv, BeginSnapshot
  PROVE  Inv'
<1> USE ConstantTypes DEF Inv, BeginSnapshot
<1>1. Waiting' = Waiting
  BY DEF Waiting, Held, redisVars, readVars, poolVars, faultVars
<1>2. TypeOK'
  BY <1>1
     DEF TypeOK, Offset, Id, Bucket, After, NoDraft, Nobody, redisVars, readVars, poolVars,
         faultVars
<1>3. Reading'
  BY <1>1 DEF Reading, redisVars, readVars, poolVars, faultVars
<1>4. Down'
  BY <1>1 DEF Down, redisVars, readVars, poolVars, faultVars
<1>5. Cursors'
  <2>1. cursor \in Offset /\ (files # <<>> => Newest.cursor \in Offset)
    BY NewestType DEF TypeOK
  <2>2. draft'.cursor = cursor /\ step' = "copy" /\ UNCHANGED <<files, up, cursor>> /\ up
    BY DEF NoDraft, readVars
  <2> QED
    BY <2>1, <2>2 DEF Cursors, Capturing, Newest, Offset
<1>6. Times'
  BY <1>1 DEF Times, Retention, redisVars, readVars, poolVars, faultVars
<1>7. Prompt'
  BY <1>1 DEF Prompt, Unread, After, Recent, redisVars, readVars, poolVars, faultVars
<1>8. Captured'
  <2>1. copied = 0 /\ step' = "copy" /\ copied' = 0
    BY DEF Captured
  <2>2. Waiting \subseteq Id
    BY WaitingType
  <2>3. \A i \in Id : ~ Copied(i)'
    <3>1. \A i \in Id : Home[i] \in Nat
      OBVIOUS
    <3> QED
      BY <2>1, <3>1 DEF Copied
  <2>4. draft'.cursor = cursor
    BY DEF NoDraft
  <2>5. cursor # Latest => After(cursor) \cup batch \subseteq Unread
    BY DEF Unread, Reading
  <2>6. up /\ due <= clock
    BY DEF TypeOK
  <2> QED
    BY <1>1, <2>1, <2>2, <2>3, <2>4, <2>5, <2>6
       DEF Captured, Prompt, After, Recent, redisVars, readVars
<1>9. Saved'
  BY <1>1
     DEF Saved, Newest, After, Recent, Late, InNewest, redisVars, readVars, poolVars,
         faultVars
<1> QED
  BY <1>2, <1>3, <1>4, <1>5, <1>6, <1>7, <1>8, <1>9

(* Whoever waits in the bucket is copied or noted as missed. *)
LEMMA CopyBucketInv ==
  ASSUME Inv, CopyBucket
  PROVE  Inv'
<1> USE ConstantTypes DEF Inv, CopyBucket
<1>1. Waiting' = Waiting
  BY DEF Waiting, Held, redisVars, readVars, poolVars, faultVars
<1>2. TypeOK'
  <2>1. draft' \in [cursor : Offset, players : [Id -> Nat], missed : SUBSET Id]
    <3>1. draft.cursor \in Offset /\ draft.missed \subseteq Id
          /\ draft.players \in [Id -> Nat] /\ pool \in [Id -> Nat]
      BY DEF TypeOK
    <3>2. {i \in Held : Home[i] = copied} \subseteq Id
      BY WaitingType
    <3> DEFINE P == [i \in Id |-> IF Home[i] = copied THEN pool[i] ELSE draft.players[i]]
               M == draft.missed \cup {i \in Held : Home[i] = copied}
    <3>3. P \in [Id -> Nat] /\ M \in SUBSET Id
      BY <3>1, <3>2
    <3>4. draft' = [cursor |-> draft.cursor, players |-> P, missed |-> M]
      BY DEF TypeOK
    <3> HIDE DEF P, M
    <3>5. \A c \in Offset, p \in [Id -> Nat], m \in SUBSET Id :
            [cursor |-> c, players |-> p, missed |-> m]
              \in [cursor : Offset, players : [Id -> Nat], missed : SUBSET Id]
      OBVIOUS
    <3>6. [cursor |-> draft.cursor, players |-> P, missed |-> M]
            \in [cursor : Offset, players : [Id -> Nat], missed : SUBSET Id]
      BY <3>1, <3>3, <3>5
    <3> QED
      BY <3>4, <3>6
  <2>2. copied' \in Bucket /\ step' \in {"copy", "write"}
    BY SMTT(20) DEF TypeOK, Bucket
  <2> QED
    BY <2>1, <2>2 DEF TypeOK, redisVars, readVars, poolVars, faultVars
<1>3. Reading'
  BY <1>1 DEF Reading, redisVars, readVars, poolVars, faultVars
<1>4. Down'
  BY <1>1 DEF Down, redisVars, readVars, poolVars, faultVars
<1>5. Cursors'
  BY <1>1 DEF Cursors, Capturing, Newest, redisVars, readVars, poolVars, faultVars
<1>6. Times'
  BY <1>1 DEF Times, Retention, redisVars, readVars, poolVars, faultVars
<1>7. Prompt'
  BY <1>1 DEF Prompt, Unread, After, Recent, redisVars, readVars, poolVars, faultVars
<1>8. Captured'
  <2>1. \A i \in Id : Home[i] \in Nat /\ Home[i] < NumBuckets
    BY DEF Bucket
  <2>2. copied \in Nat /\ copied < NumBuckets /\ step = "copy"
    BY SMTT(20) DEF TypeOK, Bucket
  <2>3. Waiting \subseteq Id
    BY WaitingType
  <2>4. draft'.cursor = draft.cursor
    BY DEF TypeOK
  <2>5. /\ \A i \in Id : draft'.players[i] = IF Home[i] = copied THEN pool[i] ELSE draft.players[i]
        /\ draft'.missed = draft.missed \cup {i \in Held : Home[i] = copied}
    BY DEF TypeOK
  <2>6. (step' # "copy" => copied' = 0) /\ Capturing' /\ Capturing
    BY <2>2 DEF Capturing
  <2>7. \A i \in Id : Copied(i)' => Home[i] <= copied
    <3>1. CASE copied + 1 = NumBuckets
      BY <3>1, <2>1, <2>2
    <3>2. CASE copied + 1 # NumBuckets
      <4>1. copied' = copied + 1 /\ step' = "copy"
        BY <2>2, <3>2
      <4> QED
        BY <2>1, <2>2, <4>1 DEF Copied
    <3> QED
      BY <3>1, <3>2
  <2>8. ASSUME draft.cursor # Latest, NEW i \in Waiting, Copied(i)'
        PROVE  InDraft(i)' \/ Late(i, draft.cursor, clock)
    <3>1. CASE Home[i] = copied
      BY <2>3, <2>5, <3>1 DEF InDraft, Waiting, TypeOK
    <3>2. CASE Home[i] # copied
      <4>1. Home[i] < copied
        BY <2>1, <2>2, <2>3, <2>7, <2>8, <3>2
      <4>2. InDraft(i) \/ Late(i, draft.cursor, clock)
        BY <2>6, <2>8, <4>1 DEF Captured, Copied
      <4>3. InDraft(i) => InDraft(i)'
        BY <2>3, <2>5, <3>2 DEF InDraft
      <4> QED
        BY <4>2, <4>3
    <3> QED
      BY <3>1, <3>2
  <2> QED
    BY <1>1, <2>4, <2>6, <2>8 DEF Captured, Late, Recent, After, redisVars, readVars
<1>9. Saved'
  BY <1>1
     DEF Saved, Newest, After, Recent, Late, InNewest, redisVars, readVars, poolVars,
         faultVars
<1> QED
  BY <1>2, <1>3, <1>4, <1>5, <1>6, <1>7, <1>8, <1>9

(* Every bucket is copied: the draft covers everybody, and becomes the     *)
(* newest snapshot.                                                        *)
LEMMA WriteSnapshotInv ==
  ASSUME Inv, WriteSnapshot
  PROVE  Inv'
<1> USE ConstantTypes DEF Inv, WriteSnapshot
<1>1. Waiting' = Waiting
  BY DEF Waiting, Held, redisVars, readVars, poolVars, faultVars
<1>2. TypeOK'
  BY <1>1, SMTT(20)
     DEF TypeOK, Offset, Id, Bucket, After, NoDraft, Nobody, redisVars, readVars, poolVars,
         faultVars
<1>3. Reading'
  BY <1>1 DEF Reading, redisVars, readVars, poolVars, faultVars
<1>4. Down'
  BY <1>1 DEF Down, redisVars, readVars, poolVars, faultVars
<1>5. Cursors'
  BY <1>1 DEF Cursors, Capturing, Newest, redisVars, readVars, poolVars, faultVars
<1>6. Times'
  BY <1>1 DEF Times, Retention, redisVars, readVars, poolVars, faultVars
<1>7. Prompt'
  BY <1>1 DEF Prompt, Unread, After, Recent, redisVars, readVars, poolVars, faultVars
<1>8. Captured'
  BY <1>1
     DEF Captured, Capturing, After, Recent, Late, Copied, InDraft, redisVars, readVars,
         poolVars, faultVars
<1>9. Saved'
  <2> DEFINE f == [at |-> clock, cursor |-> draft.cursor,
                   players |-> draft.players, missed |-> draft.missed]
  <2>1. files' = Append(files, f) /\ files \in Seq([at : Nat, cursor : Offset, players : [Id -> Nat], missed : SUBSET Id])
    BY DEF TypeOK
  <2> HIDE DEF f
  <2>2. Newest' = f
    BY <2>1, AppendProperties DEF Newest
  <2>3. /\ Newest'.at = clock /\ Newest'.cursor = draft.cursor
        /\ Newest'.players = draft.players /\ Newest'.missed = draft.missed
    BY <2>2 DEF f
  <2>4. Capturing /\ \A i : Copied(i)
    BY DEF Capturing, Copied
  <2> QED
    BY <1>1, <2>3, <2>4
       DEF Saved, Captured, InDraft, InNewest, Late, Recent, After, TypeOK, redisVars, readVars
<1> QED
  BY <1>2, <1>3, <1>4, <1>5, <1>6, <1>7, <1>8, <1>9

(* A failed write leaves the files as they are. *)
LEMMA WriteFailsInv ==
  ASSUME Inv, WriteFails
  PROVE  Inv'
<1> USE ConstantTypes DEF Inv, WriteFails
<1>1. Waiting' = Waiting
  BY DEF Waiting, Held, redisVars, readVars, poolVars
<1>2. TypeOK'
  BY <1>1 DEF TypeOK, Offset, Id, Bucket, After, NoDraft, Nobody, redisVars, readVars, poolVars
<1>3. Reading'
  BY <1>1 DEF Reading, redisVars, readVars, poolVars
<1>4. Down'
  BY <1>1 DEF Down, redisVars, readVars, poolVars
<1>5. Cursors'
  BY <1>1 DEF Cursors, Capturing, Newest, redisVars, readVars, poolVars
<1>6. Times'
  BY <1>1 DEF Times, Retention, redisVars, readVars, poolVars
<1>7. Prompt'
  BY <1>1 DEF Prompt, Unread, After, Recent, redisVars, readVars, poolVars
<1>8. Captured'
  BY <1>1
     DEF Captured, Capturing, After, Recent, Late, Copied, InDraft, redisVars, readVars,
         poolVars
<1>9. Saved'
  BY <1>1 DEF Saved, Newest, After, Recent, Late, InNewest, redisVars, readVars, poolVars
<1> QED
  BY <1>2, <1>3, <1>4, <1>5, <1>6, <1>7, <1>8, <1>9

(* Pruning keeps the newest file. *)
LEMMA PrunedFiles ==
  ASSUME TypeOK, Prune
  PROVE  /\ files' \in Seq([at : Nat, cursor : Offset, players : [Id -> Nat], missed : SUBSET Id])
         /\ files' # <<>> <=> files # <<>>
         /\ files # <<>> => Newest' = Newest
         /\ \A k \in DOMAIN files' : \E l \in DOMAIN files : files'[k] = files[l]
<1> DEFINE S == [at : Nat, cursor : Offset, players : [Id -> Nat], missed : SUBSET Id]
           n == Len(files)
           m == Max({1, n - Kept + 1})
<1>1. files \in Seq(S) /\ n \in Nat
  BY DEF TypeOK
<1>2. Kept \in Nat \ {0}
  BY RecoveryAssumption
<1>3. m \in Nat \ {0} /\ (n > 0 => m <= n)
  <2>1. CASE n - Kept + 1 <= 1
    <3>1. m = 1
      BY <1>1, <1>2, <2>1 DEF Max
    <3> QED
      BY <3>1
  <2>2. CASE n - Kept + 1 > 1
    <3>1. m = n - Kept + 1
      BY <1>1, <1>2, <2>2 DEF Max
    <3> QED
      BY <1>1, <1>2, <2>2, <3>1
  <2> QED
    BY <1>1, <1>2, <2>1, <2>2
<1>4. files' = SubSeq(files, m, n)
  BY DEF Prune
<1> HIDE DEF S, m
<1>5. CASE n = 0
  <2>1. files' = <<>> /\ files = <<>>
    BY <1>1, <1>3, <1>4, <1>5, EmptySeq
  <2> QED
    BY <2>1 DEF S
<1>6. CASE n > 0
  <2>3. DOMAIN files = 1 .. n
    BY <1>1, LenProperties
  <2>1. /\ files' \in Seq(S) /\ Len(files') = n - m + 1
        /\ \A i \in 1 .. n - m + 1 : files'[i] = files[m + i - 1]
    BY <1>1, <1>3, <1>4, <1>6, SubSeqProperties
  <2>2. Len(files') \in Nat \ {0} /\ files'[Len(files')] = files[n]
    BY <1>1, <1>3, <1>6, <2>1
  <2>4. ASSUME NEW k \in DOMAIN files'
        PROVE  \E l \in DOMAIN files : files'[k] = files[l]
    <3>1. k \in 1 .. n - m + 1
      BY <2>1, LenProperties
    <3>2. m + k - 1 \in 1 .. n
      BY <1>1, <1>3, <1>6, <3>1
    <3>3. files'[k] = files[m + k - 1]
      BY <2>1, <3>1
    <3> QED
      BY <2>3, <3>2, <3>3
  <2> QED
    BY <1>1, <1>6, <2>1, <2>2, <2>4, EmptySeq DEF S, Newest
<1> QED
  BY <1>1, <1>5, <1>6

(* Pruning keeps the newest file. *)
LEMMA PruneInv ==
  ASSUME Inv, Prune
  PROVE  Inv'
<1> USE ConstantTypes DEF Inv, Prune
<1>1. Waiting' = Waiting
  BY DEF Waiting, Held, redisVars, readVars, poolVars, faultVars
<1>2. TypeOK'
  BY PrunedFiles DEF TypeOK, redisVars, readVars, poolVars, faultVars
<1>3. Reading'
  BY <1>1 DEF Reading, redisVars, readVars, poolVars, faultVars
<1>4. Down'
  BY <1>1 DEF Down, redisVars, readVars, poolVars, faultVars
<1>5. Cursors'
  BY PrunedFiles DEF Cursors, Capturing, Newest, redisVars, readVars, poolVars
<1>6. Times'
  BY <1>1 DEF Times, Retention, redisVars, readVars, poolVars, faultVars
<1>7. Prompt'
  BY <1>1 DEF Prompt, Unread, After, Recent, redisVars, readVars, poolVars, faultVars
<1>8. Captured'
  BY <1>1
     DEF Captured, Capturing, After, Recent, Late, Copied, InDraft, redisVars, readVars,
         poolVars, faultVars
<1>9. Saved'
  <2>1. files' # <<>> => files # <<>> /\ Newest' = Newest
    BY PrunedFiles
  <2> QED
    BY <1>1, <2>1 DEF Saved, InNewest, Late, Recent, After, redisVars, readVars
<1> QED
  BY <1>2, <1>3, <1>4, <1>5, <1>6, <1>7, <1>8, <1>9

(* Trimming takes entries whose time is past the retention, and leaves the *)
(* others in their order.                                                  *)
LEMMA TrimInv ==
  ASSUME Inv, Trim
  PROVE  Inv'
<1> USE ConstantTypes DEF Inv, Trim
<1>1. Waiting' = Waiting
  BY DEF Waiting, Held, readVars, poolVars, faultVars
<1>2. TypeOK'
  BY <1>1 DEF TypeOK, readVars, poolVars, faultVars
<1>3. Reading'
  BY <1>1 DEF Reading, readVars, poolVars, faultVars
<1>4. Down'
  BY <1>1 DEF Down, readVars, poolVars, faultVars
<1>5. Cursors'
  BY <1>1 DEF Cursors, Capturing, Newest, readVars, poolVars, faultVars
<1>6. Times'
  BY <1>1 DEF Times, Retention, TypeOK, readVars, poolVars, faultVars
<1>7. Prompt'
  BY <1>1 DEF Prompt, Unread, After, Recent, TypeOK, readVars, poolVars, faultVars
<1>8. Captured'
  BY <1>1
     DEF Captured, Capturing, After, Recent, Late, Copied, InDraft, readVars, poolVars,
         faultVars
<1>9. Saved'
  BY <1>1
     DEF Saved, Newest, After, Recent, Late, InNewest, TypeOK, readVars, poolVars, faultVars
<1> QED
  BY <1>2, <1>3, <1>4, <1>5, <1>6, <1>7, <1>8, <1>9

(* A crash leaves the stream and the files: nobody waits, and nothing is   *)
(* read.                                                                   *)
LEMMA CrashInv ==
  ASSUME Inv, Crash
  PROVE  Inv'
<1> USE ConstantTypes DEF Inv, Crash
<1>1. Waiting' = {}
  <2>1. \A w \in Worker : Range(hand'[w]) = {}
    BY DEF Range
  <2>2. Held' = {}
    BY <2>1 DEF Held
  <2> QED
    BY <2>2 DEF Waiting, Nobody
<1>2. TypeOK'
  <2>1. /\ Nobody \in [Id -> Nat] /\ [w \in Worker |-> <<>>] \in [Worker -> Seq(Id)]
        /\ NoDraft \in [cursor : Offset, players : [Id -> Nat], missed : SUBSET Id]
    BY DEF Nobody, NoDraft, Offset
  <2>2. /\ 0 \in 0 .. Len(stream) /\ Latest \in Offset
        /\ 0 \in 0 .. CounterRange - 1 /\ 0 \in 0 .. 1
    BY DEF TypeOK, Offset
  <2> QED
    BY <2>1, <2>2 DEF TypeOK, redisVars, faultVars
<1>3. Reading'
  BY <1>1 DEF Reading, redisVars, faultVars
<1>4. Down'
  BY <1>1 DEF Down
<1>5. Cursors'
  BY <1>1 DEF Cursors, Capturing, Newest, redisVars, faultVars
<1>6. Times'
  BY <1>1 DEF Times, Retention, redisVars, faultVars
<1>7. Prompt'
  BY <1>1 DEF Prompt, Unread, After, Recent, redisVars, faultVars
<1>8. Captured'
  BY <1>1 DEF Captured, Capturing, After, Recent, Late, Copied, InDraft, redisVars, faultVars
<1>9. Saved'
  BY <1>1 DEF Saved, Newest, After, Recent, Late, InNewest, redisVars, faultVars
<1> QED
  BY <1>2, <1>3, <1>4, <1>5, <1>6, <1>7, <1>8, <1>9

(* Boot fills the pool from the newest file and takes its offset: whoever  *)
(* waits is in that file.                                                  *)
LEMMA BootInv ==
  ASSUME Inv, Boot
  PROVE  Inv'
<1> USE ConstantTypes DEF Inv, Boot
<1>1. /\ Waiting' \subseteq Id
      /\ \A i \in Waiting' : files # <<>> /\ Newest.players[i] > 0
  <2>1. Waiting = {} /\ Held' = Held
    BY DEF Down, Held
  <2>2. Held' = {}
    BY <2>1 DEF Waiting
  <2>3. CASE files = <<>>
    BY <2>1, <2>2, <2>3 DEF Waiting
  <2>4. CASE files # <<>>
    BY <2>2, <2>4 DEF Waiting
  <2> QED
    BY <2>3, <2>4
<1>2. TypeOK'
  <2>1. cursor' \in Offset /\ pool' \in [Id -> Nat]
    BY NewestType DEF TypeOK
  <2>2. due' \in Nat /\ restarts' \in Nat
    BY DEF TypeOK
  <2>3. waiting' \in 0 .. CounterRange - 1
    <3>1. CASE files = <<>>
      BY <3>1 DEF TypeOK
    <3>2. CASE files # <<>>
      <4>1. SumFunction(Newest.players) \in Nat
        BY <3>2, NewestType, FiniteConstants, SumFunctionNat
      <4> QED
        BY <3>2, <4>1
    <3> QED
      BY <3>1, <3>2
  <2> QED
    BY <2>1, <2>2, <2>3 DEF TypeOK, redisVars
<1>3. Reading'
  BY DEF Reading, TypeOK, Offset, Down, Cursors, Capturing, Newest
<1>4. Down'
  BY <1>1 DEF Down, redisVars
<1>5. Cursors'
  <2>1. step = "sleep" /\ files' = files /\ up' /\ step' = step
    BY DEF Down
  <2>2. files # <<>> => cursor' = Newest.cursor /\ Newest' = Newest /\ Newest.cursor \in Offset
    BY NewestType DEF Newest
  <2> QED
    BY <2>1, <2>2 DEF Cursors, Capturing, Offset
<1>6. Times'
  BY <1>1 DEF Times, Retention, redisVars
<1>7. Prompt'
  BY <1>1 DEF Prompt, Unread, After, Recent, TypeOK, redisVars
<1>8. Captured'
  BY <1>1
     DEF Captured, Capturing, After, Recent, Late, Copied, InDraft, TypeOK, Offset, Reading,
         Down, Cursors, Newest, redisVars
<1>9. Saved'
  BY <1>1 DEF Saved, Newest, After, Recent, Late, InNewest, redisVars
<1> QED
  BY <1>2, <1>3, <1>4, <1>5, <1>6, <1>7, <1>8, <1>9

(* Time passes only after the reader and the snapshotter have done what    *)
(* was due.                                                                *)
LEMMA TickInv ==
  ASSUME Inv, Tick
  PROVE  Inv'
<1> USE ConstantTypes DEF Inv, Tick
<1>1. Waiting' = Waiting
  BY DEF Waiting, Held, redisVars, readVars, poolVars, snapVars, faultVars
<1>2. TypeOK'
  BY <1>1 DEF TypeOK, redisVars, readVars, poolVars, snapVars, faultVars
<1>3. Reading'
  BY <1>1 DEF Reading, redisVars, readVars, poolVars, snapVars, faultVars
<1>4. Down'
  BY <1>1 DEF Down, redisVars, readVars, poolVars, snapVars, faultVars
<1>5. Cursors'
  BY <1>1 DEF Cursors, Capturing, Newest, redisVars, readVars, poolVars, snapVars, faultVars
<1>6. Times'
  <2>1. clock' = clock + 1 /\ clock \in Nat /\ stream' = stream /\ floor' = floor
    BY DEF TypeOK, redisVars
  <2>2. DOMAIN stream = 1 .. Len(stream) /\ \A i \in DOMAIN stream : stream[i] \in Nat
    BY DEF TypeOK
  <2>3. 1 .. floor \subseteq DOMAIN stream
    BY <2>2 DEF TypeOK
  <2>4. \A i \in DOMAIN stream : stream[i] <= clock + 1
    BY <2>1, <2>2 DEF Times
  <2>5. \A i \in 1 .. floor : stream[i] + Retention < clock + 1
    BY <2>1, <2>2, <2>3 DEF Times
  <2> QED
    BY <2>1, <2>4, <2>5 DEF Times
<1>7. Prompt'
  <2>1. clock' = clock + 1 /\ clock \in Nat /\ stream' = stream /\ Unread' = Unread
    BY DEF TypeOK, Unread, After, redisVars, readVars
  <2>2. Unread \subseteq DOMAIN stream /\ \A i \in DOMAIN stream : stream[i] \in Nat
    <3>1. DOMAIN stream = 1 .. Len(stream) /\ \A i \in DOMAIN stream : stream[i] \in Nat
      BY DEF TypeOK
    <3>2. \A c : After(c) \subseteq 1 .. Len(stream)
      BY DEF After
    <3>3. batch \subseteq 1 .. Len(stream)
      BY DEF TypeOK
    <3> QED
      BY <3>1, <3>2, <3>3 DEF Unread
  <2>3. ASSUME up, NEW i \in Unread
        PROVE  clock + 1 <= stream[i] + MaxLag
    BY <2>1, <2>2, <2>3 DEF KeepsUp
  <2> QED
    BY <2>1, <2>2, <2>3 DEF Prompt, Recent
<1>8. Captured'
  <2>1. step = "sleep"
    BY DEF KeepsUp, Down
  <2> QED
    BY <2>1 DEF Captured, Capturing, snapVars
<1>9. Saved'
  <2>1. files # <<>> => Newest.at \in Nat
    BY NewestType
  <2>2. clock' = clock + 1 /\ clock \in Nat
    BY DEF TypeOK
  <2> QED
    BY <1>1, <2>1, <2>2 DEF Saved, InNewest, Newest, Late, Recent, After, redisVars, readVars
<1> QED
  BY <1>2, <1>3, <1>4, <1>5, <1>6, <1>7, <1>8, <1>9

(* What a match thread does moves waiting players between the pool and the *)
(* hands, or removes them; so does a stuttering step.                      *)
LEMMA WorkersInv ==
  ASSUME Inv,
         UNCHANGED <<redisVars, files, up, readVars, snapVars, clock, faultVars>>,
         pool' \in [Id -> Nat], hand' \in [Worker -> Seq(Id)],
         waiting' \in 0 .. CounterRange - 1, Waiting' \subseteq Waiting
  PROVE  Inv'
<1> USE DEF Inv, redisVars, readVars, snapVars, faultVars
<1>1. TypeOK'
  BY DEF TypeOK
<1>2. Reading'
  BY DEF Reading
<1>3. Down'
  BY DEF Down
<1>4. Cursors'
  BY DEF Cursors, Capturing, Newest
<1>5. Times'
  BY DEF Times, Retention
<1>6. Prompt'
  BY DEF Prompt, Unread, After, Recent
<1>7. Captured'
  BY DEF Captured, Capturing, After, Recent, Late, Copied, InDraft
<1>8. Saved'
  BY DEF Saved, Newest, After, Recent, Late, InNewest
<1> QED
  BY <1>1, <1>2, <1>3, <1>4, <1>5, <1>6, <1>7, <1>8

(* A player taken out of the pool is in the hand of a worker. *)
LEMMA TakeInv ==
  ASSUME Inv, NEW w \in Worker, NEW i \in Id, Take(w, i)
  PROVE  Inv'
<1> USE DEF Inv, Take
<1>1. pool \in [Id -> Nat] /\ hand \in [Worker -> Seq(Id)] /\ hand[w] \in Seq(Id)
  BY DEF TypeOK
<1>2. pool' \in [Id -> Nat] /\ \A j \in Id : pool'[j] <= pool[j]
  BY <1>1
<1>3. Append(hand[w], i) \in Seq(Id)
  BY <1>1
<1>7. waiting' \in 0 .. CounterRange - 1
  BY DEF TypeOK
<1>4. /\ hand' \in [Worker -> Seq(Id)] /\ hand'[w] = Append(hand[w], i)
      /\ \A v \in Worker : v # w => hand'[v] = hand[v]
  BY <1>1, <1>3
<1>5. Range(hand'[w]) \subseteq Range(hand[w]) \cup {i}
  <2>1. /\ DOMAIN hand'[w] = 1 .. Len(hand[w]) + 1 /\ DOMAIN hand[w] = 1 .. Len(hand[w])
        /\ \A k \in 1 .. Len(hand[w]) : hand'[w][k] = hand[w][k]
        /\ hand'[w][Len(hand[w]) + 1] = i /\ Len(hand[w]) \in Nat
    BY <1>1, <1>4, AppendProperties
  <2>2. \A k \in DOMAIN hand'[w] : k \in DOMAIN hand[w] \/ k = Len(hand[w]) + 1
    BY <2>1
  <2> QED
    BY <2>1, <2>2 DEF Range
<1>6. Waiting' \subseteq Waiting
  <2>1. Held' \subseteq Held \cup {i}
    BY <1>4, <1>5 DEF Held
  <2>2. i \in Waiting
    BY DEF Waiting
  <2> QED
    BY <1>1, <1>2, <2>1, <2>2 DEF Waiting
<1> QED
  BY <1>2, <1>4, <1>6, <1>7, WorkersInv

(* A player put back was in that hand. *)
LEMMA PutBackInv ==
  ASSUME Inv, NEW w \in Worker, PutBack(w)
  PROVE  Inv'
<1> USE DEF Inv, PutBack
<1> DEFINE n == Len(hand[w])
           i == hand[w][n]
<1>1. /\ pool \in [Id -> Nat] /\ hand \in [Worker -> Seq(Id)] /\ hand[w] \in Seq(Id)
      /\ n \in Nat \ {0} /\ n \in DOMAIN hand[w] /\ i \in Id
  BY EmptySeq, LenProperties, ElementOfSeq DEF TypeOK
<1>7. waiting' \in 0 .. CounterRange - 1
  BY DEF TypeOK
<1>2. pool' = [pool EXCEPT ![i] = @ + 1] /\ hand' = [hand EXCEPT ![w] = SubSeq(@, 1, n - 1)]
  OBVIOUS
<1> HIDE DEF n, i
<1>3. pool' \in [Id -> Nat] /\ \A j \in Id : j # i => pool'[j] = pool[j]
  BY <1>1, <1>2
<1>4. /\ SubSeq(hand[w], 1, n - 1) \in Seq(Id)
      /\ Range(SubSeq(hand[w], 1, n - 1)) \subseteq Range(hand[w])
  <2>1. \A k \in 1 .. n - 1 : k \in DOMAIN hand[w] /\ hand[w][k] \in Id
    BY <1>1, ElementOfSeq, LenProperties DEF n
  <2>2. /\ SubSeq(hand[w], 1, n - 1) \in Seq(Id)
        /\ DOMAIN SubSeq(hand[w], 1, n - 1) = 1 .. n - 1
        /\ \A k \in 1 .. n - 1 : SubSeq(hand[w], 1, n - 1)[k] = hand[w][k]
    BY <1>1, <2>1, SubSeqProperties
  <2> QED
    BY <2>1, <2>2 DEF Range
<1>5. /\ hand' \in [Worker -> Seq(Id)] /\ Range(hand'[w]) \subseteq Range(hand[w])
      /\ \A v \in Worker : v # w => hand'[v] = hand[v]
  BY <1>1, <1>2, <1>4
<1>6. Waiting' \subseteq Waiting
  <2>1. Held' \subseteq Held
    BY <1>5 DEF Held
  <2>2. i \in Held
    BY <1>1 DEF Held, Range, i
  <2> QED
    BY <1>1, <1>3, <2>1, <2>2 DEF Waiting
<1> QED
  BY <1>3, <1>5, <1>6, <1>7, WorkersInv

(* The players of a match wait no longer. *)
LEMMA FormMatchInv ==
  ASSUME Inv, NEW w \in Worker, FormMatch(w)
  PROVE  Inv'
<1> USE DEF Inv, FormMatch
<1>1. pool \in [Id -> Nat] /\ hand \in [Worker -> Seq(Id)]
  BY DEF TypeOK
<1>2. hand' \in [Worker -> Seq(Id)] /\ \A v \in Worker : Range(hand'[v]) \subseteq Range(hand[v])
  BY <1>1 DEF Range
<1>3. Waiting' \subseteq Waiting
  BY <1>2 DEF Waiting, Held
<1>4. waiting' \in 0 .. CounterRange - 1
  BY ConstantTypes DEF TypeOK
<1> QED
  BY <1>1, <1>2, <1>3, <1>4, WorkersInv

LEMMA StutterInv ==
  ASSUME Inv, UNCHANGED vars
  PROVE  Inv'
<1>1. /\ pool' \in [Id -> Nat] /\ hand' \in [Worker -> Seq(Id)]
      /\ waiting' \in 0 .. CounterRange - 1 /\ Waiting' \subseteq Waiting
  BY DEF Inv, TypeOK, Waiting, Held, vars, poolVars
<1> QED
  BY <1>1, WorkersInv DEF vars

(* Every step preserves the invariant. *)
LEMMA NextInv == Inv /\ [Next]_vars => Inv'
<1> SUFFICES ASSUME Inv, [Next]_vars PROVE Inv'
  OBVIOUS
<1>1. CASE Publish
  BY <1>1, PublishInv
<1>2. CASE IngestionStep
  BY <1>2, AskInv, ReceiveInv, ReceiveNothingInv, EnqueueInv, CountInv, AdvanceInv
     DEF IngestionStep
<1>3. ASSUME NEW w \in Worker, WorkerStep(w)
      PROVE  Inv'
  BY <1>3, TakeInv, PutBackInv, FormMatchInv DEF WorkerStep
<1>4. CASE SnapshotStep
  BY <1>4, BeginSnapshotInv, CopyBucketInv, WriteSnapshotInv, WriteFailsInv, PruneInv, TrimInv
     DEF SnapshotStep
<1>5. CASE Crash \/ Boot \/ Tick
  BY <1>5, CrashInv, BootInv, TickInv
<1>6. CASE UNCHANGED vars
  BY <1>6, StutterInv
<1> QED
  BY <1>1, <1>2, <1>3, <1>4, <1>5, <1>6 DEF Next

(* The invariant holds in every state the program reaches. *)
THEOREM Invariance == Spec => []Inv
<1> QED
  BY InitInv, NextInv, PTL DEF Spec

-----------------------------------------------------------------------------
(***************************************************************************)
(* The properties.                                                         *)
(***************************************************************************)

(* The stream, the files, the cursor and the state of both threads stay of *)
(* their types through every crash and boot.                               *)
THEOREM TypeCorrect == Spec => []TypeOK
<1>1. Inv => TypeOK
  BY DEF Inv
<1> QED
  BY <1>1, Invariance, PTL

(* The order of main.rs:551-555, the cursor first and the pool after it,   *)
(* covers whoever waits: nobody is behind the cursor of the newest         *)
(* snapshot and not in it, but those in a worker's hand when their bucket  *)
(* was copied.                                                             *)
THEOREM SnapshotCoversWaiting == Spec => []SnapshotCovers
<1>1. Inv => SnapshotCovers
  <2> SUFFICES ASSUME Inv, HasSnapshot, NEW i \in Waiting, i <= Newest.cursor
               PROVE  InNewest(i)
    BY DEF SnapshotCovers, InNewest
  <2> USE DEF Inv, HasSnapshot
  <2>1. Newest.cursor \in Nat
    BY NewestType DEF Offset
  <2>2. i \in Nat
    <3>1. Waiting \subseteq Id
      BY WaitingType
    <3> QED
      BY <3>1 DEF Id
  <2> QED
    BY <2>1, <2>2 DEF Saved, Late
<1> QED
  BY <1>1, Invariance, PTL

(* Trimming by the retention of main.rs:456 leaves in the stream whatever  *)
(* a replay behind the newest snapshot needs, while that snapshot is not   *)
(* older than the retention allows.                                        *)
THEOREM ReplayReachesWaiting == Spec => []ReplayReaches
<1>1. Inv => ReplayReaches
  <2> SUFFICES ASSUME Inv, HasSnapshot, clock + MaxLag <= Newest.at + Retention,
                      NEW i \in Waiting \cup batch, ~ InNewest(i)
               PROVE  i > Newest.cursor /\ i > floor
    BY DEF ReplayReaches, InNewest
  <2> USE ConstantTypes DEF Inv, HasSnapshot
  <2>1. /\ Newest.cursor \in Nat /\ Newest.at \in Nat
        /\ clock \in Nat /\ floor \in Nat /\ newest \in Nat
    <3>1. TypeOK /\ files # <<>> /\ Newest.cursor # Latest
      OBVIOUS
    <3>2. Newest.cursor \in Offset /\ Newest.at \in Nat
      BY <3>1, NewestType
    <3>3. clock \in Nat /\ floor \in Nat /\ newest \in Nat
      BY <3>1 DEF TypeOK
    <3> QED
      BY <3>1, <3>2, <3>3 DEF Offset
  <2>2. DOMAIN stream \subseteq Nat /\ \A k \in DOMAIN stream : stream[k] \in Nat
    BY DEF TypeOK
  <2>3. i > Newest.cursor /\ Recent(i, Newest.at)
    <3>1. CASE i \in Waiting
      BY <3>1 DEF Saved, Late
    <3>2. CASE i \in batch
      <4>1. reading = "placing" /\ cursor # Latest /\ last = cursor /\ Newest.cursor <= cursor
        BY <3>2 DEF Reading, Cursors
      <4>2. cursor \in Nat /\ i \in Nat
        BY <3>2, <4>1 DEF TypeOK, Offset
      <4> QED
        BY <2>1, <3>2, <4>1, <4>2 DEF Reading, Saved
    <3> QED
      BY <3>1, <3>2
  <2>4. i > floor
    <3> SUFFICES ASSUME i <= floor PROVE FALSE
      BY <2>1, <2>2, <2>3 DEF Recent
    <3>1. i \in 1 .. floor /\ stream[i] \in Nat
      BY <2>1, <2>2, <2>3 DEF Recent, TypeOK
    <3>2. stream[i] + Retention < clock
      BY <3>1 DEF Times
    <3> QED
      BY <2>1, <2>3, <3>1, <3>2 DEF Recent
  <2> QED
    BY <2>3, <2>4
<1> QED
  BY <1>1, Invariance, PTL

(* No write, pruning, crash or boot takes back the offset of the newest    *)
(* snapshot, or loses it.                                                  *)
THEOREM NewestNeverGoesBack == Spec => NewestAdvances
<1> DEFINE A == files # <<>> /\ Newest.cursor # Latest
                  => (Newest.cursor)' # Latest /\ (Newest.cursor)' >= Newest.cursor
<1>1. Inv /\ [Next]_vars => [A]_vars
  <2> SUFFICES ASSUME Inv, Next, files # <<>>, Newest.cursor # Latest
               PROVE  (Newest.cursor)' # Latest /\ (Newest.cursor)' >= Newest.cursor
    OBVIOUS
  <2>0. Newest.cursor \in Nat
    BY NewestType DEF Offset, Inv
  <2>1. CASE files' = files
    BY <2>0, <2>1 DEF Newest
  <2>2. CASE WriteSnapshot
    <3>1. draft.cursor # Latest /\ Newest.cursor <= draft.cursor
      BY <2>2 DEF Inv, Cursors, Capturing, WriteSnapshot
    <3>2. Newest'.cursor = draft.cursor
      <4>1. files \in Seq([at : Nat, cursor : Offset, players : [Id -> Nat], missed : SUBSET Id])
        BY DEF Inv, TypeOK
      <4> QED
        BY <2>2, <4>1, AppendProperties DEF WriteSnapshot, Newest
    <3>3. draft.cursor \in Offset
      BY DEF Inv, TypeOK
    <3> QED
      BY <2>0, <3>1, <3>2, <3>3 DEF Offset
  <2>3. CASE Prune
    BY <2>0, <2>3, PrunedFiles DEF Inv
  <2>4. files' = files \/ WriteSnapshot \/ Prune
    BY DEF Next, Publish, IngestionStep, Ask, ReceiveNothing, Advance, Receive, Enqueue, Count,
           WorkerStep, PutBack, FormMatch, Take, SnapshotStep, BeginSnapshot, CopyBucket,
           WriteFails, Trim, Crash, Boot, Tick
  <2> QED
    BY <2>1, <2>2, <2>3, <2>4
<1> QED
  BY <1>1, Invariance, PTL DEF Spec, NewestAdvances
-----------------------------------------------------------------------------
(***************************************************************************)
(* Counting players: how many copies of an entry a replay can leave in the *)
(* pool, and what the depth counter says after a restart.                  *)
(***************************************************************************)

(* The last entry the ingestion thread has put in the pool. *)
Position == IF reading = "placing" THEN newest ELSE cursor

(* Of an entry it has still to put there, no more copies are in the pool   *)
(* than the boots brought.                                                 *)
FreshOnce == \A i \in Id : Position = Latest \/ i > Position => Copies(i) <= restarts

(* What a boot restores was counted before the crash. *)
SavedOnce ==
  /\ \A i \in Id : draft.players[i] <= 1 + restarts
  /\ \A k \in DOMAIN files, i \in Id : files[k].players[i] <= 1 + restarts

Counted == DepthRestored /\ OncePerRestart /\ FreshOnce /\ SavedOnce

Spots(s, i)   == {k \in DOMAIN s : s[k] = i}
HandCounts(i) == [w \in Worker |-> Cardinality(Spots(hand[w], i))]
HandSizes     == [w \in Worker |-> Len(hand[w])]
Players       == SumFunction(pool) + SumFunction(HandSizes)

(* The places of an entry in a hand are finitely many. *)
LEMMA SpotsFinite ==
  ASSUME NEW s \in Seq(Id), NEW i
  PROVE  IsFiniteSet(Spots(s, i)) /\ Cardinality(Spots(s, i)) \in Nat
<1>1. DOMAIN s = 1 .. Len(s) /\ Len(s) \in Nat
  BY LenProperties
<1>2. IsFiniteSet(DOMAIN s)
  BY <1>1, FS_Interval
<1>3. Spots(s, i) \in SUBSET DOMAIN s
  BY DEF Spots
<1> QED
  BY <1>2, <1>3, FS_Subset, FS_CardinalityType

(* An appended entry is in one place more, every other where it was. *)
LEMMA SpotsAppend ==
  ASSUME NEW s \in Seq(Id), NEW x \in Id, NEW i
  PROVE  /\ Append(s, x) \in Seq(Id) /\ Len(Append(s, x)) = Len(s) + 1
         /\ Cardinality(Spots(Append(s, x), i)) =
              Cardinality(Spots(s, i)) + IF x = i THEN 1 ELSE 0
<1> DEFINE t == Append(s, x)
           n == Len(s) + 1
<1>1. t \in Seq(Id) /\ Len(t) = n /\ t[n] = x /\ \A k \in 1 .. Len(s) : t[k] = s[k]
  BY AppendProperties
<1>2. DOMAIN t = 1 .. Len(t) /\ DOMAIN s = 1 .. Len(s) /\ Len(s) \in Nat
  BY <1>1, LenProperties
<1> HIDE DEF t
<1>3. Spots(t, i) = IF x = i THEN Spots(s, i) \cup {n} ELSE Spots(s, i)
  BY <1>1, <1>2 DEF Spots
<1>4. n \notin Spots(s, i)
  BY <1>2 DEF Spots
<1>5. IsFiniteSet(Spots(s, i)) /\ Cardinality(Spots(s, i)) \in Nat
  BY SpotsFinite
<1>6. Cardinality(Spots(s, i) \cup {n}) = Cardinality(Spots(s, i)) + 1
  BY <1>4, <1>5, FS_AddElement
<1>7. Cardinality(Spots(t, i)) = Cardinality(Spots(s, i)) + IF x = i THEN 1 ELSE 0
  BY <1>3, <1>5, <1>6
<1> QED BY <1>1, <1>7 DEF t

(* Without the last element, a sequence is the one it was appended to.     *)
LEMMA WithoutLast ==
  ASSUME NEW s \in Seq(Id), s # <<>>
  PROVE  LET t == SubSeq(s, 1, Len(s) - 1)
         IN  t \in Seq(Id) /\ s[Len(s)] \in Id /\ s = Append(t, s[Len(s)])
<1> DEFINE n == Len(s)
           t == SubSeq(s, 1, n - 1)
<1>1. n \in Nat \ {0} /\ DOMAIN s = 1 .. n /\ \A k \in 1 .. n : s[k] \in Id
  BY EmptySeq, LenProperties, ElementOfSeq
<1>2. t \in Seq(Id) /\ Len(t) = n - 1 /\ \A k \in 1 .. n - 1 : t[k] = s[k]
  BY <1>1, SubSeqProperties
<1>3. s[n] \in Id
  BY <1>1
<1> HIDE DEF t, n
<1> DEFINE a == Append(t, s[n])
<1>4. a \in Seq(Id) /\ Len(a) = n /\ \A k \in 1 .. n : a[k] = s[k]
  BY <1>1, <1>2, <1>3, AppendProperties
<1>5. Len(a) = Len(s)
  BY <1>4 DEF n
<1> HIDE DEF a
<1>6. a = s
  BY <1>4, <1>5, SeqEqual DEF n
<1> QED BY <1>2, <1>3, <1>6 DEF a, t, n

-----------------------------------------------------------------------------
(* The sums over the hands, and what a step of one worker does to them.    *)
LEMMA HandTypes ==
  ASSUME TypeOK
  PROVE  /\ HandSizes \in [Worker -> Nat]
         /\ \A i : HandCounts(i) \in [Worker -> Nat]
         /\ SumFunction(HandSizes) \in Nat /\ SumFunction(pool) \in Nat
         /\ \A i \in Id : SumFunction(HandCounts(i)) \in Nat /\ Copies(i) \in Nat
         /\ \A i : Copies(i) = pool[i] + SumFunction(HandCounts(i))
<1>1. hand \in [Worker -> Seq(Id)] /\ pool \in [Id -> Nat]
  BY DEF TypeOK
<1>2. HandSizes \in [Worker -> Nat]
  BY <1>1, LenProperties DEF HandSizes
<1>3. \A i : HandCounts(i) \in [Worker -> Nat]
  BY <1>1, SpotsFinite DEF HandCounts
<1>4. SumFunction(HandSizes) \in Nat /\ SumFunction(pool) \in Nat
  BY <1>1, <1>2, FiniteConstants, SumFunctionNat
<1>5. \A i : SumFunction(HandCounts(i)) \in Nat
  BY <1>3, FiniteConstants, SumFunctionNat
<1>6. \A i : Copies(i) = pool[i] + SumFunction(HandCounts(i))
  BY DEF Copies, HandCounts, Spots
<1> QED BY <1>1, <1>2, <1>3, <1>4, <1>5, <1>6

(* One hand changes: the sums over the hands change by as much. *)
LEMMA HandChange ==
  ASSUME TypeOK, TypeOK', NEW w \in Worker, \A v \in Worker \ {w} : hand'[v] = hand[v]
  PROVE  /\ SumFunction(HandSizes)' = SumFunction(HandSizes) - Len(hand[w]) + Len(hand'[w])
         /\ \A i : SumFunction(HandCounts(i))'
              = SumFunction(HandCounts(i)) - Cardinality(Spots(hand[w], i))
                                           + Cardinality(Spots(hand'[w], i))
<1> DEFINE f == HandSizes
           g == HandSizes'
<1>1. f \in [Worker -> Int] /\ g \in [Worker -> Int]
  BY HandTypes DEF HandSizes, TypeOK
<1>2. /\ f[w] = Len(hand[w]) /\ g[w] = Len(hand'[w])
      /\ \A v \in Worker \ {w} : g[v] = f[v]
  BY DEF HandSizes
<1> HIDE DEF f, g
<1>3. SumFunction(g) = SumFunction(f) - f[w] + g[w]
  BY <1>1, <1>2, FiniteConstants, SumChange
<1>4. SumFunction(HandSizes)' = SumFunction(HandSizes) - Len(hand[w]) + Len(hand'[w])
  BY <1>2, <1>3 DEF f, g
<1>5. ASSUME NEW i
      PROVE  SumFunction(HandCounts(i))'
              = SumFunction(HandCounts(i)) - Cardinality(Spots(hand[w], i))
                                           + Cardinality(Spots(hand'[w], i))
  <2> DEFINE c == HandCounts(i)
             d == HandCounts(i)'
  <2>1. c \in [Worker -> Int] /\ d \in [Worker -> Int]
    <3>1. c \in [Worker -> Nat]
      BY HandTypes
    <3>2. d \in [Worker -> Nat]
      BY SpotsFinite DEF HandCounts, TypeOK
    <3> HIDE DEF c, d
    <3> QED BY <3>1, <3>2
  <2>2. \A v \in Worker : /\ c[v] = Cardinality(Spots(hand[v], i))
                          /\ d[v] = Cardinality(Spots(hand'[v], i))
    BY DEF HandCounts
  <2> HIDE DEF c, d
  <2>3. SumFunction(d) = SumFunction(c) - c[w] + d[w]
    BY <2>1, <2>2, FiniteConstants, SumChange
  <2> QED BY <2>2, <2>3 DEF c, d
<1> QED BY <1>4, <1>5

(* So does one entry of the pool.                                          *)
LEMMA PoolChange ==
  ASSUME TypeOK, TypeOK', NEW e \in Id, \A i \in Id \ {e} : pool'[i] = pool[i]
  PROVE  SumFunction(pool') = SumFunction(pool) - pool[e] + pool'[e]
<1>1. pool \in [Id -> Nat] /\ pool' \in [Id -> Nat]
  BY DEF TypeOK
<1>2. pool \in [Id -> Int] /\ pool' \in [Id -> Int]
  BY <1>1
<1> QED BY <1>2, FiniteConstants, SumChange

(* The depth counter, as a statement about one number. *)
DepthIsNumber ==
  /\ Players \in Int /\ waiting \in Int /\ uncounted \in Int
  /\ DepthRestored <=> (waiting + uncounted - Players) % CounterRange = 0

LEMMA DepthNumber == TypeOK => DepthIsNumber
<1> SUFFICES ASSUME TypeOK PROVE DepthIsNumber
  OBVIOUS
<1>1. SumFunction(pool) \in Nat /\ SumFunction(HandSizes) \in Nat
  BY HandTypes
<1>2. waiting \in Int /\ uncounted \in Int
  BY ConstantTypes DEF TypeOK
<1> DEFINE P == SumFunction(pool)
           H == SumFunction(HandSizes)
<1>3. DepthRestored <=> (waiting + uncounted - P - H) % CounterRange = 0
  BY DEF DepthRestored, HandSizes
<1>4. Players = P + H
  BY DEF Players
<1>5. P \in Int /\ H \in Int
  BY <1>1
<1> HIDE DEF P, H
<1>6. waiting + uncounted - P - H = waiting + uncounted - (P + H)
  BY <1>2, <1>5
<1> QED
  BY <1>2, <1>3, <1>4, <1>5, <1>6 DEF DepthIsNumber

(* The counter and what it is to agree with change by the same amount. *)
LEMMA DepthMoves ==
  ASSUME TypeOK, TypeOK', DepthRestored, NEW c \in Int,
         waiting' = (waiting + c) % CounterRange,
         Players' - uncounted' = Players - uncounted + c
  PROVE  DepthRestored'
<1>1. DepthIsNumber /\ DepthIsNumber'
  BY DepthNumber, PTL
<1>2. /\ Players \in Int /\ waiting \in Int /\ uncounted \in Int
      /\ Players' \in Int /\ uncounted' \in Int
      /\ (waiting + uncounted - Players) % CounterRange = 0
  BY <1>1 DEF DepthIsNumber
<1>3. (((waiting + c) % CounterRange) + uncounted' - Players') % CounterRange = 0
  <2> DEFINE n == CounterRange
             w == waiting
             u == uncounted
             p == Players
             v == uncounted'
             q == Players'
  <2>1. /\ n \in Nat \ {0} /\ w \in Int /\ u \in Int /\ p \in Int
        /\ v \in Int /\ q \in Int /\ (w + u - p) % n = 0
    BY <1>2, ConstantTypes
  <2>2. q - v = p - u + c
    OBVIOUS
  <2> HIDE DEF n, w, u, p, v, q
  <2> DEFINE x == w + c
             y == q - v
  <2>3. x \in Int /\ y \in Int /\ x - y = w + u - p
    BY <2>1, <2>2
  <2> HIDE DEF x, y
  <2>4. ((x % n) - y) % n = (x - y) % n
    BY <2>1, <2>3, ReduceFirst
  <2>5. x % n \in Int
    BY <2>1, <2>3
  <2>6. (x % n) + v - q = (x % n) - y
    BY <2>1, <2>5 DEF y
  <2>7. ((x % n) + v - q) % n = 0
    BY <2>1, <2>3, <2>4, <2>6
  <2> QED
    BY <2>7 DEF n, w, u, p, v, q, x
<1> QED
  BY <1>1, <1>3 DEF DepthIsNumber

(* Neither of them changes. *)
LEMMA DepthStays ==
  ASSUME TypeOK, TypeOK', DepthRestored, UNCHANGED waiting,
         Players' - uncounted' = Players - uncounted
  PROVE  DepthRestored'
<1>1. waiting' = (waiting + 0) % CounterRange /\ 0 \in Int
  <2>1. waiting \in 0 .. CounterRange - 1 /\ CounterRange \in Nat \ {0}
    BY ConstantTypes DEF TypeOK
  <2>2. waiting = (waiting + 0) % CounterRange
    BY <2>1
  <2> QED
    BY <2>2
<1>2. Players \in Int /\ uncounted \in Int
  BY DepthNumber DEF DepthIsNumber
<1>3. Players' - uncounted' = Players - uncounted + 0
  BY <1>2
<1> QED
  BY <1>1, <1>3, DepthMoves

(* Players who neither come nor go.                                        *)
LEMMA SameCounts ==
  ASSUME UNCHANGED <<pool, hand>>
  PROVE  /\ \A i : Copies(i)' = Copies(i)
         /\ UNCHANGED <<waiting, uncounted>> => (DepthRestored' <=> DepthRestored)
BY DEF Copies, DepthRestored

(* A player who changes between the pool and a hand.                       *)
LEMMA TakeCounts ==
  ASSUME TypeOK, TypeOK', NEW w \in Worker, NEW i \in Id, Take(w, i)
  PROVE  /\ \A j \in Id : Copies(j)' = Copies(j)
         /\ DepthRestored => DepthRestored'
<1>1. /\ hand \in [Worker -> Seq(Id)] /\ pool \in [Id -> Nat] /\ hand[w] \in Seq(Id)
      /\ hand'[w] = Append(hand[w], i) /\ \A v \in Worker \ {w} : hand'[v] = hand[v]
      /\ \A j \in Id : pool'[j] = IF j = i THEN pool[j] - 1 ELSE pool[j]
      /\ waiting' = waiting /\ uncounted' = uncounted
  BY DEF TypeOK, Take, readVars
<1>2. /\ Len(hand'[w]) = Len(hand[w]) + 1 /\ Len(hand[w]) \in Nat
      /\ \A j : Cardinality(Spots(hand'[w], j))
                  = Cardinality(Spots(hand[w], j)) + IF i = j THEN 1 ELSE 0
      /\ \A j : Cardinality(Spots(hand[w], j)) \in Nat
  BY <1>1, SpotsAppend, SpotsFinite, LenProperties
<1>3. /\ SumFunction(HandSizes)' = SumFunction(HandSizes) + 1
      /\ \A j \in Id : SumFunction(HandCounts(j))'
              = SumFunction(HandCounts(j)) + IF i = j THEN 1 ELSE 0
  <2>1. /\ SumFunction(HandSizes)' = SumFunction(HandSizes) - Len(hand[w]) + Len(hand'[w])
        /\ \A j : SumFunction(HandCounts(j))'
              = SumFunction(HandCounts(j)) - Cardinality(Spots(hand[w], j))
                                           + Cardinality(Spots(hand'[w], j))
    BY <1>1, HandChange
  <2>2. SumFunction(HandSizes) \in Nat /\ \A j \in Id : SumFunction(HandCounts(j)) \in Nat
    BY HandTypes
  <2> QED BY <1>2, <2>1, <2>2
<1>9. SumFunction(pool') = SumFunction(pool) - 1
  <2>1. SumFunction(pool') = SumFunction(pool) - pool[i] + pool'[i]
    BY <1>1, PoolChange
  <2>2. SumFunction(pool) \in Nat /\ pool[i] \in Nat
    BY <1>1, HandTypes
  <2> QED BY <1>1, <2>1, <2>2
<1>4. \A j \in Id : /\ Copies(j) = pool[j] + SumFunction(HandCounts(j))
                    /\ Copies(j)' = pool'[j] + SumFunction(HandCounts(j))'
                    /\ SumFunction(HandCounts(j)) \in Nat /\ pool[j] \in Nat
  BY HandTypes, <1>1 DEF Copies, HandCounts, Spots
<1>5. \A j \in Id : pool'[j] = IF i = j THEN pool[j] - 1 ELSE pool[j]
  BY <1>1
<1>7. ASSUME NEW j \in Id
      PROVE  Copies(j)' = Copies(j)
  <2>1. CASE i = j
    BY <1>3, <1>4, <1>5, <2>1
  <2>2. CASE i # j
    BY <1>3, <1>4, <1>5, <2>2
  <2> QED BY <2>1, <2>2
<1>8. DepthRestored => DepthRestored'
  <2>1. Players' = Players
    BY <1>3, <1>9, HandTypes DEF Players
  <2> QED BY <1>1, <2>1, DepthStays
<1> QED BY <1>7, <1>8

(* What is put back leaves the hand and is in the pool: no copy more or less. *)
LEMMA PutBackCounts ==
  ASSUME TypeOK, TypeOK', NEW w \in Worker, PutBack(w)
  PROVE  /\ \A j \in Id : Copies(j)' = Copies(j)
         /\ DepthRestored => DepthRestored'
<1> DEFINE i == hand[w][Len(hand[w])]
<1>1. /\ hand \in [Worker -> Seq(Id)] /\ pool \in [Id -> Nat] /\ hand[w] \in Seq(Id)
      /\ hand[w] # <<>>
      /\ hand'[w] = SubSeq(hand[w], 1, Len(hand[w]) - 1)
      /\ \A v \in Worker \ {w} : hand'[v] = hand[v]
      /\ pool' = [pool EXCEPT ![i] = @ + 1]
      /\ waiting' = waiting /\ uncounted' = uncounted
  BY DEF TypeOK, PutBack, readVars
<1>2. i \in Id /\ hand'[w] \in Seq(Id) /\ hand[w] = Append(hand'[w], i)
  BY <1>1, WithoutLast
<1> HIDE DEF i
<1>3. /\ Len(hand[w]) = Len(hand'[w]) + 1 /\ Len(hand'[w]) \in Nat
      /\ \A j : Cardinality(Spots(hand[w], j))
                  = Cardinality(Spots(hand'[w], j)) + IF i = j THEN 1 ELSE 0
      /\ \A j : Cardinality(Spots(hand'[w], j)) \in Nat
  BY <1>2, SpotsAppend, SpotsFinite, LenProperties
<1>4. /\ SumFunction(HandSizes)' = SumFunction(HandSizes) - 1
      /\ \A j \in Id : SumFunction(HandCounts(j))'
              = SumFunction(HandCounts(j)) - IF i = j THEN 1 ELSE 0
  <2>1. /\ SumFunction(HandSizes)' = SumFunction(HandSizes) - Len(hand[w]) + Len(hand'[w])
        /\ \A j : SumFunction(HandCounts(j))'
              = SumFunction(HandCounts(j)) - Cardinality(Spots(hand[w], j))
                                           + Cardinality(Spots(hand'[w], j))
    BY <1>1, HandChange
  <2>2. SumFunction(HandSizes) \in Nat /\ \A j \in Id : SumFunction(HandCounts(j)) \in Nat
    BY HandTypes
  <2> QED BY <1>3, <2>1, <2>2
<1>5. \A j \in Id : pool'[j] = IF i = j THEN pool[j] + 1 ELSE pool[j]
  BY <1>1, <1>2
<1>6. SumFunction(pool') = SumFunction(pool) + 1
  <2>1. SumFunction(pool') = SumFunction(pool) - pool[i] + pool'[i]
    BY <1>2, <1>5, PoolChange
  <2>2. SumFunction(pool) \in Nat /\ pool[i] \in Nat
    BY <1>1, <1>2, HandTypes
  <2> QED BY <1>2, <1>5, <2>1, <2>2
<1>7. \A j \in Id : /\ Copies(j) = pool[j] + SumFunction(HandCounts(j))
                    /\ Copies(j)' = pool'[j] + SumFunction(HandCounts(j))'
                    /\ SumFunction(HandCounts(j)) \in Nat /\ pool[j] \in Nat
  BY HandTypes, <1>1 DEF Copies, HandCounts, Spots
<1>8. ASSUME NEW j \in Id
      PROVE  Copies(j)' = Copies(j)
  <2>1. CASE i = j
    BY <1>4, <1>5, <1>7, <2>1
  <2>2. CASE i # j
    BY <1>4, <1>5, <1>7, <2>2
  <2> QED BY <2>1, <2>2
<1>9. DepthRestored => DepthRestored'
  <2>1. Players' = Players
    BY <1>4, <1>6, HandTypes DEF Players
  <2> QED BY <1>1, <2>1, DepthStays
<1> QED BY <1>8, <1>9

(* The players of a match leave.                                           *)
LEMMA FormMatchCounts ==
  ASSUME TypeOK, TypeOK', NEW w \in Worker, FormMatch(w)
  PROVE  /\ \A j \in Id : Copies(j)' \in Int /\ Copies(j)' <= Copies(j)
         /\ DepthRestored => DepthRestored'
<1>1. /\ hand \in [Worker -> Seq(Id)] /\ pool \in [Id -> Nat] /\ hand[w] \in Seq(Id)
      /\ hand'[w] = <<>> /\ Len(hand[w]) = GroupSize
      /\ \A v \in Worker \ {w} : hand'[v] = hand[v]
      /\ pool' = pool /\ waiting' = (waiting - GroupSize) % CounterRange
      /\ uncounted' = uncounted
  BY DEF TypeOK, FormMatch, readVars
<1>2. /\ Len(hand'[w]) = 0
      /\ \A j : Cardinality(Spots(hand'[w], j)) = 0
      /\ \A j : Cardinality(Spots(hand[w], j)) \in Nat
  <2>1. \A j : Spots(<<>>, j) = {}
    BY DEF Spots
  <2> QED BY <1>1, <2>1, SpotsFinite, FS_EmptySet
<1>3. /\ SumFunction(HandSizes)' = SumFunction(HandSizes) - GroupSize
      /\ \A j \in Id : SumFunction(HandCounts(j))'
              = SumFunction(HandCounts(j)) - Cardinality(Spots(hand[w], j))
  <2>1. /\ SumFunction(HandSizes)' = SumFunction(HandSizes) - Len(hand[w]) + Len(hand'[w])
        /\ \A j : SumFunction(HandCounts(j))'
              = SumFunction(HandCounts(j)) - Cardinality(Spots(hand[w], j))
                                           + Cardinality(Spots(hand'[w], j))
    BY <1>1, HandChange
  <2>2. SumFunction(HandSizes) \in Nat /\ \A j \in Id : SumFunction(HandCounts(j)) \in Nat
    BY HandTypes
  <2>3. GroupSize \in Nat
    BY ConstantTypes
  <2> QED BY <1>1, <1>2, <2>1, <2>2, <2>3
<1>4. \A j \in Id : /\ Copies(j) = pool[j] + SumFunction(HandCounts(j))
                    /\ Copies(j)' = pool'[j] + SumFunction(HandCounts(j))'
                    /\ SumFunction(HandCounts(j)) \in Nat /\ pool[j] \in Nat
  BY HandTypes, <1>1 DEF Copies, HandCounts, Spots
<1>5. \A j \in Id : Copies(j)' \in Int /\ Copies(j)' <= Copies(j)
  BY <1>1, <1>2, <1>3, <1>4
<1>6. DepthRestored => DepthRestored'
  <2>1. GroupSize \in Nat /\ -GroupSize \in Int
    BY ConstantTypes
  <2>2. waiting \in Int /\ uncounted \in Int /\ Players \in Int
    BY DepthNumber DEF DepthIsNumber
  <2>3. waiting' = (waiting + (-GroupSize)) % CounterRange
    BY <1>1, <2>1, <2>2
  <2>4. SumFunction(pool) \in Nat /\ SumFunction(HandSizes) \in Nat
    BY HandTypes
  <2>5. Players' = Players - GroupSize
    BY <1>1, <1>3, <2>1, <2>4 DEF Players
  <2>6. Players' - uncounted' = Players - uncounted + (-GroupSize)
    BY <1>1, <2>1, <2>2, <2>5
  <2> QED BY <2>1, <2>3, <2>6, DepthMoves
<1> QED BY <1>5, <1>6

(* A player who arrives.                                                   *)
LEMMA EnqueueCounts ==
  ASSUME TypeOK, TypeOK', NEW e \in Id, Enqueue(e)
  PROVE  /\ \A j \in Id : Copies(j)' = Copies(j) + IF j = e THEN 1 ELSE 0
         /\ DepthRestored => DepthRestored'
<1>1. /\ pool \in [Id -> Nat] /\ hand' = hand
      /\ \A j \in Id : pool'[j] = IF j = e THEN pool[j] + 1 ELSE pool[j]
      /\ waiting' = waiting /\ uncounted = 0 /\ uncounted' = 1
  BY DEF TypeOK, Enqueue
<1>2. SumFunction(pool') = SumFunction(pool) + 1
  <2>1. SumFunction(pool') = SumFunction(pool) - pool[e] + pool'[e]
    BY <1>1, PoolChange
  <2>2. SumFunction(pool) \in Nat /\ pool[e] \in Nat
    BY <1>1, HandTypes
  <2> QED BY <1>1, <2>1, <2>2
<1>3. \A j \in Id : /\ Copies(j) = pool[j] + SumFunction(HandCounts(j))
                    /\ Copies(j)' = pool'[j] + SumFunction(HandCounts(j))
                    /\ SumFunction(HandCounts(j)) \in Nat /\ pool[j] \in Nat
  BY HandTypes, <1>1 DEF Copies, HandCounts, Spots
<1>4. ASSUME NEW j \in Id
      PROVE  Copies(j)' = Copies(j) + IF j = e THEN 1 ELSE 0
  BY <1>1, <1>3
<1>5. DepthRestored => DepthRestored'
  <2>1. SumFunction(pool) \in Nat /\ SumFunction(HandSizes) \in Nat
    BY HandTypes
  <2>2. SumFunction(HandSizes)' = SumFunction(HandSizes)
    BY <1>1 DEF HandSizes
  <2>3. Players' - uncounted' = Players - uncounted
    BY <1>1, <1>2, <2>1, <2>2 DEF Players
  <2> QED BY <1>1, <2>3, DepthStays
<1> QED BY <1>4, <1>5

(* ... and is counted after that.                                          *)
LEMMA CountCounts ==
  ASSUME TypeOK, TypeOK', Count, DepthRestored
  PROVE  DepthRestored'
<1>1. /\ waiting' = (waiting + 1) % CounterRange /\ uncounted = 1 /\ uncounted' = 0
      /\ UNCHANGED <<pool, hand>>
  BY DEF Count
<1>2. Players' = Players /\ Players \in Int
  BY <1>1, DepthNumber DEF Players, HandSizes, DepthIsNumber
<1>3. Players' - uncounted' = Players - uncounted + 1
  BY <1>1, <1>2
<1> QED BY <1>1, <1>3, DepthMoves

(* A process without players in hand.                                      *)
EmptyHanded == Held = {}

OnlyPool ==
  /\ \A i \in Id : Copies(i) = pool[i]
  /\ Players = SumFunction(pool)

(* With empty hands what counts is what is in the pool. *)
LEMMA EmptyHands == TypeOK /\ EmptyHanded => OnlyPool
<1> SUFFICES ASSUME TypeOK, Held = {}
             PROVE  OnlyPool
  BY DEF EmptyHanded
<1>1. ASSUME NEW w \in Worker
      PROVE  hand[w] = <<>>
  <2>1. Range(hand[w]) = {} /\ hand[w] \in Seq(Id)
    <3>1. Range(hand[w]) \subseteq Held
      BY DEF Held
    <3> QED BY <3>1 DEF TypeOK
  <2>2. \A k \in DOMAIN hand[w] : hand[w][k] \in Range(hand[w])
    BY DEF Range
  <2>3. Len(hand[w]) \in Nat /\ DOMAIN hand[w] = 1 .. Len(hand[w])
    BY <2>1, LenProperties
  <2>4. Len(hand[w]) = 0
    <3>1. Len(hand[w]) > 0 => 1 \in DOMAIN hand[w]
      BY <2>3
    <3> QED BY <2>1, <2>2, <2>3, <3>1
  <2> QED BY <2>1, <2>4, EmptySeq
<1>2. HandSizes \in [Worker -> Int] /\ \A w \in Worker : HandSizes[w] = 0
  BY <1>1 DEF HandSizes
<1>3. SumFunction(HandSizes) = 0
  BY <1>2, FiniteConstants, SumFunctionZero
<1>4. ASSUME NEW i \in Id
      PROVE  Copies(i) = pool[i]
  <2>1. Spots(<<>>, i) = {}
    BY DEF Spots
  <2>5. \A w \in Worker : HandCounts(i)[w] = Cardinality({})
    BY <1>1, <2>1 DEF HandCounts
  <2>6. HandCounts(i) \in [Worker -> Nat]
    BY HandTypes
  <2>2. HandCounts(i) \in [Worker -> Int] /\ \A w \in Worker : HandCounts(i)[w] = 0
    BY <2>5, <2>6, FS_EmptySet
  <2>3. SumFunction(HandCounts(i)) = 0
    BY <2>2, FiniteConstants, SumFunctionZero
  <2>4. pool[i] \in Nat
    BY DEF TypeOK
  <2> QED BY <2>3, <2>4, HandTypes
<1>5. Players = SumFunction(pool)
  BY <1>3, HandTypes DEF Players
<1> QED BY <1>4, <1>5 DEF OnlyPool

-----------------------------------------------------------------------------
(* The invariant.                                                          *)
LEMMA InitCounted == Init => Counted
<1> SUFFICES ASSUME Init PROVE Counted
  OBVIOUS
<1>1. TypeOK /\ Held = {}
  <2>1. \A w \in Worker : Range(hand[w]) = {}
    BY DEF Init, Range
  <2> QED BY <2>1, InitInv DEF Inv, Held
<1>2. /\ pool \in [Id -> Int] /\ \A i \in Id : pool[i] = 0
      /\ waiting = 0 /\ uncounted = 0 /\ restarts = 0 /\ draft.players = Nobody /\ files = <<>>
  BY DEF Init, Nobody, NoDraft
<1>3. DepthRestored
  <2>1. Players = 0
    BY <1>1, <1>2, EmptyHands, FiniteConstants, SumFunctionZero DEF OnlyPool, EmptyHanded
  <2>2. 0 % CounterRange = 0
    BY ConstantTypes
  <2> QED BY <1>1, <1>2, <2>1, <2>2, DepthNumber DEF DepthIsNumber
<1>4. OncePerRestart /\ FreshOnce
  BY <1>1, <1>2, EmptyHands DEF OnlyPool, EmptyHanded, OncePerRestart, FreshOnce
<1>5. SavedOnce
  BY <1>2 DEF SavedOnce, Nobody
<1> QED BY <1>3, <1>4, <1>5 DEF Counted

(* A step that moves no player: the position it reads from may only get    *)
(* known.                                                                  *)
LEMMA QuietCounted ==
  ASSUME Counted, UNCHANGED <<pool, hand, waiting, uncounted, restarts>>,
         Position = Latest \/ Position' = Position, SavedOnce'
  PROVE  Counted'
<1>1. \A i : Copies(i)' = Copies(i)
  BY SameCounts
<1>2. DepthRestored'
  BY SameCounts DEF Counted
<1>3. OncePerRestart'
  BY <1>1 DEF Counted, OncePerRestart
<1>4. FreshOnce'
  BY <1>1 DEF Counted, FreshOnce
<1> QED BY <1>2, <1>3, <1>4 DEF Counted

(* A step of a worker.                                                     *)
LEMMA WorkerCounted ==
  ASSUME Counted, TypeOK, TypeOK', NEW w \in Worker, WorkerStep(w)
  PROVE  Counted'
<1>1. UNCHANGED <<files, readVars, snapVars, faultVars>>
  BY DEF WorkerStep, Take, PutBack, FormMatch
<1>2. /\ \A i \in Id : Copies(i) \in Nat /\ Copies(i)' \in Int /\ Copies(i)' <= Copies(i)
      /\ DepthRestored'
  <2>1. \A i \in Id : Copies(i) \in Nat
    BY HandTypes
  <2>2. CASE \E i \in Id : Take(w, i)
    <3>1. (\A i \in Id : Copies(i)' = Copies(i)) /\ DepthRestored'
      BY <2>2, TakeCounts DEF Counted
    <3> QED BY <2>1, <3>1
  <2>3. CASE PutBack(w)
    <3>1. (\A i \in Id : Copies(i)' = Copies(i)) /\ DepthRestored'
      BY <2>3, PutBackCounts DEF Counted
    <3> QED BY <2>1, <3>1
  <2>4. CASE FormMatch(w)
    BY <2>1, <2>4, FormMatchCounts DEF Counted
  <2> QED BY <2>2, <2>3, <2>4 DEF WorkerStep
<1>3. restarts' = restarts /\ restarts \in Nat /\ Position' = Position
  BY <1>1 DEF readVars, faultVars, Position, TypeOK
<1>4. OncePerRestart'
  BY <1>1, <1>2, <1>3 DEF Counted, OncePerRestart
<1>5. FreshOnce'
  BY <1>1, <1>2, <1>3 DEF Counted, FreshOnce
<1>6. SavedOnce'
  BY <1>1 DEF Counted, SavedOnce, snapVars, faultVars
<1> QED BY <1>2, <1>4, <1>5, <1>6 DEF Counted

(* The ingestion thread puts no entry in the pool twice in one run. *)
LEMMA IngestionCounted ==
  ASSUME Counted, Inv, Inv', IngestionStep
  PROVE  Counted'
<1>1. CASE Ask \/ ReceiveNothing \/ Advance \/ \E i \in Id : Receive(i)
  <2>1. UNCHANGED <<pool, hand, waiting, uncounted, restarts, files, draft>>
    BY <1>1 DEF Ask, ReceiveNothing, Advance, Receive, poolVars, snapVars, faultVars
  <2>2. Position = Latest \/ Position' = Position
    BY <1>1 DEF Ask, ReceiveNothing, Advance, Receive, Position, Inv, Reading
  <2>3. SavedOnce'
    BY <2>1 DEF Counted, SavedOnce
  <2> QED BY <2>1, <2>2, <2>3, QuietCounted
<1>2. ASSUME NEW e \in Id, Enqueue(e)
      PROVE  Counted'
  <2>1. (\A j \in Id : Copies(j)' = Copies(j) + IF j = e THEN 1 ELSE 0) /\ DepthRestored'
    BY <1>2, EnqueueCounts DEF Inv, Counted
  <2>2. /\ UNCHANGED <<restarts, files, draft>> /\ restarts \in Nat
        /\ reading = "placing" /\ Position = newest /\ Position' = e
        /\ newest \in Nat /\ newest < e
    <3>1. reading = "placing" /\ newest < e
      BY <1>2 DEF Enqueue, Inv, Reading
    <3> QED BY <1>2, <3>1 DEF Enqueue, Inv, TypeOK, Position, snapVars, faultVars
  <2>3. \A j \in Id : Copies(j) \in Nat
    BY HandTypes DEF Inv
  <2>4. e \in Nat /\ Latest \notin Nat /\ Id \subseteq Nat
    BY ConstantTypes
  <2>5. \A j \in Id : j >= e => Copies(j) <= restarts
    <3>1. \A j \in Id : j >= e => j > newest
      BY <2>2, <2>4
    <3> QED BY <2>2, <3>1 DEF Counted, FreshOnce
  <2>6. OncePerRestart'
    <3> SUFFICES ASSUME NEW j \in Id
                 PROVE  Copies(j)' <= 1 + restarts
      BY <2>2 DEF OncePerRestart
    <3>1. CASE j = e
      BY <2>1, <2>2, <2>3, <2>4, <2>5, <3>1
    <3>2. CASE j # e
      BY <2>1, <2>2, <2>3, <3>2 DEF Counted, OncePerRestart
    <3> QED BY <3>1, <3>2
  <2>7. FreshOnce'
    <3> SUFFICES ASSUME NEW j \in Id, j > e
                 PROVE  Copies(j)' <= restarts
      BY <2>2, <2>4 DEF FreshOnce
    <3>1. j # e /\ j >= e
      BY <2>4
    <3> QED BY <2>1, <2>3, <2>5, <3>1
  <2>8. SavedOnce'
    BY <2>2 DEF Counted, SavedOnce
  <2> QED BY <2>1, <2>6, <2>7, <2>8 DEF Counted
<1>3. CASE Count
  <2>1. UNCHANGED <<pool, hand, restarts, files, draft, reading, cursor, newest>>
    BY <1>3 DEF Count, snapVars, faultVars
  <2>2. \A i : Copies(i)' = Copies(i)
    BY <2>1, SameCounts
  <2>3. Position' = Position
    BY <2>1 DEF Position
  <2>4. DepthRestored'
    BY <1>3, CountCounts DEF Inv, Counted
  <2>5. OncePerRestart' /\ FreshOnce' /\ SavedOnce'
    BY <2>1, <2>2, <2>3 DEF Counted, OncePerRestart, FreshOnce, SavedOnce
  <2> QED BY <2>4, <2>5 DEF Counted
<1> QED BY <1>1, <1>2, <1>3 DEF IngestionStep

(* A snapshot holds what is in the pool.                                   *)
LEMMA SnapshotCounted ==
  ASSUME Counted, Inv, Inv', SnapshotStep
  PROVE  Counted'
<1>1. UNCHANGED <<pool, hand, waiting, uncounted, restarts, reading, cursor, newest>>
  BY DEF SnapshotStep, BeginSnapshot, CopyBucket, WriteSnapshot, WriteFails, Prune, Trim,
         readVars, poolVars, faultVars
<1>2. /\ restarts \in Nat /\ pool \in [Id -> Nat]
      /\ files \in Seq([at : Nat, cursor : Offset, players : [Id -> Nat], missed : SUBSET Id])
      /\ draft \in [cursor : Offset, players : [Id -> Nat], missed : SUBSET Id]
  BY DEF Inv, TypeOK
<1>3. \A i \in Id : draft'.players[i] <= 1 + restarts
  <2>1. \A i \in Id : Nobody[i] <= 1 + restarts
    BY <1>2 DEF Nobody
  <2>2. CASE BeginSnapshot \/ WriteSnapshot \/ WriteFails
    <3>1. draft'.players = Nobody
      BY <2>2 DEF BeginSnapshot, WriteSnapshot, WriteFails, NoDraft
    <3> QED BY <2>1, <3>1
  <2>3. CASE CopyBucket
    <3>1. \A i \in Id : draft'.players[i] \in {pool[i], draft.players[i]}
      BY <1>2, <2>3 DEF CopyBucket
    <3>2. \A i \in Id : pool[i] <= 1 + restarts
      <4>1. \A i \in Id : Copies(i) = pool[i] + SumFunction(HandCounts(i))
        BY HandTypes DEF Inv
      <4>2. \A i \in Id : SumFunction(HandCounts(i)) \in Nat
        BY HandTypes DEF Inv
      <4> QED BY <1>2, <4>1, <4>2 DEF Counted, OncePerRestart
    <3> QED BY <3>1, <3>2 DEF Counted, SavedOnce
  <2>4. CASE Prune \/ Trim
    BY <2>4 DEF Prune, Trim, Counted, SavedOnce
  <2> QED BY <2>2, <2>3, <2>4 DEF SnapshotStep
<1>4. \A k \in DOMAIN files', i \in Id : files'[k].players[i] <= 1 + restarts
  <2>1. CASE UNCHANGED files
    BY <2>1 DEF Counted, SavedOnce
  <2>2. CASE WriteSnapshot
    <3> DEFINE r == [at |-> clock, cursor |-> draft.cursor,
                     players |-> draft.players, missed |-> draft.missed]
    <3>1. files' = Append(files, r) /\ r.players = draft.players
      BY <2>2 DEF WriteSnapshot
    <3>2. r \in [at : Nat, cursor : Offset, players : [Id -> Nat], missed : SUBSET Id]
      BY <1>2 DEF Inv, TypeOK
    <3> HIDE DEF r
    <3>3. /\ \A k \in 1 .. Len(files) : files'[k] = files[k]
          /\ files'[Len(files) + 1] = r
          /\ DOMAIN files' = 1 .. Len(files) + 1 /\ DOMAIN files = 1 .. Len(files)
          /\ Len(files) \in Nat
      BY <1>2, <3>1, <3>2, AppendProperties, LenProperties
    <3>4. \A k \in DOMAIN files' : \/ k \in DOMAIN files /\ files'[k] = files[k]
                                   \/ files'[k] = r
      BY <3>3
    <3> QED BY <3>1, <3>4 DEF Counted, SavedOnce
  <2>3. CASE Prune
    <3>1. \A k \in DOMAIN files' : \E l \in DOMAIN files : files'[k] = files[l]
      BY <2>3, PrunedFiles DEF Inv
    <3> QED BY <3>1 DEF Counted, SavedOnce
  <2> QED BY <2>1, <2>2, <2>3
          DEF SnapshotStep, BeginSnapshot, CopyBucket, WriteFails, Trim
<1>5. SavedOnce'
  BY <1>1, <1>3, <1>4 DEF SavedOnce
<1>6. Position' = Position
  BY <1>1 DEF Position
<1> QED BY <1>1, <1>5, <1>6, QuietCounted

(* A crash leaves nothing to count, and a boot what the newest file held.  *)
LEMMA CrashCounted ==
  ASSUME Counted, Inv, Inv', Crash
  PROVE  Counted'
<1>1. /\ pool' = Nobody /\ waiting' = 0 /\ uncounted' = 0 /\ UNCHANGED <<restarts, files>>
      /\ draft'.players = Nobody /\ restarts \in Nat /\ ~ up'
  BY DEF Crash, faultVars, NoDraft, Inv, TypeOK
<1>2. TypeOK' /\ EmptyHanded'
  BY <1>1 DEF Inv, Down, Waiting, EmptyHanded
<1>3. OnlyPool'
  BY <1>2, EmptyHands, PTL
<1>4. Nobody \in [Id -> Int] /\ \A i \in Id : Nobody[i] = 0
  BY DEF Nobody
<1>5. DepthRestored'
  <2>1. Players' = 0
    BY <1>1, <1>3, <1>4, FiniteConstants, SumFunctionZero DEF OnlyPool
  <2>2. 0 % CounterRange = 0
    BY ConstantTypes
  <2>3. DepthIsNumber'
    BY <1>2, DepthNumber, PTL
  <2> QED BY <1>1, <2>1, <2>2, <2>3 DEF DepthIsNumber
<1>6. OncePerRestart' /\ FreshOnce'
  BY <1>1, <1>3, <1>4 DEF OnlyPool, OncePerRestart, FreshOnce
<1>7. SavedOnce'
  BY <1>1, <1>4 DEF Counted, SavedOnce
<1> QED BY <1>5, <1>6, <1>7 DEF Counted

(* A boot brings back what the newest snapshot holds, with empty hands. *)
LEMMA BootCounted ==
  ASSUME Counted, Inv, Inv', Boot
  PROVE  Counted'
<1>1. /\ UNCHANGED <<hand, files, draft>> /\ restarts' = restarts + 1 /\ restarts \in Nat
      /\ draft \in [cursor : Offset, players : [Id -> Nat], missed : SUBSET Id]
      /\ pool \in [Id -> Nat]
  BY DEF Boot, Inv, TypeOK
<1>2. Held = {} /\ Waiting = {}
  BY DEF Boot, Inv, Down, Waiting
<1>3. TypeOK' /\ EmptyHanded'
  <2>1. hand' = hand
    BY <1>1
  <2>2. Held' = Held
    BY <2>1 DEF Held
  <2> QED BY <1>2, <2>2 DEF Inv, EmptyHanded
<1>4. OnlyPool'
  BY <1>3, EmptyHands, PTL
<1>5. DepthRestored'
  <2>1. CASE files = <<>>
    <3>1. UNCHANGED <<pool, hand, waiting, uncounted>>
      BY <2>1 DEF Boot
    <3> QED BY <3>1, SameCounts DEF Counted
  <2>2. CASE files # <<>>
    <3> DEFINE P == SumFunction(Newest.players)
    <3>1. /\ Players' = P /\ waiting' = P % CounterRange
          /\ uncounted' = 0
      BY <2>2, <1>4 DEF Boot, OnlyPool, Inv, Down, Reading
    <3>5. DepthIsNumber'
      BY <1>3, DepthNumber, PTL
    <3>2. P \in Int /\ CounterRange \in Nat \ {0}
      BY <3>1, <3>5, ConstantTypes DEF DepthIsNumber
    <3> HIDE DEF P
    <3>3. ((P % CounterRange) - P) % CounterRange = (P - P) % CounterRange
      BY <3>2, ReduceFirst
    <3>4. (waiting' + uncounted' - Players') % CounterRange = 0
      BY <3>1, <3>2, <3>3
    <3> QED BY <3>4, <3>5 DEF DepthIsNumber
  <2> QED BY <2>1, <2>2
<1>6. \A i \in Id : pool'[i] \in Nat /\ pool'[i] <= restarts'
  <2>1. CASE files = <<>>
    <3>1. \A i \in Id : ~ pool[i] > 0
      BY <1>2 DEF Waiting
    <3> QED BY <1>1, <2>1, <3>1 DEF Boot
  <2>2. CASE files # <<>>
    <3>1. Len(files) \in DOMAIN files /\ Newest.players \in [Id -> Nat]
      BY <2>2, NewestType DEF Inv
    <3>2. \A i \in Id : Newest.players[i] <= 1 + restarts
      BY <3>1 DEF Counted, SavedOnce, Newest
    <3> QED BY <1>1, <2>2, <3>1, <3>2 DEF Boot
  <2> QED BY <2>1, <2>2
<1>7. OncePerRestart' /\ FreshOnce'
  BY <1>1, <1>4, <1>6 DEF OnlyPool, OncePerRestart, FreshOnce
<1>8. SavedOnce'
  <2>1. \A n : n \in Int /\ n <= 1 + restarts => n <= 1 + restarts'
    BY <1>1
  <2>2. \A i \in Id : draft.players[i] \in Int
    BY <1>1
  <2>3. \A k \in DOMAIN files, i \in Id : files[k].players[i] \in Int
    <3>1. files \in Seq([at : Nat, cursor : Offset, players : [Id -> Nat], missed : SUBSET Id])
      BY DEF Inv, TypeOK
    <3>2. ASSUME NEW k \in DOMAIN files, NEW i \in Id
          PROVE  files[k].players[i] \in Int
      <4>1. files[k] \in [at : Nat, cursor : Offset, players : [Id -> Nat], missed : SUBSET Id]
        BY <3>1, ElementOfSeq, LenProperties
      <4> QED BY <4>1
    <3> QED BY <3>2
  <2> QED BY <1>1, <2>1, <2>2, <2>3 DEF Counted, SavedOnce
<1> QED BY <1>5, <1>7, <1>8 DEF Counted

LEMMA NextCounted == Inv /\ Inv' /\ Counted /\ [Next]_vars => Counted'
<1> SUFFICES ASSUME Inv, Inv', Counted, [Next]_vars
             PROVE  Counted'
  OBVIOUS
<1>1. ASSUME UNCHANGED <<poolVars, faultVars, files, snapVars, readVars>>
      PROVE  Counted'
  <2>1. Position' = Position
    BY <1>1 DEF Position, readVars
  <2>2. SavedOnce'
    BY <1>1 DEF Counted, SavedOnce, snapVars, faultVars
  <2> QED BY <1>1, <2>1, <2>2, QuietCounted DEF poolVars, faultVars, readVars
<1>2. CASE UNCHANGED vars
  BY <1>1, <1>2 DEF vars
<1>3. CASE Publish \/ (Tick /\ UNCHANGED faultVars)
  BY <1>1, <1>3 DEF Publish, Tick
<1>4. CASE \E w \in Worker : WorkerStep(w)
  BY <1>4, WorkerCounted DEF Inv
<1>5. Tick => UNCHANGED faultVars
  BY DEF Tick
<1> QED
  BY <1>2, <1>3, <1>4, <1>5, IngestionCounted, SnapshotCounted, CrashCounted, BootCounted
     DEF Next

(* The counts in every reachable state. *)
LEMMA CountsHold == Spec => [](Inv /\ Counted)
<1>1. Init => Inv /\ Counted
  BY InitInv, InitCounted
<1>2. Inv /\ Counted /\ [Next]_vars => (Inv /\ Counted)'
  BY NextInv, NextCounted
<1> QED BY <1>1, <1>2, PTL DEF Spec

-----------------------------------------------------------------------------
(* A boot restores the pool from the newest file and reads the stream      *)
(* again from the offset in it (main.rs:481-490): what was copied after    *)
(* the offset was taken comes back twice, but only once per restart.       *)
THEOREM ReplayedOnce == Spec => []OncePerRestart
<1>1. Inv /\ Counted => OncePerRestart
  BY DEF Counted
<1> QED BY <1>1, CountsHold, PTL

(* The depth counter is set from the file a boot restores, and agrees with *)
(* the pool and the hands of the match threads ever after, but for the     *)
(* entry the ingestion thread has placed and not counted yet, whoever      *)
(* matches that one first, and wherever the counter wraps around.          *)
THEOREM DepthCounts == Spec => []DepthRestored
<1>1. Inv /\ Counted => DepthRestored
  BY DEF Counted
<1> QED BY <1>1, CountsHold, PTL
=============================================================================
