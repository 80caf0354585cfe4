-------------------------- MODULE SyncStreamsProofs --------------------------
(***************************************************************************)
(* Theorems about SyncStreams, for any streams, any entities in any groups *)
(* and any number of changes: a cursor is true of its store, and never     *)
(* falls back.                                                             *)
(***************************************************************************)
EXTENDS SyncStreams, TLAPS

-----------------------------------------------------------------------------
(* The inductive invariant.                                                 *)

Stored == Nat \cup {Absent}

\* The server's side and the application's; the calls have their shapes below.
StateOK == /\ know \in Nat \ {0}
           /\ changed \in [Streams -> [Entities -> Nat]]
           /\ alive \in [Streams -> [Entities -> BOOLEAN]]
           /\ cursor \in [Streams -> Nat]
           /\ store \in [Streams -> [Entities -> Stored]]
           /\ DOMAIN flight = Streams

\* The knowledge of the plan is ahead of everything it is compared with.
KnowledgeAhead ==
    \A s \in Streams : /\ cursor[s] <= know
                       /\ \A e \in Entities : changed[s][e] <= know

\* The two requests: a read since the cursor, which cannot move meanwhile, and
\* a write.
SentRead(s) == [kind |-> "read", stage |-> "sent", since |-> cursor[s]]
SentWrite(e, lives) == [kind |-> "write", stage |-> "sent", entity |-> e, lives |-> lives]

\* What the store of s will be once the answer f has landed.
Landed(s, f) == MergeByID(Base(s, f), Flatten(f.groups))

\* An answer on its way, however late it lands, makes the cursor it brings true
\* of the store it makes.
AnswerSound(s, f) ==
    /\ Adopted(s, f) \in cursor[s]..know
    /\ Landed(s, f) \in [Entities -> Stored]
    /\ \A e \in Entities :
           Adopted(s, f) # 0 /\ changed[s][e] <= Adopted(s, f)
               => Landed(s, f)[e] = View(s)[e]

CallSound(s, f) == \/ f = SentRead(s)
                   \/ \E e \in Entities, lives \in BOOLEAN : f = SentWrite(e, lives)
                   \/ f.stage = "answered" /\ AnswerSound(s, f)

CallsSound == \A s \in Streams : /\ \A f \in flight[s] : CallSound(s, f)
                                 /\ \A f, g \in flight[s] : f = g

StreamsInvariant == StateOK /\ KnowledgeAhead /\ CallsSound /\ CursorSound

-----------------------------------------------------------------------------
(* The server's answers and what the application makes of them.             *)

\* Entities nested in their groups come out of the groups as they went in:
\* tombstones too, and none twice.
LEMMA FlattenNest ==
    ASSUME NEW s, NEW batch, batch = [e \in DOMAIN batch |-> batch[e]]
    PROVE  Flatten(Nest(s, batch)) = batch
<1> DEFINE group(e) == IF s = "categories" THEN GroupOf[e] ELSE 0
           groups == Nest(s, batch)
<1>1. groups = [g \in {group(e) : e \in DOMAIN batch} |->
                   [e \in {x \in DOMAIN batch : group(x) = g} |-> batch[e]]]
  BY DEF Nest
<1> HIDE DEF groups, group
<1>2. \A g \in DOMAIN groups : DOMAIN groups[g] = {x \in DOMAIN batch : group(x) = g}
  BY <1>1
<1>3. UNION {DOMAIN groups[g] : g \in DOMAIN groups} = DOMAIN batch
  <2>1. ASSUME NEW e \in DOMAIN batch
        PROVE  group(e) \in DOMAIN groups /\ e \in DOMAIN groups[group(e)]
    BY <1>1, <1>2
  <2>2. ASSUME NEW g \in DOMAIN groups
        PROVE  DOMAIN groups[g] \subseteq DOMAIN batch
    BY <1>2
  <2> QED
    BY <2>1, <2>2
<1>4. ASSUME NEW e \in DOMAIN batch
      PROVE  groups[CHOOSE g \in DOMAIN groups : e \in DOMAIN groups[g]][e] = batch[e]
  <2>1. group(e) \in DOMAIN groups /\ e \in DOMAIN groups[group(e)]
    BY <1>1, <1>2
  <2>2. \A g \in DOMAIN groups : e \in DOMAIN groups[g] => g = group(e)
    BY <1>2
  <2>3. (CHOOSE g \in DOMAIN groups : e \in DOMAIN groups[g]) = group(e)
    BY <2>1, <2>2
  <2> QED
    BY <1>1, <2>1, <2>3
<1>5. Flatten(groups) = [e \in DOMAIN batch |->
          groups[CHOOSE g \in DOMAIN groups : e \in DOMAIN groups[g]][e]]
  BY <1>3 DEF Flatten
<1>6. Flatten(groups) = [e \in DOMAIN batch |-> batch[e]]
  BY <1>4, <1>5
<1> QED
  BY <1>6 DEF groups

\* Merged is the batch where it has an entry and the local store elsewhere.
LEMMA MergeEntry ==
    ASSUME NEW local, NEW batch, NEW e \in Entities
    PROVE  MergeByID(local, batch)[e] = IF e \notin DOMAIN batch THEN local[e]
                                        ELSE IF batch[e] = Tombstone THEN Absent ELSE batch[e]
  BY DEF MergeByID

\* A store merged with entries of the server stays a store.
LEMMA MergeType ==
    ASSUME NEW local, local \in [Entities -> Stored], NEW batch,
           \A e \in DOMAIN batch : batch[e] \in Nat \cup {Tombstone}
    PROVE  MergeByID(local, batch) \in [Entities -> Stored]
  BY DEF MergeByID, Stored

-----------------------------------------------------------------------------
(* The steps.                                                               *)

\* A plan starts at its first knowledge, with nothing read.
LEMMA StreamsInit == Init => StreamsInvariant
<1> SUFFICES ASSUME Init PROVE StreamsInvariant
  OBVIOUS
<1>1. PICK S \in Starts : alive = [s \in Streams |-> [e \in Entities |-> e \in S]]
  BY DEF Init
<1>2. alive \in [Streams -> [Entities -> BOOLEAN]]
  BY <1>1
<1>3. /\ know = 1 /\ cursor = [s \in Streams |-> 0]
      /\ changed = [s \in Streams |-> [e \in Entities |-> IF alive[s][e] THEN 1 ELSE 0]]
      /\ store = [s \in Streams |-> Empty] /\ flight = [s \in Streams |-> {}]
  BY DEF Init
<1>4. StateOK
  BY <1>2, <1>3 DEF StateOK, Empty, Stored
<1>5. KnowledgeAhead /\ CallsSound /\ CursorSound
  BY <1>3 DEF KnowledgeAhead, CallsSound, CursorSound
<1> QED
  BY <1>4, <1>5 DEF StreamsInvariant

\* A change of the plan is ahead of every cursor, those on their way included,
\* so it takes nothing from what they promise.
LEMMA ChangesKeep ==
    ASSUME StreamsInvariant, NEW q \in Streams, NEW d \in Entities, NEW lives \in BOOLEAN,
           Changes(q, d, lives), UNCHANGED app
    PROVE  /\ know' \in Nat \ {0} /\ know' = know + 1
           /\ changed' \in [Streams -> [Entities -> Nat]]
           /\ alive' \in [Streams -> [Entities -> BOOLEAN]]
           /\ KnowledgeAhead' /\ CursorSound'
           /\ changed'[q][d] = know + 1
           /\ \A s \in Streams, e \in Entities :
                  ~(s = q /\ e = d) => changed'[s][e] = changed[s][e] /\ View(s)'[e] = View(s)[e]
           /\ \A s \in Streams : \A f \in flight[s] : CallSound(s, f) => CallSound(s, f)'
<1> USE DEF app
<1>0. StateOK /\ KnowledgeAhead /\ CursorSound
  BY DEF StreamsInvariant
<1>1. know' \in Nat \ {0} /\ know' = know + 1
  BY <1>0 DEF Changes, StateOK
<1>2. /\ changed' \in [Streams -> [Entities -> Nat]]
      /\ alive' \in [Streams -> [Entities -> BOOLEAN]]
  BY <1>0 DEF Changes, StateOK
<1>3. \A s \in Streams, e \in Entities :
          /\ changed'[s][e] = IF s = q /\ e = d THEN know + 1 ELSE changed[s][e]
          /\ alive'[s][e] = IF s = q /\ e = d THEN lives ELSE alive[s][e]
  BY <1>0 DEF Changes, StateOK
<1>4. \A s \in Streams, e \in Entities :
          ~(s = q /\ e = d) => changed'[s][e] = changed[s][e] /\ View(s)'[e] = View(s)[e]
  BY <1>3 DEF View
<1>5. KnowledgeAhead'
  BY <1>0, <1>1, <1>3 DEF KnowledgeAhead, StateOK
<1>6. \A s \in Streams, e \in Entities, k \in 0..know :
          changed'[s][e] <= k => changed[s][e] <= k /\ View(s)'[e] = View(s)[e]
  BY <1>0, <1>3, <1>4 DEF StateOK
<1>7. CursorSound'
  BY <1>0, <1>6 DEF CursorSound, StateOK, KnowledgeAhead
<1>8. ASSUME NEW s \in Streams, NEW f \in flight[s], CallSound(s, f)
      PROVE  CallSound(s, f)'
  <2>1. CASE f = SentRead(s) \/ \E e \in Entities, l \in BOOLEAN : f = SentWrite(e, l)
    BY <2>1 DEF CallSound, SentRead, SentWrite
  <2>2. CASE f.stage = "answered" /\ AnswerSound(s, f)
    <3>1. Adopted(s, f)' = Adopted(s, f) /\ Landed(s, f)' = Landed(s, f)
      BY DEF Adopted, Landed, Base
    <3>2. Adopted(s, f) \in 0..know /\ Adopted(s, f) \in cursor[s]..know'
      BY <1>0, <1>1, <2>2 DEF AnswerSound, StateOK
    <3>3. AnswerSound(s, f)'
      BY <1>6, <2>2, <3>1, <3>2 DEF AnswerSound
    <3> QED
      BY <2>2, <3>3 DEF CallSound
  <2> QED
    BY <1>8, <2>1, <2>2 DEF CallSound
<1> QED
  BY <1>1, <1>2, <1>3, <1>4, <1>5, <1>7, <1>8

\* An answer to a read is sound: it has what changed since the cursor, or all
\* there is, as it is now; without a knowledge the cursor stays where it is.
LEMMA ReadAnswerSound ==
    ASSUME StreamsInvariant, NEW s \in Streams, NEW k \in {0, know},
           NEW f, f.kind = "read", f.since = cursor[s], f.knowledge = k,
           f.groups = Nest(s, Batch(s, cursor[s]))
    PROVE  AnswerSound(s, f)
<1> DEFINE batch == Batch(s, cursor[s])
<1>0. StateOK /\ KnowledgeAhead /\ CursorSound
  BY DEF StreamsInvariant
<1>1. /\ DOMAIN batch = IF cursor[s] = 0 THEN {e \in Entities : alive[s][e]}
                        ELSE {e \in Entities : changed[s][e] > cursor[s]}
      /\ \A e \in DOMAIN batch : batch[e] = IF alive[s][e] THEN changed[s][e] ELSE Tombstone
      /\ batch = [e \in DOMAIN batch |-> batch[e]]
  BY DEF Batch
<1> HIDE DEF batch
<1>2. Landed(s, f) = MergeByID(Base(s, f), batch)
  BY <1>1, FlattenNest DEF Landed, batch
<1>3. Base(s, f) = IF cursor[s] = 0 THEN Empty ELSE store[s]
  BY DEF Base
<1>4. /\ cursor[s] \in Nat /\ know \in Nat /\ cursor[s] <= know
      /\ Adopted(s, f) = IF k = 0 THEN cursor[s] ELSE know
  BY <1>0 DEF Adopted, StateOK, KnowledgeAhead
<1>5. Landed(s, f) \in [Entities -> Stored]
  <2>1. Base(s, f) \in [Entities -> Stored]
    BY <1>0, <1>3 DEF StateOK, Empty, Stored
  <2>2. \A e \in DOMAIN batch : batch[e] \in Nat \cup {Tombstone}
    BY <1>0, <1>1 DEF StateOK
  <2> QED
    BY <1>2, <2>1, <2>2, MergeType
<1>6. ASSUME NEW e \in Entities, Adopted(s, f) # 0, changed[s][e] <= Adopted(s, f)
      PROVE  Landed(s, f)[e] = View(s)[e]
  <2>0. changed[s][e] \in Nat /\ View(s)[e] = IF alive[s][e] THEN changed[s][e] ELSE Absent
    BY <1>0 DEF StateOK, View
  <2>1. CASE e \in DOMAIN batch
    <3>1. Landed(s, f)[e] = IF batch[e] = Tombstone THEN Absent ELSE batch[e]
      BY <1>2, <2>1, MergeEntry
    <3> QED
      BY <1>1, <2>0, <2>1, <3>1, StreamsAssumption
  <2>2. CASE e \notin DOMAIN batch
    <3>1. Landed(s, f)[e] = Base(s, f)[e]
      BY <1>2, <2>2, MergeEntry
    <3>2. CASE cursor[s] = 0
      BY <1>1, <1>3, <2>0, <2>2, <3>1, <3>2 DEF Empty
    <3>3. CASE cursor[s] # 0
      <4>1. changed[s][e] <= cursor[s]
        BY <1>1, <1>4, <2>0, <2>2, <3>3
      <4> QED
        BY <1>0, <1>3, <3>1, <3>3, <4>1 DEF CursorSound
    <3> QED
      BY <3>2, <3>3
  <2> QED
    BY <2>1, <2>2
<1>7. Adopted(s, f) \in cursor[s]..know
  BY <1>4
<1> QED
  BY <1>5, <1>6, <1>7 DEF AnswerSound

\* The answer of a write is sound: the cursor stays, and what the write changed
\* is beyond it.
LEMMA WriteAnswerSound ==
    ASSUME StreamsInvariant, NEW s \in Streams, NEW d \in Entities, NEW lives \in BOOLEAN,
           Changes(s, d, lives), UNCHANGED app,
           NEW f, f.kind = "write",
           f.groups = Nest(s, [e \in {d} |-> IF lives THEN know' ELSE Tombstone])
    PROVE  AnswerSound(s, f)'
<1> DEFINE batch == [e \in {d} |-> IF lives THEN know' ELSE Tombstone]
<1> USE DEF app
<1>0. StateOK /\ KnowledgeAhead /\ CursorSound
  BY DEF StreamsInvariant
<1>1. /\ know' \in Nat \ {0} /\ know' = know + 1 /\ changed'[s][d] = know + 1
      /\ CursorSound'
  BY ChangesKeep
<1>2. /\ DOMAIN batch = {d} /\ batch[d] = (IF lives THEN know' ELSE Tombstone)
      /\ batch = [e \in DOMAIN batch |-> batch[e]]
  OBVIOUS
<1> HIDE DEF batch
<1>3. Landed(s, f)' = MergeByID(store[s], batch)
  BY <1>2, FlattenNest DEF Landed, Base, batch
<1>4. Adopted(s, f)' = cursor[s] /\ cursor[s] \in Nat /\ cursor[s] <= know /\ know \in Nat
  BY <1>0 DEF Adopted, StateOK, KnowledgeAhead
<1>5. Landed(s, f)' \in [Entities -> Stored]
  <2>1. \A e \in DOMAIN batch : batch[e] \in Nat \cup {Tombstone}
    BY <1>1, <1>2
  <2> QED
    BY <1>0, <1>3, <2>1, MergeType DEF StateOK
<1>6. ASSUME NEW e \in Entities, cursor[s] # 0, changed'[s][e] <= cursor[s]
      PROVE  Landed(s, f)'[e] = View(s)'[e]
  <2>1. e \notin DOMAIN batch
    BY <1>1, <1>2, <1>4, <1>6
  <2>2. Landed(s, f)'[e] = store[s][e]
    BY <1>3, <2>1, MergeEntry
  <2> QED
    BY <1>1, <1>6, <2>2 DEF CursorSound
<1> QED
  BY <1>1, <1>4, <1>5, <1>6 DEF AnswerSound

\* Two calls that see the same server and the same cursor and store of their
\* stream are equally sound.
LEMMA CallKept ==
    ASSUME NEW s \in Streams, NEW f, CallSound(s, f), UNCHANGED server,
           cursor'[s] = cursor[s], store'[s] = store[s]
    PROVE  CallSound(s, f)'
<1>1. CASE f = SentRead(s) \/ \E e \in Entities, l \in BOOLEAN : f = SentWrite(e, l)
  BY <1>1 DEF CallSound, SentRead, SentWrite
<1>2. CASE f.stage = "answered" /\ AnswerSound(s, f)
  <2>1. /\ Adopted(s, f)' = Adopted(s, f) /\ Landed(s, f)' = Landed(s, f)
        /\ View(s)' = View(s)
    BY DEF Adopted, Landed, Base, View, server
  <2> QED
    BY <1>2, <2>1 DEF CallSound, AnswerSound, server
<1> QED
  BY <1>1, <1>2 DEF CallSound

\* A step that only gives a stream another, sound call.
LEMMA CallReplaced ==
    ASSUME StreamsInvariant, NEW s \in Streams, NEW calls, UNCHANGED <<server, app>>,
           DOMAIN flight' = Streams, flight'[s] = calls,
           \A t \in Streams \ {s} : flight'[t] = flight[t],
           \A f \in calls : CallSound(s, f),
           \A f, g \in calls : f = g
    PROVE  StreamsInvariant'
<1>0. StateOK /\ KnowledgeAhead /\ CallsSound /\ CursorSound
  BY DEF StreamsInvariant
<1>1. \A t \in Streams : flight'[t] = IF t = s THEN calls ELSE flight[t]
  BY <1>0 DEF StateOK
<1>2. ASSUME NEW t \in Streams, NEW f \in flight'[t]
      PROVE  CallSound(t, f)'
  <2>1. CallSound(t, f)
    BY <1>0, <1>1 DEF CallsSound
  <2> QED
    BY <2>1, CallKept DEF app
<1>3. CallsSound'
  BY <1>0, <1>1, <1>2 DEF CallsSound
<1>4. StateOK' /\ KnowledgeAhead' /\ CursorSound'
  BY <1>0 DEF StateOK, KnowledgeAhead, CursorSound, View, server, app
<1> QED
  BY <1>3, <1>4 DEF StreamsInvariant

\* The same for the one call of a stream that had none, or another.
LEMMA CallPlaced ==
    ASSUME StreamsInvariant, NEW s \in Streams, NEW a, UNCHANGED <<server, app>>,
           flight' = [flight EXCEPT ![s] = {a}], CallSound(s, a)
    PROVE  StreamsInvariant'
<1>1. /\ DOMAIN flight' = Streams /\ flight'[s] = {a}
      /\ \A t \in Streams \ {s} : flight'[t] = flight[t]
  BY DEF StreamsInvariant, StateOK
<1>2. /\ \A f \in {a} : CallSound(s, f)
      /\ \A f, g \in {a} : f = g
  OBVIOUS
<1> QED
  BY <1>1, <1>2, CallReplaced

\* What anybody does keeps every cursor, and every answer on its way, sound.
LEMMA StreamsStep == StreamsInvariant /\ [Next]_vars => StreamsInvariant'
<1> SUFFICES ASSUME StreamsInvariant, [Next]_vars
             PROVE  StreamsInvariant'
  OBVIOUS
<1>0. StateOK /\ KnowledgeAhead /\ CallsSound /\ CursorSound
  BY DEF StreamsInvariant
<1>1. ASSUME NEW s \in Streams, Read(s)
      PROVE  StreamsInvariant'
  <2>1. flight' = [flight EXCEPT ![s] = {SentRead(s)}]
    BY <1>1 DEF Read, Guarded, Since, SentRead
  <2>2. CallSound(s, SentRead(s))
    BY DEF CallSound
  <2> QED
    BY <1>1, <2>1, <2>2, CallPlaced DEF Read
<1>2. ASSUME NEW s \in Streams, NEW e \in Entities, NEW lives \in BOOLEAN, Write(s, e, lives)
      PROVE  StreamsInvariant'
  <2>1. flight' = [flight EXCEPT ![s] = {SentWrite(e, lives)}]
    BY <1>2 DEF Write, Guarded, SentWrite
  <2>2. CallSound(s, SentWrite(e, lives))
    BY DEF CallSound
  <2> QED
    BY <1>2, <2>1, <2>2, CallPlaced DEF Write
<1>3. ASSUME NEW s \in Streams, NEW f \in flight[s], Answer(s, f)
      PROVE  StreamsInvariant'
  <2>1. f = SentRead(s) /\ f.since = cursor[s]
    BY <1>0, <1>3 DEF Answer, CallsSound, CallSound, SentRead, SentWrite
  <2>2. PICK k \in {0, know} : Reply(s, f, f.since, k, Nest(s, Batch(s, f.since)))
    BY <1>3 DEF Answer, Knowledges
  <2> PICK a : a = [kind |-> f.kind, stage |-> "answered", since |-> f.since,
                    knowledge |-> k, groups |-> Nest(s, Batch(s, f.since))]
    OBVIOUS
  <2>3. flight[s] \ {f} = {}
    BY <1>0 DEF CallsSound
  <2>4. flight' = [flight EXCEPT ![s] = {a}]
    BY <2>2, <2>3 DEF Reply
  <2>5. AnswerSound(s, a)
    BY <1>3, <2>1, ReadAnswerSound DEF Answer
  <2>6. CallSound(s, a)
    BY <2>5 DEF CallSound
  <2> QED
    BY <1>3, <2>4, <2>6, CallPlaced DEF Answer
<1>4. ASSUME NEW s \in Streams, NEW f \in flight[s], Fail(s, f)
      PROVE  StreamsInvariant'
  <2>1. \A g \in flight[s] \ {f} : CallSound(s, g)
    BY <1>0 DEF CallsSound
  <2>2. \A g, h \in flight[s] \ {f} : g = h
    BY <1>0 DEF CallsSound
  <2>3. /\ DOMAIN flight' = Streams /\ flight'[s] = flight[s] \ {f}
        /\ \A t \in Streams \ {s} : flight'[t] = flight[t]
    BY <1>0, <1>4 DEF Fail, StateOK
  <2> QED
    BY <1>4, <2>1, <2>2, <2>3, CallReplaced DEF Fail
<1>5. ASSUME NEW s \in Streams, NEW e \in Entities, NEW lives \in BOOLEAN, Alter(s, e, lives)
      PROVE  StreamsInvariant'
  <2>1. Changes(s, e, lives) /\ UNCHANGED <<app, flight>>
    BY <1>5 DEF Alter
  <2>2. StateOK' /\ KnowledgeAhead' /\ CursorSound'
    BY <1>0, <2>1, ChangesKeep DEF StateOK, app
  <2>3. CallsSound'
    BY <1>0, <2>1, ChangesKeep DEF CallsSound
  <2> QED
    BY <2>2, <2>3 DEF StreamsInvariant
<1>6. ASSUME NEW s \in Streams, NEW f \in flight[s], Apply(s, f)
      PROVE  StreamsInvariant'
  <2>1. PICK e \in Entities, lives \in BOOLEAN : f = SentWrite(e, lives)
    BY <1>0, <1>6 DEF Apply, CallsSound, CallSound, SentRead
  <2>2. Changes(s, e, lives) /\ UNCHANGED app
    BY <1>6, <2>1 DEF Apply, SentWrite
  <2> PICK a : a = [kind |-> "write", stage |-> "answered", since |-> 0, knowledge |-> know',
                    groups |-> Nest(s, [x \in {e} |-> IF lives THEN know' ELSE Tombstone])]
    OBVIOUS
  <2>3. flight[s] \ {f} = {}
    BY <1>0 DEF CallsSound
  <2>4. flight' = [flight EXCEPT ![s] = {a}]
    <3>1. f.kind = "write" /\ f.entity = e /\ f.lives = lives
      BY <2>1 DEF SentWrite
    <3>2. Reply(s, f, 0, know', Nest(s, [x \in {e} |-> IF lives THEN know' ELSE Tombstone]))
      BY <1>6, <3>1 DEF Apply
    <3>3. flight' = [flight EXCEPT ![s] = (flight[s] \ {f}) \cup {a}]
      BY <3>1, <3>2 DEF Reply
    <3> QED
      BY <2>3, <3>3
  <2>5. AnswerSound(s, a)'
    <3>1. /\ a.kind = "write"
          /\ a.groups = Nest(s, [x \in {e} |-> IF lives THEN know' ELSE Tombstone])
      OBVIOUS
    <3> QED
      BY <2>2, <3>1, WriteAnswerSound
  <2>6. CallSound(s, a)'
    BY <2>5 DEF CallSound
  <2>7. StateOK' /\ KnowledgeAhead' /\ CursorSound'
    BY <1>0, <2>2, <2>4, ChangesKeep DEF StateOK, app
  <2>8. \A t \in Streams : flight'[t] = IF t = s THEN {a} ELSE flight[t]
    BY <1>0, <2>4 DEF StateOK
  <2>9. ASSUME NEW t \in Streams, NEW g \in flight'[t]
        PROVE  CallSound(t, g)'
    <3>1. CASE t = s
      BY <2>6, <2>8, <3>1
    <3>2. CASE t # s
      <4>1. g \in flight[t] /\ CallSound(t, g)
        BY <1>0, <2>8, <3>2 DEF CallsSound
      <4> QED
        BY <2>2, <4>1, ChangesKeep
    <3> QED
      BY <3>1, <3>2
  <2>10. CallsSound'
    BY <1>0, <2>8, <2>9 DEF CallsSound
  <2> QED
    BY <2>7, <2>10 DEF StreamsInvariant
<1>7. ASSUME NEW s \in Streams, NEW f \in flight[s], Land(s, f)
      PROVE  StreamsInvariant'
  <2>1. AnswerSound(s, f)
    BY <1>0, <1>7 DEF Land, CallsSound, CallSound, SentRead, SentWrite
  <2>2. /\ store' = [store EXCEPT ![s] = Landed(s, f)]
        /\ cursor' = [cursor EXCEPT ![s] = Adopted(s, f)]
        /\ flight' = [flight EXCEPT ![s] = flight[s] \ {f}]
        /\ UNCHANGED server
    BY <1>0, <1>7 DEF Land, Landed, StateOK
  <2>3. flight[s] \ {f} = {}
    BY <1>0 DEF CallsSound
  <2>4. \A t \in Streams :
            /\ store'[t] = IF t = s THEN Landed(s, f) ELSE store[t]
            /\ cursor'[t] = IF t = s THEN Adopted(s, f) ELSE cursor[t]
            /\ flight'[t] = IF t = s THEN {} ELSE flight[t]
    BY <1>0, <2>2, <2>3 DEF StateOK
  <2>5. Adopted(s, f) \in Nat /\ Adopted(s, f) <= know
    BY <1>0, <2>1 DEF AnswerSound, StateOK
  <2>6. StateOK'
    BY <1>0, <2>1, <2>2, <2>5 DEF StateOK, AnswerSound, server
  <2>7. KnowledgeAhead'
    BY <1>0, <2>2, <2>4, <2>5 DEF KnowledgeAhead, server
  <2>8. CursorSound'
    BY <1>0, <2>1, <2>2, <2>4 DEF CursorSound, AnswerSound, View, server
  <2>9. ASSUME NEW t \in Streams, NEW g \in flight'[t]
        PROVE  CallSound(t, g)'
    <3>1. t # s /\ CallSound(t, g)
      BY <1>0, <2>4 DEF CallsSound
    <3> QED
      BY <2>2, <2>4, <3>1, CallKept
  <2>10. CallsSound'
    BY <1>0, <2>4, <2>9 DEF CallsSound
  <2> QED
    BY <2>6, <2>7, <2>8, <2>10 DEF StreamsInvariant
<1>8. CASE UNCHANGED vars
  <2>1. \A s \in Streams : \A f : CallSound(s, f) => CallSound(s, f)'
    BY <1>8, CallKept DEF vars, app
  <2>2. CallsSound'
    BY <1>0, <1>8, <2>1 DEF CallsSound, vars
  <2>3. StateOK' /\ KnowledgeAhead' /\ CursorSound'
    BY <1>0, <1>8 DEF StateOK, KnowledgeAhead, CursorSound, View, vars, server, app
  <2> QED
    BY <2>2, <2>3 DEF StreamsInvariant
<1> QED
  BY <1>1, <1>2, <1>3, <1>4, <1>5, <1>6, <1>7, <1>8 DEF Next, Answers, Lands

-----------------------------------------------------------------------------
\* In every behaviour cursors, stores and the answers on their way agree.
THEOREM StreamsCorrect == Spec => []StreamsInvariant
<1>1. Init => StreamsInvariant
  BY StreamsInit
<1>2. StreamsInvariant /\ [Next]_vars => StreamsInvariant'
  BY StreamsStep
<1> QED
  BY <1>1, <1>2, PTL DEF Spec

\* Whatever changed no later than a stream's cursor is in its store as it is on
\* the server, however reads, writes, failures and answers without a knowledge
\* follow each other in this and in other streams.
THEOREM CursorCorrect == Spec => []CursorSound
<1>1. StreamsInvariant => CursorSound
  BY DEF StreamsInvariant
<1> QED
  BY <1>1, StreamsCorrect, PTL

\* No step takes a stream's cursor back: an answer lands on the cursor it was
\* asked with, and the plan's knowledge only grows.
THEOREM AdvanceCorrect == Spec => CursorsAdvance
<1> DEFINE Forward == \A s \in Streams : cursor'[s] >= cursor[s]
<1>1. StreamsInvariant /\ [Next]_vars => [Forward]_vars
  <2> SUFFICES ASSUME StreamsInvariant, Next PROVE Forward
    OBVIOUS
  <2>0. StateOK /\ CallsSound
    BY DEF StreamsInvariant
  <2>1. ASSUME NEW s \in Streams, NEW f \in flight[s], Land(s, f)
        PROVE  Forward
    <3>1. AnswerSound(s, f)
      BY <2>0, <2>1 DEF Land, CallsSound, CallSound, SentRead, SentWrite
    <3>2. cursor[s] \in Nat /\ Adopted(s, f) >= cursor[s]
      BY <2>0, <3>1 DEF StateOK, AnswerSound
    <3> QED
      BY <2>0, <2>1, <3>2 DEF Land, StateOK
  <2>2. CASE UNCHANGED cursor
    BY <2>0, <2>2 DEF StateOK
  <2>3. UNCHANGED cursor \/ \E s \in Streams : \E f \in flight[s] : Land(s, f)
    BY DEF Next, Read, Write, Answers, Answer, Lands, Alter, Apply, Fail, app
  <2> QED
    BY <2>1, <2>2, <2>3
<1> QED
  BY <1>1, StreamsCorrect, PTL DEF Spec, CursorsAdvance
=============================================================================
