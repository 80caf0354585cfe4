--------------------------- MODULE DeltaSyncProofs ---------------------------
(***************************************************************************)
(* Theorems about Delta sync, for any plans, any entities and any number   *)
(* of changes.  First PlanSync: the store is a snapshot of the plan, and   *)
(* moves by snapshots.  Then examples/delta-sync on top of it, for any     *)
(* number of processes: what the state file holds was merged, belongs to   *)
(* one plan and never falls back.                                          *)
(***************************************************************************)
EXTENDS DeltaSyncExample, TLAPS

-----------------------------------------------------------------------------
(* PlanSync: its inductive invariant.                                       *)

\* What the server's history says: the present is its last entry, and an entity
\* that has not changed since k was at k what it is now.
HistoryTrue ==
    \A p \in Plans :
        /\ \A e \in Entities : changed[p][e] <= know[p]
        /\ \A k \in 1..know[p], e \in Entities :
               changed[p][e] <= k => past[p][k][e] = View(p)[e]

\* A state with a plan has a cursor its plan has reached; one without a cursor
\* goes with an empty store; and a call under way is for the state's plan.
StateSound ==
    /\ st.plan # NoPlan => st.cursor \in 1..know[st.plan]
    /\ st.cursor = 0 => store = NoStore /\ st.plan = NoPlan
    /\ stage \in {"sent", "answered"} => plan \in Plans /\ Attributable(plan)
    /\ stage = "merge" => st.plan # NoPlan

\* The batch on its way turns the store into the plan at the answer's knowledge.
AnswerSound ==
    stage = "answered" =>
        /\ reply.knowledge \in 1..know[plan]
        /\ reply.knowledge >= st.cursor
        /\ MergeByID(store, reply.batch) = past[plan][reply.knowledge]

SyncInvariant == TypeOK /\ HistoryTrue /\ StateSound /\ AnswerSound /\ StoreIsSnapshot

-----------------------------------------------------------------------------
(* Types.                                                                   *)

\* A plan, as it is now, is something a store can hold.
LEMMA ViewType == ASSUME TypeOK, NEW p \in Plans
                  PROVE  View(p) \in Store
  BY DEF TypeOK, View, Store, Content, Knowledge

\* Folding a batch into a store gives a store: no tombstone stays in it.
LEMMA MergeType == ASSUME NEW local \in Store, NEW batch, DOMAIN batch \subseteq Entities,
                          \A e \in DOMAIN batch : batch[e] \in Content \cup {Tombstone}
                   PROVE  MergeByID(local, batch) \in Store
  BY DEF MergeByID, Store

\* An answer carries entities of the plan that was asked for, or tombstones.
LEMMA BatchType ==
    ASSUME TypeOK, NEW p \in Plans, NEW since
    PROVE  /\ DOMAIN ExportBatch(p, since) \subseteq Entities
           /\ \A e \in DOMAIN ExportBatch(p, since) :
                  ExportBatch(p, since)[e] \in Content \cup {Tombstone}
  BY DEF ExportBatch, TypeOK, View, Content, Knowledge

\* A store of nothing is a store, and the initial state is well typed.
LEMMA TypeInit == Init => TypeOK
<1> SUFFICES ASSUME Init PROVE TypeOK
  OBVIOUS
<1>1. NoStore \in Store
  BY DEF NoStore, Store
<1>2. ASSUME NEW p \in Plans
      PROVE  View(p) \in Store
  <2>1. 0 \in Knowledge /\ 1 \in Knowledge
    BY SyncAssumption DEF Knowledge
  <2>2. \A e \in Entities : changed[p][e] \in Knowledge
    BY <2>1 DEF Init
  <2> QED
    BY <2>2 DEF View, Store, Content
<1>3. past \in [Plans -> [Knowledge -> Store]]
  BY <1>1, <1>2 DEF Init
<1> QED
  BY <1>1, <1>3, SyncAssumption DEF Init, TypeOK, SyncState, ZeroState, NoReply, Knowledge

\* No step of the server, of Delta or of the application leaves the types.
LEMMA TypeStep == TypeOK /\ StateSound /\ [Next]_vars => TypeOK'
<1> SUFFICES ASSUME TypeOK, StateSound, [Next]_vars
             PROVE  TypeOK'
  OBVIOUS
<1> USE SyncAssumption DEF server, app, call
<1>1. ASSUME NEW p \in Plans, NEW e \in Entities, NEW lives \in BOOLEAN,
             Alter(p, e, lives)
      PROVE  TypeOK'
  <2>1. know[p] + 1 \in 1..MaxKnowledge
    BY <1>1 DEF Alter, TypeOK
  <2>2. [View(p) EXCEPT ![e] = IF lives THEN <<p, know[p] + 1>> ELSE Absent] \in Store
    BY <2>1, ViewType DEF Store, Content, Knowledge
  <2>3. past' \in [Plans -> [Knowledge -> Store]]
    BY <1>1, <2>1, <2>2 DEF Alter, TypeOK
  <2>4. /\ know' \in [Plans -> 1..MaxKnowledge]
        /\ changed' \in [Plans -> [Entities -> Knowledge]]
        /\ alive' \in [Plans -> [Entities -> BOOLEAN]]
    BY <1>1, <2>1 DEF Alter, TypeOK, Knowledge
  <2> QED
    BY <1>1, <2>3, <2>4 DEF Alter, TypeOK
<1>2. ASSUME Answer
      PROVE  TypeOK'
  BY <1>2, BatchType DEF Answer, TypeOK, StateSound, Knowledge
<1>3. ASSUME NEW p \in Plans, CallDelta(p)
      PROVE  TypeOK'
  BY <1>3 DEF CallDelta, TypeOK
<1>4. ASSUME DeltaFails
      PROVE  TypeOK'
  BY <1>4 DEF DeltaFails, TypeOK, NoReply, Knowledge
<1>5. ASSUME DeltaReturns
      PROVE  TypeOK'
  BY <1>5 DEF DeltaReturns, TypeOK, SyncState
<1>6. ASSUME Merge
      PROVE  TypeOK'
  BY <1>6, MergeType DEF Merge, TypeOK, NoReply, Knowledge
<1>7. ASSUME StartOver
      PROVE  TypeOK'
  BY <1>7 DEF StartOver, TypeOK, ZeroState, SyncState, NoStore, Store, Knowledge
<1>8. ASSUME LosePlanID
      PROVE  TypeOK'
  BY <1>8 DEF LosePlanID, TypeOK, SyncState
<1>9. CASE UNCHANGED vars
  BY <1>9 DEF vars, TypeOK
<1> QED
  BY <1>1, <1>2, <1>3, <1>4, <1>5, <1>6, <1>7, <1>8, <1>9 DEF Next, Altered, Delta

-----------------------------------------------------------------------------
(* The invariant.                                                           *)

\* Before any change every plan is at its first knowledge and nothing has been
\* read.
LEMMA SyncInit == Init => SyncInvariant
<1> SUFFICES ASSUME Init PROVE SyncInvariant
  OBVIOUS
<1>1. TypeOK
  BY TypeInit
<1>2. HistoryTrue
  <2>1. ASSUME NEW p \in Plans, NEW e \in Entities
        PROVE  changed[p][e] <= know[p]
    BY DEF Init
  <2>2. ASSUME NEW p \in Plans, NEW k \in 1..know[p], NEW e \in Entities
        PROVE  past[p][k][e] = View(p)[e]
    <3>1. k = 1 /\ k \in Knowledge
      BY SyncAssumption DEF Init, Knowledge
    <3> QED
      BY <3>1 DEF Init
  <2> QED
    BY <2>1, <2>2 DEF HistoryTrue
<1>3. StateSound /\ AnswerSound /\ StoreIsSnapshot
  BY DEF Init, StateSound, AnswerSound, StoreIsSnapshot, ZeroState
<1> QED
  BY <1>1, <1>2, <1>3 DEF SyncInvariant

\* What an answer promises: folded into a store that is the plan at the cursor,
\* or into an empty one when there is no cursor, it gives the plan as it is now.
LEMMA AnswerMerges ==
    ASSUME SyncInvariant, stage = "sent"
    PROVE  MergeByID(store, ExportBatch(plan, st.cursor)) = past[plan][know[plan]]
<1> DEFINE batch == ExportBatch(plan, st.cursor)
<1>1. plan \in Plans /\ know[plan] \in 1..MaxKnowledge
  BY DEF SyncInvariant, StateSound, TypeOK
<1>2. past[plan][know[plan]] \in Store
  <2>1. know[plan] \in Knowledge
    BY <1>1, SyncAssumption DEF Knowledge
  <2> QED
    BY <1>1, <2>1 DEF SyncInvariant, TypeOK
<1>3. ASSUME NEW e \in Entities
      PROVE  past[plan][know[plan]][e] = View(plan)[e]
  <2>1. know[plan] \in 1..know[plan] /\ changed[plan][e] <= know[plan]
    BY <1>1, SyncAssumption DEF SyncInvariant, HistoryTrue
  <2> QED
    BY <1>1, <2>1 DEF SyncInvariant, HistoryTrue
<1>4. ASSUME NEW e \in Entities
      PROVE  MergeByID(store, batch)[e] = View(plan)[e]
  <2>1. CASE e \in DOMAIN batch
    <3>1. batch[e] = IF alive[plan][e] THEN View(plan)[e] ELSE Tombstone
      BY <2>1 DEF ExportBatch
    <3>2. alive[plan][e] => View(plan)[e] # Tombstone
      BY <1>1, SyncAssumption DEF View, SyncInvariant, TypeOK, Knowledge
    <3>3. ~alive[plan][e] => View(plan)[e] = Absent
      BY DEF View
    <3> QED
      BY <2>1, <3>1, <3>2, <3>3 DEF MergeByID
  <2>2. CASE e \notin DOMAIN batch /\ st.cursor = 0
    <3>1. ~alive[plan][e] /\ store[e] = Absent
      BY <2>2 DEF ExportBatch, SyncInvariant, StateSound, NoStore
    <3> QED
      BY <2>2, <3>1 DEF MergeByID, View
  <2>3. CASE e \notin DOMAIN batch /\ st.cursor # 0
    <3>1. ~(changed[plan][e] > st.cursor)
      BY <2>3 DEF ExportBatch
    <3>2. st.plan = plan /\ st.cursor \in 1..know[plan]
      BY <2>3, <1>1 DEF SyncInvariant, StateSound, Attributable
    <3>3. store = past[plan][st.cursor]
      BY <3>2, <1>1, SyncAssumption DEF SyncInvariant, StoreIsSnapshot, Merged
    <3>4. changed[plan][e] <= st.cursor
      BY <3>1, <3>2, <1>1 DEF SyncInvariant, TypeOK, Knowledge
    <3>5. past[plan][st.cursor][e] = View(plan)[e]
      BY <1>1, <3>2, <3>4 DEF SyncInvariant, HistoryTrue
    <3> QED
      BY <2>3, <3>3, <3>5 DEF MergeByID
  <2> QED
    BY <2>1, <2>2, <2>3
<1>5. MergeByID(store, batch) = [e \in Entities |-> MergeByID(store, batch)[e]]
  BY DEF MergeByID
<1> QED
  BY <1>2, <1>3, <1>4, <1>5 DEF Store

\* A change on the server adds an entry to its history and rewrites none.
LEMMA AlterHistory ==
    ASSUME TypeOK, HistoryTrue, NEW q \in Plans, NEW d \in Entities, NEW lives \in BOOLEAN,
           Alter(q, d, lives)
    PROVE  /\ HistoryTrue'
           /\ \A p \in Plans : \A k \in 0..know[p] : past'[p][k] = past[p][k]
           /\ \A p \in Plans : know'[p] \in Nat /\ know[p] <= know'[p]
<1>1. /\ know[q] \in 1..MaxKnowledge /\ know[q] + 1 \in 1..MaxKnowledge
      /\ MaxKnowledge \in Nat
  BY SyncAssumption DEF Alter, TypeOK
<1>2. \A p \in Plans : know'[p] = IF p = q THEN know[q] + 1 ELSE know[p]
  BY DEF Alter, TypeOK
<1>3. \A p \in Plans, k \in Knowledge :
          past'[p][k] = IF p = q /\ k = know[q] + 1
                        THEN [View(q) EXCEPT ![d] =
                                IF lives THEN <<q, know[q] + 1>> ELSE Absent]
                        ELSE past[p][k]
  BY <1>1 DEF Alter, TypeOK
<1>4. \A p \in Plans : know[p] \in 1..MaxKnowledge
  BY DEF TypeOK
<1>5. \A p \in Plans : \A k \in 0..know[p] : past'[p][k] = past[p][k]
  BY <1>1, <1>3, <1>4 DEF Knowledge
<1>6. \A p \in Plans, e \in Entities :
          /\ changed'[p][e] = IF p = q /\ e = d THEN know[q] + 1 ELSE changed[p][e]
          /\ alive'[p][e] = IF p = q /\ e = d THEN lives ELSE alive[p][e]
  BY DEF Alter, TypeOK
<1>7. ASSUME NEW p \in Plans, NEW e \in Entities
      PROVE  changed'[p][e] <= know'[p]
  <2>1. changed[p][e] \in Nat /\ changed[p][e] <= know[p] /\ know[p] \in Nat
    BY SyncAssumption DEF TypeOK, HistoryTrue, Knowledge
  <2> QED
    BY <2>1, <1>1, <1>2, <1>6
<1>8. ASSUME NEW p \in Plans, NEW k \in 1..know'[p], NEW e \in Entities,
             changed'[p][e] <= k
      PROVE  past'[p][k][e] = IF alive'[p][e] THEN <<p, changed'[p][e]>> ELSE Absent
  <2>1. CASE p = q /\ k = know[q] + 1
    <3>1. k \in Knowledge
      BY <2>1, <1>1 DEF Knowledge
    <3>2. past'[p][k][e] = IF e = d THEN (IF lives THEN <<q, know[q] + 1>> ELSE Absent)
                           ELSE View(q)[e]
      BY <2>1, <3>1, <1>3 DEF View
    <3> QED
      BY <2>1, <3>2, <1>6 DEF View
  <2>2. CASE ~(p = q /\ k = know[q] + 1)
    <3>1. k \in 1..know[p]
      BY <2>2, <1>1, <1>2, <1>4
    <3>2. past'[p][k] = past[p][k]
      BY <3>1, <1>4, <1>5
    <3>3. ~(p = q /\ e = d)
      BY <3>1, <1>1, <1>4, <1>6, <1>8
    <3>4. past[p][k][e] = View(p)[e]
      BY <3>1, <3>3, <1>6, <1>8 DEF HistoryTrue
    <3> QED
      BY <3>2, <3>3, <3>4, <1>6 DEF View
  <2> QED
    BY <2>1, <2>2
<1> QED
  BY <1>1, <1>2, <1>4, <1>5, <1>7, <1>8 DEF HistoryTrue, View

\* What the server, Delta and the application do keeps the store a snapshot: the
\* cursor moves only with an answer, and the answer is merged before the next.
LEMMA SyncStep == SyncInvariant /\ [Next]_vars => SyncInvariant'
<1> SUFFICES ASSUME SyncInvariant, [Next]_vars
             PROVE  SyncInvariant'
  OBVIOUS
<1>0. /\ TypeOK /\ HistoryTrue /\ StateSound /\ AnswerSound /\ StoreIsSnapshot
      /\ TypeOK'
  BY TypeStep DEF SyncInvariant
<1> USE DEF server, app, call
<1>1. ASSUME NEW p \in Plans, NEW e \in Entities, NEW lives \in BOOLEAN,
             Alter(p, e, lives)
      PROVE  SyncInvariant'
  <2>1. /\ HistoryTrue'
        /\ \A r \in Plans : \A k \in 0..know[r] : past'[r][k] = past[r][k]
        /\ \A r \in Plans : know'[r] \in Nat /\ know[r] <= know'[r]
    BY <1>0, <1>1, AlterHistory
  <2>2. UNCHANGED <<st, store, stage, plan, reply>>
    BY <1>1 DEF Alter
  <2>3. \A r \in Plans : know[r] \in Nat /\ 1..know[r] \subseteq 1..know'[r]
                         /\ 1..know[r] \subseteq 0..know[r]
    BY <1>0, <2>1 DEF TypeOK
  <2>4. st.plan # NoPlan => st.plan \in Plans
    BY <1>0 DEF TypeOK, SyncState
  <2>5. StateSound'
    BY <1>0, <2>2, <2>3, <2>4 DEF StateSound, Attributable
  <2>6. stage = "answered" => past'[plan][reply.knowledge] = past[plan][reply.knowledge]
    BY <1>0, <2>1, <2>3 DEF StateSound, AnswerSound
  <2>7. AnswerSound'
    BY <1>0, <2>2, <2>3, <2>6 DEF StateSound, AnswerSound, MergeByID
  <2>8. st.plan # NoPlan => past'[st.plan][st.cursor] = past[st.plan][st.cursor]
    BY <1>0, <2>1, <2>3, <2>4 DEF StateSound
  <2>9. StoreIsSnapshot'
    BY <1>0, <2>2, <2>8 DEF StoreIsSnapshot, Merged, MergeByID
  <2> QED
    BY <1>0, <2>1, <2>5, <2>7, <2>9 DEF SyncInvariant
<1>2. ASSUME Answer
      PROVE  SyncInvariant'
  <2>1. MergeByID(store, ExportBatch(plan, st.cursor)) = past[plan][know[plan]]
    BY <1>2, AnswerMerges DEF Answer
  <2>2. plan \in Plans /\ know[plan] \in Nat \ {0} /\ Attributable(plan)
    BY <1>0, <1>2 DEF Answer, StateSound, TypeOK
  <2>3. know[plan] \in 1..know[plan] /\ know[plan] >= st.cursor
    BY <1>0, <2>2 DEF StateSound, Attributable, TypeOK, SyncState, Knowledge
  <2>4. AnswerSound'
    BY <1>2, <2>1, <2>3 DEF Answer, AnswerSound, MergeByID
  <2>5. HistoryTrue' /\ StateSound' /\ StoreIsSnapshot'
    BY <1>0, <1>2, <2>2 DEF Answer, HistoryTrue, StateSound, StoreIsSnapshot, Merged,
                            Attributable, View
  <2> QED
    BY <1>0, <2>4, <2>5 DEF SyncInvariant
<1>3. ASSUME NEW p \in Plans, CallDelta(p)
      PROVE  SyncInvariant'
  BY <1>0, <1>3 DEF CallDelta, SyncInvariant, HistoryTrue, StateSound, AnswerSound,
                    StoreIsSnapshot, Merged, Attributable, View
<1>4. ASSUME DeltaFails
      PROVE  SyncInvariant'
  BY <1>0, <1>4 DEF DeltaFails, SyncInvariant, HistoryTrue, StateSound, AnswerSound,
                    StoreIsSnapshot, Merged, View
<1>5. ASSUME DeltaReturns
      PROVE  SyncInvariant'
  <2>1. /\ plan \in Plans /\ reply.knowledge \in 1..know[plan]
        /\ MergeByID(store, reply.batch) = past[plan][reply.knowledge]
    BY <1>0, <1>5 DEF DeltaReturns, StateSound, AnswerSound
  <2>2. /\ st' = [plan |-> plan, cursor |-> reply.knowledge] /\ stage' = "merge"
        /\ UNCHANGED <<server, store, plan, reply>>
    BY <1>5 DEF DeltaReturns
  <2>3. StateSound' /\ AnswerSound'
    BY <2>1, <2>2, SyncAssumption DEF StateSound, AnswerSound
  <2>4. StoreIsSnapshot'
    BY <2>1, <2>2 DEF StoreIsSnapshot, Merged, MergeByID
  <2>5. HistoryTrue'
    BY <1>0, <2>2 DEF HistoryTrue, View
  <2> QED
    BY <1>0, <2>3, <2>4, <2>5 DEF SyncInvariant
<1>6. ASSUME Merge
      PROVE  SyncInvariant'
  <2>1. store' = Merged /\ stage' = "idle" /\ UNCHANGED <<server, st>>
    BY <1>6 DEF Merge, Merged
  <2>2. StoreIsSnapshot' /\ HistoryTrue' /\ AnswerSound'
    BY <1>0, <2>1 DEF StoreIsSnapshot, HistoryTrue, AnswerSound, Merged, View
  <2>3. StateSound'
    BY <1>0, <1>6, <2>1 DEF Merge, StateSound
  <2> QED
    BY <1>0, <2>2, <2>3 DEF SyncInvariant
<1>7. ASSUME StartOver
      PROVE  SyncInvariant'
  BY <1>0, <1>7 DEF StartOver, SyncInvariant, HistoryTrue, StateSound, AnswerSound,
                    StoreIsSnapshot, ZeroState, View
<1>8. ASSUME LosePlanID
      PROVE  SyncInvariant'
  <2>1. /\ st'.plan = NoPlan /\ st'.cursor = st.cursor /\ stage = "idle"
        /\ st.plan # NoPlan /\ UNCHANGED <<server, store, call>>
    BY <1>0, <1>8 DEF LosePlanID, TypeOK, SyncState
  <2> QED
    BY <1>0, <2>1 DEF SyncInvariant, HistoryTrue, StateSound, AnswerSound,
                      StoreIsSnapshot, View
<1>9. CASE UNCHANGED vars
  BY <1>0, <1>9 DEF vars, SyncInvariant, HistoryTrue, StateSound, AnswerSound,
                    StoreIsSnapshot, Merged, MergeByID, Attributable, View
<1> QED
  BY <1>1, <1>2, <1>3, <1>4, <1>5, <1>6, <1>7, <1>8, <1>9 DEF Next, Altered, Delta

\* In every behaviour the types hold and the store, the cursor, the answer under
\* way and the plan's history agree.
THEOREM SyncCorrect == Spec => []SyncInvariant
<1>1. Init => SyncInvariant
  BY SyncInit
<1>2. SyncInvariant /\ [Next]_vars => SyncInvariant'
  BY SyncStep
<1> QED
  BY <1>1, <1>2, PTL DEF Spec

\* Delta and MergeByID keep the store exactly the plan at the cursor, whatever
\* fails, whatever changes meanwhile and however the calls are mixed.
THEOREM SnapshotCorrect == Spec => []StoreIsSnapshot
<1>1. SyncInvariant => StoreIsSnapshot
  BY DEF SyncInvariant
<1> QED
  BY <1>1, SyncCorrect, PTL

-----------------------------------------------------------------------------
(* The refinement: DeltaReturns is the replica's step, although the store   *)
(* only catches up with Merge; StartOver drops it, LosePlanID disowns it,   *)
(* and every other step is hidden.                                          *)

\* The replica of the mapping begins empty and of no plan.
LEMMA ReplicaInit == Init => Replica!Init
  BY DEF Init, Replica!Init, Merged, ZeroState

\* A step that leaves the state and the store alone, outside of the time between
\* Delta's return and the merge, is hidden.
LEMMA ReplicaStutter == ASSUME UNCHANGED <<st, store>>, stage # "merge", stage' # "merge"
                        PROVE  UNCHANGED Replica!vars
  BY DEF Replica!vars, Merged

\* Every step is one of the replica, or hidden.
LEMMA ReplicaStep == SyncInvariant /\ [Next]_vars => [Replica!Next]_(Replica!vars)
<1> SUFFICES ASSUME SyncInvariant, [Next]_vars
             PROVE  Replica!Next \/ UNCHANGED Replica!vars
  OBVIOUS
<1> USE DEF server, app, call
<1>1. ASSUME NEW p \in Plans, NEW e \in Entities, NEW lives \in BOOLEAN,
             Alter(p, e, lives)
      PROVE  UNCHANGED Replica!vars
  BY <1>1 DEF Alter, Replica!vars, Merged, MergeByID
<1>2. ASSUME Answer
      PROVE  UNCHANGED Replica!vars
  BY <1>2, ReplicaStutter DEF Answer
<1>3. ASSUME NEW p \in Plans, CallDelta(p)
      PROVE  UNCHANGED Replica!vars
  BY <1>3, ReplicaStutter DEF CallDelta
<1>4. ASSUME DeltaFails
      PROVE  UNCHANGED Replica!vars
  BY <1>4, ReplicaStutter DEF DeltaFails
<1>5. ASSUME DeltaReturns
      PROVE  Replica!Next
  <2>1. /\ plan \in Plans /\ know[plan] \in 1..MaxKnowledge
        /\ reply.knowledge \in 1..know[plan] /\ reply.knowledge >= st.cursor
        /\ MergeByID(store, reply.batch) = past[plan][reply.knowledge]
        /\ Attributable(plan)
    BY <1>5 DEF DeltaReturns, SyncInvariant, StateSound, AnswerSound, TypeOK
  <2>2. /\ st'.plan = plan /\ st'.cursor = reply.knowledge
        /\ Merged' = past[plan][reply.knowledge]
    BY <1>5, <2>1 DEF DeltaReturns, Merged, MergeByID
  <2>3. reply.knowledge \in 1..MaxKnowledge
    BY <2>1, SyncAssumption
  <2>4. st.plan \in {NoPlan, plan} /\ (st.plan = NoPlan => st.cursor = 0)
    BY <2>1 DEF Attributable
  <2>5. Replica!Sync(plan, reply.knowledge)
    BY <2>1, <2>2, <2>4 DEF Replica!Sync
  <2> QED
    BY <2>1, <2>3, <2>4, <2>5 DEF Replica!Next
<1>6. ASSUME Merge
      PROVE  UNCHANGED Replica!vars
  BY <1>6 DEF Merge, Replica!vars, Merged
<1>7. ASSUME StartOver
      PROVE  Replica!Next
  BY <1>7 DEF StartOver, Replica!Next, Replica!Drop, ZeroState, Merged
<1>8. ASSUME LosePlanID
      PROVE  Replica!Next
  <2>1. /\ st.plan # NoPlan /\ st'.plan = NoPlan /\ st'.cursor = st.cursor
        /\ UNCHANGED Merged
    BY <1>8 DEF LosePlanID, SyncInvariant, TypeOK, SyncState, Merged
  <2> QED
    BY <2>1 DEF Replica!Next, Replica!Disown
<1>9. CASE UNCHANGED vars
  BY <1>9 DEF vars, Replica!vars, Merged, MergeByID
<1> QED
  BY <1>1, <1>2, <1>3, <1>4, <1>5, <1>6, <1>7, <1>8, <1>9 DEF Next, Altered, Delta

\* Delta and MergeByID replicate a plan by snapshots that only move forward, and
\* never mix two plans.
THEOREM ReplicaCorrect == Spec => ReplicatesBySnapshots
<1>1. Init => Replica!Init
  BY ReplicaInit
<1>2. SyncInvariant /\ [Next]_vars => [Replica!Next]_(Replica!vars)
  BY ReplicaStep
<1> QED
  BY <1>1, <1>2, SyncCorrect, PTL DEF Spec, ReplicatesBySnapshots, Replica!Spec

-----------------------------------------------------------------------------
(* The example: its inductive invariant.                                    *)

\* An answer is newer than the state it was asked with.  Of AnswerSound this is
\* what a resumed process still has: its store lacks what came before.
KnowledgeSound ==
    stage = "answered" => /\ reply.knowledge \in 1..know[plan]
                          /\ reply.knowledge >= st.cursor

Bookkeeping == TypeOK /\ HistoryTrue /\ StateSound /\ KnowledgeSound

\* A state that its plan has been in.
Reached(state) == /\ state \in SyncState
                  /\ state.plan \in Plans
                  /\ state.cursor \in 1..know[state.plan]

\* Where the process stands, what it holds and what it is about to save.
ProcessSound ==
    /\ proc \in {"down", "pass", "save", "rename", "sleep"}
    /\ proc # "down" => home \in Plans
    /\ proc # "pass" => stage = "idle"
    /\ proc \in {"save", "rename", "sleep"} => st \in merged
    /\ proc = "rename" => tmp = st

FilesSound == /\ file \in {NoFile} \cup merged
              /\ \A m \in merged : Reached(m)

\* A running process is never behind its file, nor at another plan.
AheadOfFile ==
    proc # "down" /\ file # NoFile => st.plan = file.plan /\ st.cursor >= file.cursor

FreshSound == proc # "down" /\ ~resumed => AnswerSound /\ StoreIsSnapshot

ExampleInvariant ==
    Bookkeeping /\ ProcessSound /\ FilesSound /\ AheadOfFile /\ FreshSound

-----------------------------------------------------------------------------
(* The steps of PlanSync.                                                   *)

\* The plans' histories and the knowledge of answers do not depend on the store:
\* they are kept in a process whose store lacks what came before, too.
LEMMA BookkeepingStep == Bookkeeping /\ [Next]_vars => Bookkeeping'
<1> SUFFICES ASSUME Bookkeeping, [Next]_vars
             PROVE  Bookkeeping'
  OBVIOUS
<1>0. TypeOK /\ HistoryTrue /\ StateSound /\ KnowledgeSound /\ TypeOK'
  BY TypeStep DEF Bookkeeping
<1> USE DEF server, app, call
<1>1. ASSUME NEW p \in Plans, NEW e \in Entities, NEW lives \in BOOLEAN,
             Alter(p, e, lives)
      PROVE  Bookkeeping'
  <2>1. /\ HistoryTrue'
        /\ \A r \in Plans : know'[r] \in Nat /\ know[r] <= know'[r]
    BY <1>0, <1>1, AlterHistory
  <2>2. UNCHANGED <<st, store, stage, plan, reply>>
    BY <1>1 DEF Alter
  <2>3. \A r \in Plans : 1..know[r] \subseteq 1..know'[r]
    BY <1>0, <2>1 DEF TypeOK
  <2>4. st.plan # NoPlan => st.plan \in Plans
    BY <1>0 DEF TypeOK, SyncState
  <2>5. StateSound' /\ KnowledgeSound'
    BY <1>0, <2>2, <2>3, <2>4 DEF StateSound, KnowledgeSound, Attributable
  <2> QED
    BY <1>0, <2>1, <2>5 DEF Bookkeeping
<1>2. ASSUME Answer
      PROVE  Bookkeeping'
  <2>1. plan \in Plans /\ know[plan] \in Nat \ {0} /\ Attributable(plan)
    BY <1>0, <1>2 DEF Answer, StateSound, TypeOK
  <2>2. know[plan] \in 1..know[plan] /\ know[plan] >= st.cursor
    BY <1>0, <2>1 DEF StateSound, Attributable, TypeOK, SyncState, Knowledge
  <2> QED
    BY <1>0, <1>2, <2>1, <2>2 DEF Answer, Bookkeeping, HistoryTrue, StateSound,
                                  KnowledgeSound, Attributable, View
<1>3. ASSUME NEW p \in Plans, CallDelta(p)
      PROVE  Bookkeeping'
  BY <1>0, <1>3 DEF CallDelta, Bookkeeping, HistoryTrue, StateSound, KnowledgeSound,
                    Attributable, View
<1>4. ASSUME DeltaFails
      PROVE  Bookkeeping'
  BY <1>0, <1>4 DEF DeltaFails, Bookkeeping, HistoryTrue, StateSound, KnowledgeSound, View
<1>5. ASSUME DeltaReturns
      PROVE  Bookkeeping'
  <2>1. plan \in Plans /\ reply.knowledge \in 1..know[plan]
    BY <1>0, <1>5 DEF DeltaReturns, StateSound, KnowledgeSound
  <2>2. /\ st' = [plan |-> plan, cursor |-> reply.knowledge] /\ stage' = "merge"
        /\ UNCHANGED <<server, store, plan, reply>>
    BY <1>5 DEF DeltaReturns
  <2>3. StateSound' /\ KnowledgeSound'
    BY <2>1, <2>2, SyncAssumption DEF StateSound, KnowledgeSound
  <2> QED
    BY <1>0, <2>2, <2>3 DEF Bookkeeping, HistoryTrue, View
<1>6. ASSUME Merge
      PROVE  Bookkeeping'
  BY <1>0, <1>6 DEF Merge, Bookkeeping, HistoryTrue, StateSound, KnowledgeSound, View
<1>7. ASSUME StartOver
      PROVE  Bookkeeping'
  BY <1>0, <1>7 DEF StartOver, Bookkeeping, HistoryTrue, StateSound, KnowledgeSound,
                    ZeroState, View
<1>8. ASSUME LosePlanID
      PROVE  Bookkeeping'
  <2>1. /\ st'.plan = NoPlan /\ st'.cursor = st.cursor /\ stage = "idle"
        /\ st.plan # NoPlan /\ UNCHANGED <<server, store, call>>
    BY <1>0, <1>8 DEF LosePlanID, TypeOK, SyncState
  <2> QED
    BY <1>0, <2>1 DEF Bookkeeping, HistoryTrue, StateSound, KnowledgeSound, View
<1>9. CASE UNCHANGED vars
  BY <1>0, <1>9 DEF vars, Bookkeeping, HistoryTrue, StateSound, KnowledgeSound,
                    Attributable, View
<1> QED
  BY <1>1, <1>2, <1>3, <1>4, <1>5, <1>6, <1>7, <1>8, <1>9 DEF Next, Altered, Delta

\* What a plan has been it has been; its knowledge only grows.
LEMMA ReachedKept ==
    ASSUME TypeOK, HistoryTrue, [Next]_vars, NEW m, Reached(m)
    PROVE  Reached(m)'
<1> USE DEF server, app, call
<1>1. \A r \in Plans : know[r] \in Nat /\ know'[r] \in Nat /\ know[r] <= know'[r]
  <2>1. ASSUME NEW p \in Plans, NEW e \in Entities, NEW lives \in BOOLEAN,
               Alter(p, e, lives)
        PROVE  \A r \in Plans : know'[r] \in Nat /\ know[r] <= know'[r]
    BY <2>1, AlterHistory
  <2>2. CASE UNCHANGED know
    BY <2>2 DEF TypeOK
  <2>3. UNCHANGED know \/ \E p \in Plans, e \in Entities, lives \in BOOLEAN : Alter(p, e, lives)
    BY DEF Next, Altered, Answer, Delta, CallDelta, DeltaFails, DeltaReturns, Merge,
           StartOver, LosePlanID, vars
  <2>4. \A r \in Plans : know[r] \in Nat
    BY DEF TypeOK
  <2> QED
    BY <2>1, <2>2, <2>3, <2>4 DEF TypeOK
<1> QED
  BY <1>1 DEF Reached

\* A step of PlanSync within the example keeps all that does not speak of the
\* process and its disk.
LEMMA PlanStep ==
    ASSUME ExampleInvariant, [Next]_vars
    PROVE  /\ Bookkeeping'
           /\ \A m \in merged : Reached(m)'
           /\ proc # "down" /\ ~resumed => AnswerSound' /\ StoreIsSnapshot'
<1>1. Bookkeeping'
  BY BookkeepingStep DEF ExampleInvariant
<1>2. ASSUME NEW m \in merged
      PROVE  Reached(m)'
  BY ReachedKept DEF ExampleInvariant, FilesSound, Bookkeeping
<1>3. ASSUME proc # "down" /\ ~resumed
      PROVE  AnswerSound' /\ StoreIsSnapshot'
  <2>1. SyncInvariant
    BY <1>3 DEF ExampleInvariant, FreshSound, Bookkeeping, SyncInvariant
  <2> QED
    BY <2>1, SyncStep DEF SyncInvariant
<1> QED
  BY <1>1, <1>2, <1>3

-----------------------------------------------------------------------------
(* The process.                                                             *)

\* No process has run, no file exists.
LEMMA ExampleInvariantInit == ExampleInit => ExampleInvariant
<1> SUFFICES ASSUME ExampleInit PROVE ExampleInvariant
  OBVIOUS
<1>1. SyncInvariant
  BY SyncInit DEF ExampleInit
<1>2. stage = "idle"
  BY DEF ExampleInit, Init
<1> QED
  BY <1>1, <1>2 DEF ExampleInit, ExampleInvariant, SyncInvariant, Bookkeeping, KnowledgeSound,
                    ProcessSound, FilesSound, AheadOfFile, FreshSound

\* A new process starts with the file's state and an empty store, or with
\* nothing at all.
LEMMA BootStep ==
    ASSUME ExampleInvariant, NEW p \in Plans, Boot(p)
    PROVE  ExampleInvariant'
<1> USE DEF server, app, call, process, disk
<1>0. /\ TypeOK /\ HistoryTrue /\ StateSound /\ ProcessSound /\ FilesSound
      /\ stage = "idle" /\ proc = "down"
  BY DEF ExampleInvariant, Bookkeeping, ProcessSound, Boot
<1>1. /\ UNCHANGED <<know, changed, alive, past, stage, plan, reply, file, tmp, merged>>
      /\ proc' = "pass" /\ home' = p /\ store' = NoStore
      /\ st' = IF file \in SyncState THEN file ELSE ZeroState
      /\ resumed' = (file \in SyncState)
  BY DEF Boot
<1>2. file # NoFile => Reached(file)
  BY <1>0 DEF FilesSound
<1>3. file = NoFile => file \notin SyncState
  BY FileAssumption
<1>4. \/ st' = ZeroState /\ file = NoFile /\ ~resumed'
      \/ st' = file /\ Reached(file) /\ resumed'
  BY <1>1, <1>2, <1>3 DEF Reached
<1>5. TypeOK'
  BY <1>0, <1>1, <1>4, SyncAssumption
     DEF TypeOK, Reached, NoStore, Store, ZeroState, SyncState, Knowledge
<1>6. HistoryTrue' /\ KnowledgeSound'
  BY <1>0, <1>1 DEF HistoryTrue, KnowledgeSound, View
<1>7. StateSound'
  BY <1>0, <1>1, <1>4, SyncAssumption DEF StateSound, Reached, ZeroState
<1>8. ProcessSound' /\ FilesSound'
  BY <1>0, <1>1 DEF ProcessSound, FilesSound, Reached
<1>9. AheadOfFile'
  BY <1>1, <1>4 DEF AheadOfFile, Reached, SyncState, Knowledge
<1>10. FreshSound'
  BY <1>0, <1>1, <1>4 DEF FreshSound, AnswerSound, StoreIsSnapshot, ZeroState
<1> QED
  BY <1>5, <1>6, <1>7, <1>8, <1>9, <1>10 DEF ExampleInvariant, Bookkeeping

\* Killed or out of luck: what is left of the exchange is nothing, what is on
\* disk stays.
LEMMA CrashStep == ExampleInvariant /\ Crash => ExampleInvariant'
<1> SUFFICES ASSUME ExampleInvariant, Crash
             PROVE  ExampleInvariant'
  OBVIOUS
<1> USE DEF server, app, call, process, disk
<1>1. /\ UNCHANGED <<know, changed, alive, past, st, store, file, tmp, merged, home>>
      /\ proc' = "down" /\ stage' = "idle" /\ plan' = NoPlan /\ reply' = NoReply
  BY DEF Crash, Exit
<1>2. Bookkeeping'
  BY <1>1, SyncAssumption
     DEF ExampleInvariant, Bookkeeping, TypeOK, HistoryTrue, StateSound, KnowledgeSound,
         View, NoReply, Knowledge
<1> QED
  BY <1>1, <1>2 DEF ExampleInvariant, ProcessSound, FilesSound, Reached, AheadOfFile, FreshSound

\* The end of a process by itself, a step of the plan or none aside, keeps the
\* invariant: nothing is asked of a process that is down but its idleness.
LEMMA ExitStep ==
    ASSUME ExampleInvariant, [Next]_vars, Exit, stage' = "idle", UNCHANGED <<file, merged>>
    PROVE  ExampleInvariant'
<1>1. Bookkeeping' /\ \A m \in merged : Reached(m)'
  BY PlanStep
<1>2. proc' = "down"
  BY DEF Exit
<1> QED
  BY <1>1, <1>2 DEF ExampleInvariant, ProcessSound, FilesSound, AheadOfFile, FreshSound

\* A step of a process that goes on, with or without a step of its plan.
LEMMA RunningStep ==
    ASSUME ExampleInvariant, [Next]_vars, proc # "down" \/ proc' = "down",
           UNCHANGED <<home, resumed>>,
           ProcessSound', AheadOfFile',
           file' \in {NoFile} \cup merged', \A m \in merged' : m \in merged \/ Reached(m)'
    PROVE  ExampleInvariant'
<1>1. /\ Bookkeeping' /\ \A m \in merged : Reached(m)'
      /\ proc # "down" /\ ~resumed => AnswerSound' /\ StoreIsSnapshot'
  BY PlanStep
<1>2. FilesSound'
  BY <1>1 DEF FilesSound
<1>3. FreshSound'
  BY <1>1 DEF FreshSound
<1> QED
  BY <1>1, <1>2, <1>3 DEF ExampleInvariant

\* Whatever the process, its plan and its disk do, and whenever it is killed.
LEMMA ExampleStep == ExampleInvariant /\ [ExampleNext]_exampleVars => ExampleInvariant'
<1> SUFFICES ASSUME ExampleInvariant, [ExampleNext]_exampleVars
             PROVE  ExampleInvariant'
  OBVIOUS
<1>0. /\ TypeOK /\ StateSound /\ KnowledgeSound
      /\ ProcessSound /\ FilesSound /\ AheadOfFile
  BY DEF ExampleInvariant, Bookkeeping
<1> USE DEF process, disk
<1>1. CASE \E p \in Plans : Boot(p)
  BY <1>1, BootStep
<1>2. CASE DeltaRefuses
  <2>1. [Next]_vars /\ Exit /\ stage' = "idle" /\ UNCHANGED <<file, merged>>
    BY <1>2 DEF DeltaRefuses, vars, call
  <2> QED
    BY <2>1, ExitStep
<1>3. CASE PassCalls
  <2>1. /\ proc = "pass" /\ CallDelta(home) /\ home \in Plans
        /\ UNCHANGED <<st, proc, home, resumed, file, tmp, merged>>
    BY <1>0, <1>3 DEF PassCalls, ProcessSound, CallDelta, app
  <2>2. [Next]_vars
    BY <2>1 DEF Next, Delta
  <2>3. ProcessSound' /\ AheadOfFile'
    BY <1>0, <2>1 DEF ProcessSound, AheadOfFile
  <2> QED
    BY <1>0, <2>1, <2>2, <2>3, RunningStep DEF FilesSound
<1>4. CASE PassFails
  <2>1. [Next]_vars /\ Exit /\ stage' = "idle" /\ UNCHANGED <<file, merged>>
    BY <1>4 DEF PassFails, DeltaFails, Next, Delta
  <2> QED
    BY <2>1, ExitStep
<1>5. CASE PassReturns
  <2>1. /\ proc = "pass" /\ DeltaReturns /\ stage = "answered"
        /\ st' = [plan |-> plan, cursor |-> reply.knowledge]
        /\ UNCHANGED <<proc, home, resumed, file, tmp, merged>>
    BY <1>5 DEF PassReturns, DeltaReturns
  <2>2. [Next]_vars
    BY <2>1 DEF Next, Delta
  <2>3. ProcessSound'
    BY <1>0, <2>1 DEF ProcessSound
  <2>4. ASSUME file # NoFile
        PROVE  st'.plan = file.plan /\ st'.cursor >= file.cursor
    <3>1. /\ st.plan = file.plan /\ st.cursor >= file.cursor
          /\ file.plan \in Plans /\ file.cursor \in Nat
      BY <1>0, <2>1, <2>4 DEF AheadOfFile, FilesSound, Reached, SyncState, Knowledge
    <3>2. plan = st.plan
      BY <1>0, <2>1, <3>1, SyncAssumption DEF StateSound, Attributable
    <3>3. reply.knowledge >= st.cursor /\ reply.knowledge \in Nat /\ st.cursor \in Nat
      BY <1>0, <2>1 DEF KnowledgeSound, TypeOK, SyncState, Knowledge
    <3> QED
      BY <2>1, <3>1, <3>2, <3>3
  <2>5. AheadOfFile'
    BY <2>1, <2>4 DEF AheadOfFile
  <2> QED
    BY <1>0, <2>1, <2>2, <2>3, <2>5, RunningStep DEF FilesSound
<1>6. CASE PassMerges
  <2>1. /\ proc = "pass" /\ Merge /\ stage = "merge" /\ stage' = "idle"
        /\ proc' = "save" /\ merged' = merged \cup {st}
        /\ UNCHANGED <<st, home, resumed, file, tmp>>
    BY <1>6 DEF PassMerges, Merge
  <2>2. [Next]_vars
    BY <2>1 DEF Next, Delta
  <2>3. Reached(st)'
    <3>1. st \in SyncState /\ st.plan # NoPlan /\ st.cursor \in 1..know[st.plan]
      BY <1>0, <2>1 DEF TypeOK, StateSound
    <3> QED
      BY <2>1, <3>1 DEF Reached, SyncState, Merge, server
  <2>4. ProcessSound' /\ AheadOfFile'
    BY <1>0, <2>1 DEF ProcessSound, AheadOfFile
  <2>5. \A m \in merged' : m \in merged \/ Reached(m)'
    BY <2>1, <2>3
  <2> QED
    BY <1>0, <2>1, <2>2, <2>4, <2>5, RunningStep DEF FilesSound
<1>7. CASE WriteTmp
  <2>1. /\ proc = "save" /\ stage = "idle" /\ [Next]_vars /\ UNCHANGED <<vars, file, merged>>
        /\ stage' = stage /\ st' = st
    BY <1>0, <1>7 DEF WriteTmp, ProcessSound, vars, call, app
  <2>2. CASE tmp' = st /\ proc' = "rename" /\ UNCHANGED <<home, resumed>>
    <3>1. ProcessSound' /\ AheadOfFile'
      BY <1>0, <2>1, <2>2 DEF ProcessSound, AheadOfFile
    <3> QED
      BY <1>0, <2>1, <2>2, <3>1, RunningStep DEF FilesSound
  <2>3. CASE Exit
    BY <2>1, <2>3, ExitStep
  <2> QED
    BY <1>7, <2>2, <2>3 DEF WriteTmp
<1>8. CASE Rename
  <2>1. /\ proc = "rename" /\ stage = "idle" /\ [Next]_vars /\ UNCHANGED merged
        /\ stage' = stage /\ st' = st /\ tmp = st /\ st \in merged
    BY <1>0, <1>8 DEF Rename, ProcessSound, vars, call, app
  <2>2. CASE file' = tmp /\ tmp' = NoFile /\ proc' = "sleep" /\ UNCHANGED <<home, resumed>>
    <3>1. ProcessSound'
      BY <1>0, <2>1, <2>2 DEF ProcessSound
    <3>2. AheadOfFile'
      BY <1>0, <2>1, <2>2 DEF AheadOfFile, TypeOK, SyncState, Knowledge
    <3> QED
      BY <1>0, <2>1, <2>2, <3>1, <3>2, RunningStep
  <2>3. CASE Exit /\ UNCHANGED disk
    BY <2>1, <2>3, ExitStep
  <2> QED
    BY <1>8, <2>2, <2>3 DEF Rename
<1>9. CASE Sleep
  <2>1. /\ proc = "sleep" /\ stage = "idle" /\ [Next]_vars /\ UNCHANGED <<file, tmp, merged>>
        /\ stage' = stage /\ st' = st
    BY <1>0, <1>9 DEF Sleep, ProcessSound, vars, call, app
  <2>2. CASE proc' = "pass" /\ UNCHANGED <<home, resumed>>
    <3>1. ProcessSound' /\ AheadOfFile'
      BY <1>0, <2>1, <2>2 DEF ProcessSound, AheadOfFile
    <3> QED
      BY <1>0, <2>1, <2>2, <3>1, RunningStep DEF FilesSound
  <2>3. CASE Exit
    BY <2>1, <2>3, ExitStep
  <2> QED
    BY <1>9, <2>2, <2>3 DEF Sleep
<1>10. CASE Crash
  BY <1>10, CrashStep
<1>11. CASE (Altered \/ Answer) /\ UNCHANGED <<process, disk, merged>>
  <2>1. /\ [Next]_vars /\ st' = st
        /\ stage = "idle" => stage' = "idle"
    BY <1>11 DEF Next, Altered, Alter, Answer, app, call
  <2>2. ProcessSound' /\ AheadOfFile'
    BY <1>0, <1>11, <2>1 DEF ProcessSound, AheadOfFile
  <2>3. CASE proc # "down"
    BY <1>0, <1>11, <2>1, <2>2, <2>3, RunningStep DEF FilesSound
  <2>4. CASE proc = "down"
    BY <1>0, <1>11, <2>1, <2>2, <2>4, RunningStep DEF FilesSound
  <2> QED
    BY <2>3, <2>4
<1>12. CASE UNCHANGED exampleVars
  <2>1. [Next]_vars
    BY <1>12 DEF exampleVars
  <2>2. ProcessSound' /\ AheadOfFile'
    BY <1>0, <1>12 DEF exampleVars, vars, app, call, ProcessSound, AheadOfFile
  <2> QED
    BY <1>0, <1>12, <2>1, <2>2, RunningStep DEF exampleVars, FilesSound
<1> QED
  BY <1>1, <1>2, <1>3, <1>4, <1>5, <1>6, <1>7, <1>8, <1>9, <1>10, <1>11, <1>12
     DEF ExampleNext

-----------------------------------------------------------------------------
\* In every behaviour the process, its state and its files agree.
THEOREM ExampleCorrect == ExampleSpec => []ExampleInvariant
<1>1. ExampleInit => ExampleInvariant
  BY ExampleInvariantInit
<1>2. ExampleInvariant /\ [ExampleNext]_exampleVars => ExampleInvariant'
  BY ExampleStep
<1> QED
  BY <1>1, <1>2, PTL DEF ExampleSpec

\* Whenever the process is killed, the state file is absent or holds, whole, a
\* state whose changes some process had merged before it was written.
THEOREM SavedCorrect == ExampleSpec => []SavedStateIsMerged
<1>1. ExampleInvariant => SavedStateIsMerged
  BY DEF ExampleInvariant, FilesSound, SavedStateIsMerged
<1> QED
  BY <1>1, ExampleCorrect, PTL

\* A process that found no state file holds a snapshot of its plan as long as it
\* runs, whatever earlier processes left.
THEOREM FirstProcessCorrect == ExampleSpec => []FirstProcessIsSnapshot
<1>1. ExampleInvariant => FirstProcessIsSnapshot
  BY DEF ExampleInvariant, FreshSound, FirstProcessIsSnapshot
<1> QED
  BY <1>1, ExampleCorrect, PTL

\* Over any number of processes the saved cursor keeps to one plan and never
\* falls back, whichever plan the list puts first at a start.
THEOREM SavedCursorCorrect == ExampleSpec => SavedCursorAdvances
<1>1. ExampleInvariant /\ [ExampleNext]_exampleVars => [SavedForward]_file
  <2> SUFFICES ASSUME ExampleInvariant, [ExampleNext]_exampleVars, file' # file,
                      file \in SyncState
               PROVE  SavedForward
    BY DEF SavedForward
  <2>1. Rename /\ file' = tmp
    BY DEF ExampleNext, exampleVars, process, disk, Boot, DeltaRefuses, PassCalls, PassFails,
           PassReturns, PassMerges, WriteTmp, Rename, Sleep, Crash
  <2>2. tmp = st /\ st \in SyncState /\ proc # "down" /\ file # NoFile
    BY <2>1, FileAssumption DEF Rename, ExampleInvariant, ProcessSound, Bookkeeping, TypeOK
  <2>3. st.plan = file.plan /\ st.cursor >= file.cursor
    BY <2>2 DEF ExampleInvariant, AheadOfFile
  <2> QED
    BY <2>1, <2>2, <2>3 DEF SavedForward
<1> QED
  BY <1>1, ExampleCorrect, PTL DEF ExampleSpec, SavedCursorAdvances
=============================================================================
