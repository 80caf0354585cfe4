------------------------------- MODULE PlanSync ------------------------------
(***************************************************************************)
(* Delta sync: an application keeps a local store of a plan's entities with*)
(* Plan.Delta and MergeByID, its cursor in a SyncState.  The application   *)
(* is sequential (a SyncState is caller-synchronized) but free in which    *)
(* plan handle it calls; the plans change on the server at any moment, by  *)
(* other clients, also between a request and its answer.                   *)
(*                                                                         *)
(* An entity's content is identified with the server knowledge of its last *)
(* change.                                                                 *)
(***************************************************************************)
EXTENDS Integers

CONSTANTS Plans,            \* concrete plan ids
          Entities,         \* entity ids; a store may meet those of any plan
          NoPlan,           \* the empty plan id
          Absent,           \* no entry in a store
          Tombstone,        \* an entity marked deleted in an answer
          MaxKnowledge      \* bound: changes per plan

ASSUME SyncAssumption == /\ NoPlan \notin Plans
                         /\ MaxKnowledge \in Nat \ {0}
                         /\ Absent \notin Plans \X Nat
                         /\ Tombstone \notin Plans \X Nat

Knowledge == 0..MaxKnowledge
Content == Plans \X Knowledge
Store == [Entities -> Content \cup {Absent}]
NoStore == [e \in Entities |-> Absent]

\* SyncState: the plan cursor and the plan it belongs to; 0 is no cursor.
SyncState == [plan : Plans \cup {NoPlan}, cursor : Knowledge]
ZeroState == [plan |-> NoPlan, cursor |-> 0]

VARIABLES
    know,       \* know[p]: the server knowledge of plan p
    changed,    \* changed[p][e]: knowledge of e's last change, 0 if it never was
    alive,      \* alive[p][e]: e exists
    st,         \* the application's SyncState
    store,      \* the application's store
    stage,      \* "idle", "sent", "answered", "merge"
    plan,       \* the handle of the Delta call in progress
    reply,      \* the answer on its way, then the batch to be merged
    past        \* past[p][k]: the entities of plan p when its knowledge was k

server == <<know, changed, alive, past>>
app == <<st, store>>
call == <<stage, plan, reply>>
vars == <<server, app, call>>

View(p) == [e \in Entities |-> IF alive[p][e] THEN <<p, changed[p][e]>> ELSE Absent]

NoReply == [knowledge |-> 0, batch |-> [e \in {} |-> Tombstone]]

\* A plan exists with its first knowledge and, here, one of its entities.
Init ==
    /\ know = [p \in Plans |-> 1]
    /\ alive \in [Plans -> [Entities -> BOOLEAN]]
    /\ changed = [p \in Plans |-> [e \in Entities |-> IF alive[p][e] THEN 1 ELSE 0]]
    /\ past = [p \in Plans |-> [k \in Knowledge |-> IF k = 1 THEN View(p) ELSE NoStore]]
    /\ st = ZeroState
    /\ store = NoStore
    /\ stage = "idle"
    /\ plan = NoPlan
    /\ reply = NoReply

-----------------------------------------------------------------------------
(* The server.                                                              *)

\* Another client, or this one through another endpoint, creates, edits or
\* deletes e; an edit revives nothing that is deleted.
Alter(p, e, lives) ==
    /\ know[p] < MaxKnowledge
    /\ lives \/ alive[p][e]
    /\ lives => alive[p][e] \/ changed[p][e] = 0
    /\ know' = [know EXCEPT ![p] = @ + 1]
    /\ changed' = [changed EXCEPT ![p][e] = know[p] + 1]
    /\ alive' = [alive EXCEPT ![p][e] = lives]
    /\ past' = [past EXCEPT ![p][know[p] + 1] =
                   [View(p) EXCEPT ![e] = IF lives THEN <<p, know[p] + 1>> ELSE Absent]]
    /\ UNCHANGED <<app, call>>

\* A full read has what exists; a read since a cursor has what changed after
\* it, deletions as tombstones.
ExportBatch(p, since) ==
    LET sent == IF since = 0 THEN {e \in Entities : alive[p][e]}
                             ELSE {e \in Entities : changed[p][e] > since}
    IN  [e \in sent |-> IF alive[p][e] THEN View(p)[e] ELSE Tombstone]

Answer ==
    /\ stage = "sent"
    /\ reply' = [knowledge |-> know[plan], batch |-> ExportBatch(plan, st.cursor)]
    /\ stage' = "answered"
    /\ UNCHANGED <<server, app, plan>>

-----------------------------------------------------------------------------
(* Plan.Delta and MergeByID.                                                *)

\* Mutants: a state of another plan accepted; one of no plan in particular; no
\* state accepted but the first.
AttributableAny(p) == st.plan = NoPlan => st.cursor = 0
AttributableUnnamed(p) == st.plan # NoPlan => st.plan = p
AttributableNew(p) == st.plan = NoPlan /\ st.cursor = 0

\* Delta's pre-flight guards: the state is this plan's, or nobody's yet.
Attributable(p) ==
    /\ st.plan # NoPlan => st.plan = p
    /\ st.plan = NoPlan => st.cursor = 0

\* The request goes out with Since(st.Plan), which is omitted (a full read)
\* when the cursor is zero; the pipeline only reads st.
CallDelta(p) ==
    /\ stage = "idle"
    /\ Attributable(p)
    /\ stage' = "sent"
    /\ plan' = p
    /\ UNCHANGED <<server, app, reply>>

\* Mutant: *st moved before Export's error is looked at.
DeltaFailsAdvanced ==
    /\ stage \in {"sent", "answered"}
    /\ stage' = "idle"
    /\ plan' = NoPlan
    /\ reply' = NoReply
    /\ st' = [plan |-> plan, cursor |-> reply.knowledge]
    /\ UNCHANGED <<server, store>>

\* Export failed: retries spent, canceled, undecodable.
DeltaFails ==
    /\ stage \in {"sent", "answered"}
    /\ stage' = "idle"
    /\ plan' = NoPlan
    /\ reply' = NoReply
    /\ UNCHANGED <<server, app>>

\* Export succeeded: *st moves to the answer's knowledge.
DeltaReturns ==
    /\ stage = "answered"
    /\ st' = [plan |-> plan, cursor |-> reply.knowledge]
    /\ stage' = "merge"
    /\ UNCHANGED <<server, store, plan, reply>>

\* Mutant: deletions ignored.
MergeByIDUpsert(local, batch) ==
    [e \in Entities |-> IF e \notin DOMAIN batch \/ batch[e] = Tombstone
                        THEN local[e] ELSE batch[e]]

\* Tombstones delete, everything else upserts.
MergeByID(local, batch) ==
    [e \in Entities |-> IF e \notin DOMAIN batch THEN local[e]
                        ELSE IF batch[e] = Tombstone THEN Absent ELSE batch[e]]

Merge ==
    /\ stage = "merge"
    /\ store' = MergeByID(store, reply.batch)
    /\ stage' = "idle"
    /\ plan' = NoPlan
    /\ reply' = NoReply
    /\ UNCHANGED <<server, st>>

\* The application drops its state and its store together and starts over.
StartOver ==
    /\ stage = "idle"
    /\ st' = ZeroState
    /\ store' = NoStore
    /\ UNCHANGED <<server, call>>

\* The state comes back from where it was persisted without its plan id.
LosePlanID ==
    /\ stage = "idle"
    /\ st.plan # NoPlan
    /\ st' = [st EXCEPT !.plan = NoPlan]
    /\ UNCHANGED <<server, store, call>>

Delta == \/ \E p \in Plans : CallDelta(p)
         \/ DeltaFails \/ DeltaReturns \/ Merge

Altered == \E p \in Plans, e \in Entities, lives \in BOOLEAN : Alter(p, e, lives)

Next == Altered \/ Answer \/ Delta \/ StartOver \/ LosePlanID

Spec == Init /\ [][Next]_vars

\* An application that polls: it calls again whenever it is idle; the network,
\* however often it fails, now and then lets a whole exchange through.  Nothing
\* makes the plans change, and nothing keeps the application from starting over.
Polling ==
    /\ Spec
    /\ WF_vars(\E p \in Plans : CallDelta(p)) /\ WF_vars(Merge)
    /\ SF_vars(Answer) /\ SF_vars(DeltaReturns)

-----------------------------------------------------------------------------
TypeOK ==
    /\ know \in [Plans -> 1..MaxKnowledge]
    /\ changed \in [Plans -> [Entities -> Knowledge]]
    /\ alive \in [Plans -> [Entities -> BOOLEAN]]
    /\ past \in [Plans -> [Knowledge -> Store]]
    /\ st \in SyncState
    /\ store \in Store
    /\ stage \in {"idle", "sent", "answered", "merge"}
    /\ plan \in Plans \cup {NoPlan}
    /\ reply.knowledge \in Knowledge
    /\ DOMAIN reply.batch \subseteq Entities
    /\ \A e \in DOMAIN reply.batch : reply.batch[e] \in Content \cup {Tombstone}

\* The store with the batch that Delta has handed out folded in.
Merged == IF stage = "merge" THEN MergeByID(store, reply.batch) ELSE store

\* A state that names a plan and the store it goes with are, once the batch in
\* hand is merged, exactly the plan as it was at the state's cursor: nothing
\* missing, nothing of another plan, nothing that was deleted by then, however
\* many calls failed and whatever changed while they were under way.
StoreIsSnapshot == st.plan # NoPlan => Merged = past[st.plan][st.cursor]

\* Delta and MergeByID replicate a plan by snapshots that only move forward.
Replica == INSTANCE SnapshotReplica WITH
               Empty <- NoStore, plan <- st.plan, cursor <- st.cursor,
               replica <- Merged
ReplicatesBySnapshots == Replica!Spec

\* When its plan no longer changes, a polling application ends up with it,
\* provided that from some moment on it keeps a state that knows its plan.
KeepsItsState == /\ <>[][~StartOver /\ ~LosePlanID]_vars
                 /\ <>[](st.plan = NoPlan => st.cursor = 0)
PollingConverges == KeepsItsState => <>[](st.plan # NoPlan /\ Merged = View(st.plan))
=============================================================================
