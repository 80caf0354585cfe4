----------------------------- MODULE SyncStreams -----------------------------
(***************************************************************************)
(* Delta sync by the services' own lists: each list of a plan is a stream  *)
(* with its cursor in SyncState and its store, all of them counted by one  *)
(* server knowledge.  Streams are read concurrently and written to; one    *)
(* stream has one call at a time, as SyncState and the stores are the      *)
(* caller's to guard.                                                      *)
(*                                                                         *)
(* The application is the one the documentation and the examples describe: *)
(* it flattens groups, merges by id, starts a store anew with a full read  *)
(* and never takes a cursor from a zero knowledge or from a write.         *)
(***************************************************************************)
EXTENDS Integers, FiniteSets

CONSTANTS Streams,          \* a subset of Kinds
          Entities,         \* entity ids of a stream
          Groups, GroupOf,  \* the groups of categories, and each entity's
          Absent,           \* no entry in a store
          Tombstone,        \* an entity marked deleted in an answer
          Starts,           \* bound: the sets of entities a stream may start with
          MaxKnowledge      \* bound: changes of the plan

Kinds == {"transactions",   \* also accounts, payees and months
          "hybrid",         \* ListByCategory, ListByPayee: knowledge optional
          "categories",     \* nested in groups
          "scheduled"}      \* 404 while the plan never had any

ASSUME StreamsAssumption == /\ Streams \subseteq Kinds
                            /\ GroupOf \in [Entities -> Groups]
                            /\ Starts \subseteq SUBSET Entities
                            /\ MaxKnowledge \in Nat
                            /\ Absent \notin Nat /\ Tombstone \notin Nat

VARIABLES know,     \* the plan's server knowledge
          changed,  \* changed[s][e]: knowledge of e's last change, 0 if none
          alive,    \* alive[s][e]
          cursor,   \* SyncState
          store,    \* store[s][e]: the knowledge of the change it shows
          flight    \* flight[s]: the calls in progress on the stream

server == <<know, changed, alive>>
app == <<cursor, store>>
vars == <<server, app, flight>>

View(s) == [e \in Entities |-> IF alive[s][e] THEN changed[s][e] ELSE Absent]
Empty == [e \in Entities |-> Absent]

Init == /\ know = 1
        /\ \E S \in Starts : alive = [s \in Streams |-> [e \in Entities |-> e \in S]]
        /\ changed = [s \in Streams |-> [e \in Entities |-> IF alive[s][e] THEN 1 ELSE 0]]
        /\ cursor = [s \in Streams |-> 0]
        /\ store = [s \in Streams |-> Empty]
        /\ flight = [s \in Streams |-> {}]

-----------------------------------------------------------------------------
(* The server.                                                              *)

\* What does not exist cannot be edited, what is deleted does not come back.
Changes(s, e, lives) ==
    /\ know < MaxKnowledge
    /\ lives \/ alive[s][e]
    /\ lives => alive[s][e] \/ changed[s][e] = 0
    /\ know' = know + 1
    /\ changed' = [changed EXCEPT ![s][e] = know + 1]
    /\ alive' = [alive EXCEPT ![s][e] = lives]

\* Another client's change.
Alter(s, e, lives) == Changes(s, e, lives) /\ UNCHANGED <<app, flight>>

\* An answer nests entities in their groups; only categories have more than one.
Nest(s, batch) ==
    LET group(e) == IF s = "categories" THEN GroupOf[e] ELSE 0
    IN  [g \in {group(e) : e \in DOMAIN batch} |->
            [e \in {x \in DOMAIN batch : group(x) = g} |-> batch[e]]]

Batch(s, since) ==
    LET sent == IF since = 0 THEN {e \in Entities : alive[s][e]}
                             ELSE {e \in Entities : changed[s][e] > since}
    IN  [e \in sent |-> IF alive[s][e] THEN changed[s][e] ELSE Tombstone]

-----------------------------------------------------------------------------
(* The library: MergeByID over what a list or a write returns.              *)

\* Mutant: a tombstone stored as an entity's last state.
MergeByIDUpsert(local, batch) ==
    [e \in Entities |-> IF e \in DOMAIN batch /\ batch[e] # Tombstone THEN batch[e] ELSE local[e]]

MergeByID(local, batch) ==
    [e \in Entities |-> IF e \notin DOMAIN batch THEN local[e]
                        ELSE IF batch[e] = Tombstone THEN Absent ELSE batch[e]]

\* A folded 404 is an empty list with knowledge zero.
NeverHad(s) == \A e \in Entities : changed[s][e] = 0
Knowledges(s) == CASE s = "hybrid" -> {0, know}
                   [] s = "scheduled" /\ NeverHad(s) -> {0}
                   [] OTHER -> {know}

-----------------------------------------------------------------------------
(* The application.                                                         *)

\* Mutant: two calls of one stream overlap.
GuardedLoosely(s) == Cardinality(flight[s]) < 2
Guarded(s) == flight[s] = {}

\* Mutant: one cursor for all streams.
SinceShared(s) == CHOOSE c \in {cursor[t] : t \in Streams} : \A t \in Streams : cursor[t] <= c
Since(s) == cursor[s]

Read(s) == /\ Guarded(s)
           /\ flight' = [flight EXCEPT ![s] = @ \cup {[kind |-> "read", stage |-> "sent", since |-> Since(s)]}]
           /\ UNCHANGED <<server, app>>

Write(s, e, lives) ==
    /\ Guarded(s)
    /\ flight' = [flight EXCEPT ![s] =
                     @ \cup {[kind |-> "write", stage |-> "sent", entity |-> e, lives |-> lives]}]
    /\ UNCHANGED <<server, app>>

Reply(s, f, since, knowledge, groups) ==
    flight' = [flight EXCEPT ![s] = (@ \ {f}) \cup
                  {[kind |-> f.kind, stage |-> "answered", since |-> since,
                    knowledge |-> knowledge, groups |-> groups]}]

Answer(s, f) == /\ f.kind = "read" /\ f.stage = "sent"
                /\ \E k \in Knowledges(s) : Reply(s, f, f.since, k, Nest(s, Batch(s, f.since)))
                /\ UNCHANGED <<server, app>>

\* A write answers with the entity it left and the knowledge it made.
Apply(s, f) ==
    /\ f.kind = "write" /\ f.stage = "sent"
    /\ Changes(s, f.entity, f.lives)
    /\ Reply(s, f, 0, know', Nest(s, [e \in {f.entity} |-> IF f.lives THEN know' ELSE Tombstone]))
    /\ UNCHANGED app

\* The call failed, before or after the server did its part.
Fail(s, f) == /\ flight' = [flight EXCEPT ![s] = @ \ {f}]
              /\ UNCHANGED <<server, app>>

\* Mutant: the groups of an answer taken for the whole of them.
FlattenWholesale(groups) ==
    [e \in {x \in Entities : GroupOf[x] \in DOMAIN groups} |->
        IF e \in DOMAIN groups[GroupOf[e]] THEN groups[GroupOf[e]][e] ELSE Tombstone]

Flatten(groups) ==
    [e \in UNION {DOMAIN groups[g] : g \in DOMAIN groups} |->
        groups[CHOOSE g \in DOMAIN groups : e \in DOMAIN groups[g]][e]]

\* Mutants: a cursor from a write; a cursor from any knowledge at all.
AdoptedFromWrites(s, f) == IF f.knowledge = 0 THEN cursor[s] ELSE f.knowledge
AdoptedZero(s, f) == IF f.kind = "write" THEN cursor[s] ELSE f.knowledge

Adopted(s, f) == IF f.kind = "write" \/ f.knowledge = 0 THEN cursor[s] ELSE f.knowledge

\* Mutant: a full read merged into the store there is.
BaseKept(s, f) == store[s]

Base(s, f) == IF f.kind = "read" /\ f.since = 0 THEN Empty ELSE store[s]

Land(s, f) == /\ f.stage = "answered"
              /\ store' = [store EXCEPT ![s] = MergeByID(Base(s, f), Flatten(f.groups))]
              /\ cursor' = [cursor EXCEPT ![s] = Adopted(s, f)]
              /\ flight' = [flight EXCEPT ![s] = @ \ {f}]
              /\ UNCHANGED server

Answers(s) == \E f \in flight[s] : Answer(s, f)
Lands(s) == \E f \in flight[s] : Land(s, f)

Next == \E s \in Streams :
            \/ Read(s) \/ Answers(s) \/ Lands(s)
            \/ \E e \in Entities, lives \in BOOLEAN : Alter(s, e, lives) \/ Write(s, e, lives)
            \/ \E f \in flight[s] : Apply(s, f) \/ Fail(s, f)

Spec == Init /\ [][Next]_vars

\* The application polls every stream, whatever else it does with it; every
\* write comes to an end (RetryPipeline), if only by failing; and the network
\* now and then lets an exchange through.
Polling == /\ Spec
           /\ \A s \in Streams :
                  /\ SF_vars(Read(s)) /\ SF_vars(Answers(s)) /\ SF_vars(Lands(s))
                  /\ WF_vars(\E f \in flight[s] : f.kind = "write" /\ Fail(s, f))

-----------------------------------------------------------------------------
\* A cursor promises that nothing up to it will be asked for again: whatever
\* changed no later than a stream's cursor is in its store as it is on the
\* server, deletions too, however reads of other streams, writes, failures and
\* folded or knowledge-less answers come in between.
CursorSound ==
    \A s \in Streams, e \in Entities :
        cursor[s] # 0 /\ changed[s][e] <= cursor[s] => store[s][e] = View(s)[e]

\* A stream's cursor never falls back, so no change is ever sent twice to an
\* application that got it with a cursor.
CursorsAdvance == [][\A s \in Streams : cursor'[s] >= cursor[s]]_vars

\* When the plan no longer changes, every store ends up with its stream.
StreamsConverge == <>[](\A s \in Streams : store[s] = View(s))
=============================================================================
