----------------------------- MODULE FakeServer ------------------------------
(***************************************************************************)
(* The fake API of the tests (internal/ynabtest): tests that share one     *)
(* server arm it with faults and call it through clients that retry.       *)
(* A fixture is named by the operation it belongs to and its variant.      *)
(***************************************************************************)
EXTENDS Requests, Errors

CONSTANTS Tests,        \* goroutines sharing the server
          Faults,       \* [status, id] a test may arm
          MaxFails,     \* bound: FailWith calls
          Attempts,     \* MaxAttempts of the tests' clients
          RetryWrites,  \* their RetryWrites
          Calls,        \* calls they may make
          Shared        \* bound: of them, those made in tests that run at once

\* A fault is an error of the API's, and its clients make some attempts.
ASSUME FaultsAssumption == /\ \A f \in Faults : f.status \in 400..599
                           /\ MaxFails \in Nat /\ Attempts \in Nat \ {0}
                           /\ RetryWrites \in BOOLEAN

\* Tests call the client's methods, with ordinary ids and with a month.
ASSUME CallsAssumption ==
    \A c \in Calls \cup Shared : /\ c.method \in Methods
                                 /\ Ordinary(c.plan) /\ Ordinary(c.id) /\ c.month # NoMonth

VARIABLES armed,    \* failStatus, failID and failName under mu
          given,    \* the faults armed so far; a fault's name is its number
          spent,    \* how often each of them was answered
          own,      \* each test's fault, while nothing else touched the server
          pc,       \* "idle", "sent", "taken", "answered", "returned"
          call, tries,
          hold,     \* the handler's copy of the fault
          answer    \* status, body and fixture

vars == <<armed, given, spent, own, pc, call, tries, hold, answer>>

NoFault == [status |-> 0, id |-> NoID, name |-> 0]
NoAnswer == [status |-> 0, body |-> [form |-> "other"], fixture |-> {}]
NoCall == [name |-> "none"]

Init == /\ armed = NoFault
        /\ given = <<>>
        /\ spent = [n \in 1..MaxFails |-> 0]
        /\ own = [t \in Tests |-> 0]
        /\ pc = [t \in Tests |-> "idle"]
        /\ call = [t \in Tests |-> NoCall]
        /\ tries = [t \in Tests |-> 0]
        /\ hold = [t \in Tests |-> NoFault]
        /\ answer = [t \in Tests |-> NoAnswer]

-----------------------------------------------------------------------------
(* The fixtures: 201 for what creates, a second one for the lists that are  *)
(* read by cursor and for a batch.                                          *)

Created == {"createAccount", "createCategory", "createCategoryGroup", "createPayee",
            "createTransaction", "importTransactions", "createScheduledTransaction"}
HasDelta == {"getPlanById", "getAccounts", "getCategories", "getPayees"}

Variant(row, c) ==
    CASE row.id \in HasDelta /\ "last_knowledge_of_server" \in DOMAIN Query(c) -> "delta"
      [] row.id = "createTransaction" /\ Body(c).wrapper = "transactions" -> "batch"
      [] OTHER -> "only"

routes(c) == resolve(c.method.verb, Path(c), Body(c).wrapper)

\* The route's fixture; no route is the API's own 404.
Serve(c) ==
    IF routes(c) = {}
    THEN [status |-> 404, body |-> [form |-> "error", id |-> "404.1"], fixture |-> {}]
    ELSE [status |-> IF \E row \in routes(c) : row.id \in Created THEN 201 ELSE 200,
          body |-> [form |-> "data"],
          fixture |-> {[op |-> row.id, variant |-> Variant(row, c)] : row \in routes(c)}]

-----------------------------------------------------------------------------
\* What one test does to the server takes the others' faults from them.
Disturb(t) == [u \in Tests |-> IF u = t THEN own[u] ELSE 0]

FailWith(t, f) ==
    /\ pc[t] = "idle"
    /\ Len(given) < MaxFails
    /\ armed' = [status |-> f.status, id |-> f.id, name |-> Len(given) + 1]
    /\ given' = Append(given, armed')
    /\ own' = [Disturb(t) EXCEPT ![t] = Len(given) + 1]
    /\ UNCHANGED <<spent, pc, call, tries, hold, answer>>

Call(t, c) == /\ pc[t] = "idle"
              /\ pc' = [pc EXCEPT ![t] = "sent"]
              /\ call' = [call EXCEPT ![t] = c]
              /\ tries' = [tries EXCEPT ![t] = 1]
              /\ UNCHANGED <<armed, given, spent, own, hold, answer>>

\* Mutant: the reset left to whoever answers, after the unlock.
TakeKeep(t) == /\ pc[t] = "sent"
               /\ hold' = [hold EXCEPT ![t] = armed]
               /\ pc' = [pc EXCEPT ![t] = "taken"]
               /\ own' = Disturb(t)
               /\ UNCHANGED <<armed, given, spent, call, tries, answer>>

\* handle, under the lock: the fault is taken and reset in one.
Take(t) == /\ pc[t] = "sent"
           /\ hold' = [hold EXCEPT ![t] = armed]
           /\ armed' = NoFault
           /\ pc' = [pc EXCEPT ![t] = "taken"]
           /\ own' = Disturb(t)
           /\ UNCHANGED <<given, spent, call, tries, answer>>

\* The rest of handle, without it.
Respond(t) ==
    /\ pc[t] = "taken"
    /\ pc' = [pc EXCEPT ![t] = "answered"]
    /\ IF hold[t].status # 0
       THEN /\ answer' = [answer EXCEPT ![t] =
                             [status |-> hold[t].status, body |-> [form |-> "error", id |-> hold[t].id],
                              fixture |-> {}]]
            /\ spent' = [spent EXCEPT ![hold[t].name] = @ + 1]
       ELSE answer' = [answer EXCEPT ![t] = Serve(call[t])] /\ UNCHANGED spent
    /\ UNCHANGED <<armed, given, own, call, tries, hold>>

retryVerb(verb) == RetryWrites \/ verb \in {"GET", "DELETE"}

\* The pipeline's verdict on an answer; the fake never asks for a wait.
\* Mutant: writes retried like reads.
RetriedAnyVerb(t) == answer[t].status \in {429, 500, 503}

Retried(t) == \/ answer[t].status = 429
              \/ answer[t].status \in {500, 503} /\ retryVerb(call[t].method.verb)

Judge(t) ==
    /\ pc[t] = "answered"
    /\ IF Retried(t) /\ tries[t] < Attempts
       THEN /\ pc' = [pc EXCEPT ![t] = "sent"]
            /\ tries' = [tries EXCEPT ![t] = @ + 1]
       ELSE pc' = [pc EXCEPT ![t] = "returned"] /\ UNCHANGED tries
    /\ UNCHANGED <<armed, given, spent, own, call, hold, answer>>

Finish(t) == /\ pc[t] = "returned"
             /\ pc' = [pc EXCEPT ![t] = "idle"]
             /\ call' = [call EXCEPT ![t] = NoCall]
             /\ own' = [own EXCEPT ![t] = 0]
             /\ hold' = [hold EXCEPT ![t] = NoFault]
             /\ answer' = [answer EXCEPT ![t] = NoAnswer]
             /\ UNCHANGED <<armed, given, spent, tries>>

\* Bound: a call that is not Shared is made while nobody else uses the server.
Idle == \A t \in Tests : pc[t] = "idle"
InTurn == \A t \in Tests : call[t] \in Shared \cup {NoCall}

Next == \E t \in Tests :
            \/ \E f \in Faults : InTurn /\ FailWith(t, f)
            \/ \E c \in Shared : InTurn /\ Call(t, c)
            \/ \E c \in Calls : given = <<>> /\ Idle /\ Call(t, c)
            \/ Take(t) \/ Respond(t) \/ Judge(t) \/ Finish(t)

Spec == Init /\ [][Next]_vars

Err(t) == Decoded(answer[t].status, answer[t].body)

-----------------------------------------------------------------------------
\* FailWith resets with the request it fails: however tests, attempts and
\* arming interleave, no fault fails two attempts.
FaultFailsOnce == \A n \in 1..MaxFails : spent[n] <= 1

\* A test that arms a fault and calls, nothing else touching the server, sees
\* that very fault, unless its client's retries ate it: then, and only then,
\* its call succeeds.
FaultReachesItsTest ==
    \A t \in Tests :
        pc[t] = "returned" /\ own[t] # 0 =>
            LET f == given[own[t]]
                eaten == Attempts > 1 /\ (\/ f.status = 429
                                          \/ /\ f.status \in {500, 503}
                                             /\ retryVerb(call[t].method.verb))
            IN  IF eaten THEN Err(t) = NoFailure
                ELSE Err(t).status = f.status /\ Lookup(sentinelByID, f.id) \subseteq Satisfies(Err(t))

\* What a test did not arm it gets from no other operation: one fixture, of
\* the operation its method belongs to, for its cursor and its batch.
FixtureOfItsOperation ==
    \A t \in Tests :
        pc[t] = "returned" /\ hold[t] = NoFault =>
            \E row \in Table : \E v \in {"only", "delta", "batch"} :
                /\ answer[t].fixture = {[op |-> row.id, variant |-> v]}
                /\ call[t].method.name \in row.methods
                /\ v = "batch" <=> call[t].method.name = "TransactionsService.CreateBatch"
                /\ v = "delta" => call[t].since # <<>>
                /\ Err(t) = NoFailure /\ (answer[t].status = 201 => call[t].method.verb = "POST")
=============================================================================
