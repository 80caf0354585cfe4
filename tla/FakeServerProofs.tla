-------------------------- MODULE FakeServerProofs ---------------------------
(***************************************************************************)
(* Theorems about FakeServer, for any tests, any faults and any calls: a   *)
(* fault fails one attempt, the one it was meant for if nobody else        *)
(* touches the server, and every other one gets its operation's fixture.   *)
(***************************************************************************)
EXTENDS FakeServer, RequestsProofs

-----------------------------------------------------------------------------
(* The inductive invariant.                                                 *)

NamedFaults == [status : 400..599, id : {f.id : f \in Faults}, name : Nat]

\* A fault is at hand for the next request, or with a handler, under the name
\* it was given.
Known(x) == x = NoFault \/ \E n \in 1..Len(given) : x = given[n]

FaultsOK ==
    /\ given \in Seq(NamedFaults) /\ Len(given) <= MaxFails
    /\ \A n \in 1..Len(given) : given[n].name = n
    /\ Known(armed)
    /\ DOMAIN hold = Tests /\ \A t \in Tests : Known(hold[t])
    /\ spent \in [1..MaxFails -> Nat]
    /\ DOMAIN pc = Tests /\ DOMAIN own = Tests /\ DOMAIN tries = Tests
    /\ DOMAIN call = Tests /\ DOMAIN answer = Tests

\* The handler of t is about to answer fault n.
Held(t, n) == pc[t] = "taken" /\ hold[t].name = n

\* A fault is armed, with one handler, or spent, and never two of these.
OnePlace ==
    \A n \in 1..MaxFails :
        /\ spent[n] <= 1
        /\ n > Len(given) => spent[n] = 0
        /\ armed.name = n => spent[n] = 0
        /\ \A t \in Tests : Held(t, n) => spent[n] = 0 /\ armed.name # n
        /\ \A t, u \in Tests : Held(t, n) /\ Held(u, n) => t = u

\* The client of t retries when it sees the fault f.
Eaten(t, f) == Attempts > 1 /\ (\/ f.status = 429
                                \/ /\ f.status \in {500, 503}
                                   /\ retryVerb(call[t].method.verb))

Injected(f) == [status |-> f.status, body |-> [form |-> "error", id |-> f.id], fixture |-> {}]

\* The fault on its way to the test that armed it, while nobody else does
\* anything to the server: at hand, with its handler, answered; and, when the
\* client eats it, gone, with the real answer on its way.
FaultOnItsWay(t, f) ==
    /\ pc[t] = "idle" => armed = f
    /\ pc[t] # "idle" => call[t] \in Shared
    /\ pc[t] = "sent" => \/ tries[t] = 1 /\ armed = f
                         \/ tries[t] = 2 /\ armed = NoFault /\ Eaten(t, f)
    /\ pc[t] = "taken" => \/ tries[t] = 1 /\ armed = NoFault /\ hold[t] = f
                          \/ tries[t] = 2 /\ armed = NoFault /\ hold[t] = NoFault /\ Eaten(t, f)
    /\ pc[t] = "answered" => \/ tries[t] = 1 /\ armed = NoFault /\ answer[t] = Injected(f)
                             \/ tries[t] = 2 /\ answer[t] = Serve(call[t]) /\ Eaten(t, f)
    /\ pc[t] = "returned" => IF Eaten(t, f) THEN answer[t] = Serve(call[t])
                             ELSE answer[t] = Injected(f)

OwnSound ==
    \A t \in Tests : own[t] # 0 => /\ own[t] \in 1..Len(given)
                                   /\ FaultOnItsWay(t, given[own[t]])

Stages == \A t \in Tests : pc[t] \in {"idle", "sent", "taken", "answered", "returned"}

FaultInvariant == FaultsOK /\ Stages /\ OnePlace /\ OwnSound

-----------------------------------------------------------------------------
\* No fault armed, no call made.
LEMMA FaultInit == Init => FaultInvariant
<1> SUFFICES ASSUME Init PROVE FaultInvariant
  OBVIOUS
<1>1. FaultsOK
  BY FaultsAssumption DEF Init, FaultsOK, Known
<1>2. Stages /\ OnePlace /\ OwnSound
  BY FaultsAssumption DEF Init, Stages, OnePlace, OwnSound, Held, NoFault
<1> QED
  BY <1>1, <1>2 DEF FaultInvariant

\* A fault's name is its place among those armed, none is that of no fault.
LEMMA KnownNames ==
    ASSUME FaultsOK, NEW x, Known(x)
    PROVE  /\ x = NoFault \/ (x.name \in 1..Len(given) /\ x = given[x.name] /\ x.status \in 400..599)
           /\ x.status # 0 <=> x # NoFault
           /\ Len(given) \in Nat /\ 1..Len(given) \subseteq 1..MaxFails
<1>1. Len(given) \in Nat /\ Len(given) <= MaxFails /\ MaxFails \in Nat
  BY FaultsAssumption DEF FaultsOK
<1>2. NoFault.status = 0
  BY DEF NoFault
<1>3. CASE x # NoFault
  <2>1. PICK n \in 1..Len(given) : x = given[n]
    BY <1>3 DEF Known
  <2>2. given[n] \in NamedFaults /\ given[n].name = n
    BY <1>1, <2>1 DEF FaultsOK
  <2>3. x.name = n /\ x = given[x.name] /\ x.name \in 1..Len(given)
    BY <2>1, <2>2
  <2>4. x.status \in 400..599 /\ x.status # 0
    <3>1. \A y \in NamedFaults : y.status \in 400..599
      BY DEF NamedFaults
    <3>2. given[n].status \in 400..599
      BY <2>2, <3>1
    <3>3. \A i \in 400..599 : i # 0
      OBVIOUS
    <3> QED
      BY <2>1, <3>2, <3>3
  <2> QED
    BY <1>1, <1>3, <2>3, <2>4
<1> QED
  BY <1>1, <1>2, <1>3

-----------------------------------------------------------------------------
(* Arming.                                                                  *)

\* FailWith gives the fault the next name and leaves the earlier ones theirs.
LEMMA Armed ==
    ASSUME FaultsOK, NEW t \in Tests, NEW f \in Faults, FailWith(t, f)
    PROVE  /\ armed'.name = Len(given) + 1 /\ armed'.status = f.status
           /\ given' \in Seq(NamedFaults) /\ Len(given') = Len(given) + 1
           /\ Len(given) + 1 <= MaxFails
           /\ given'[Len(given) + 1] = armed'
           /\ \A n \in 1..Len(given) : given'[n] = given[n]
           /\ \A x : Known(x) => Known(x)'
           /\ Known(armed)'
<1>1. Len(given) \in Nat /\ given \in Seq(NamedFaults) /\ MaxFails \in Nat
  BY FaultsAssumption DEF FaultsOK
<1>2. /\ armed' = [status |-> f.status, id |-> f.id, name |-> Len(given) + 1]
      /\ given' = Append(given, armed') /\ Len(given) + 1 <= MaxFails
  BY <1>1, FaultsAssumption DEF FailWith
<1>3. armed' \in NamedFaults
  BY <1>1, <1>2, FaultsAssumption DEF NamedFaults
<1>4. /\ given' \in Seq(NamedFaults) /\ Len(given') = Len(given) + 1
      /\ given'[Len(given) + 1] = armed'
      /\ \A n \in 1..Len(given) : given'[n] = given[n]
  BY <1>1, <1>2, <1>3
<1>5. \A x : Known(x) => Known(x)'
  BY <1>1, <1>4 DEF Known
<1>6. Known(armed)'
  BY <1>1, <1>4 DEF Known
<1> QED
  BY <1>2, <1>4, <1>5, <1>6

-----------------------------------------------------------------------------
(* The types.                                                               *)

\* Nothing invents a fault or a name.
LEMMA FaultsStep == FaultsOK /\ Stages /\ [Next]_vars => FaultsOK' /\ Stages'
<1> SUFFICES ASSUME FaultsOK, Stages, [Next]_vars
             PROVE  FaultsOK' /\ Stages'
  OBVIOUS
<1>1. ASSUME NEW t \in Tests, NEW f \in Faults, FailWith(t, f)
      PROVE  FaultsOK' /\ Stages'
  <2>1. \A n \in 1..Len(given') : given'[n].name = n
    <3>1. Len(given) \in Nat
      BY DEF FaultsOK
    <3> QED
      BY <1>1, <3>1, Armed DEF FaultsOK
  <2>2. /\ UNCHANGED <<spent, pc, call, tries, hold, answer>>
        /\ DOMAIN own' = Tests
    BY <1>1 DEF FailWith, Disturb
  <2>3. Len(given') <= MaxFails /\ given' \in Seq(NamedFaults)
    BY <1>1, Armed
  <2>4. Known(armed)' /\ \A u \in Tests : Known(hold[u])'
    BY <1>1, <2>2, Armed DEF FaultsOK
  <2> QED
    BY <2>1, <2>2, <2>3, <2>4 DEF FaultsOK, Stages
<1>2. ASSUME NEW t \in Tests, NEW c, Call(t, c)
      PROVE  FaultsOK' /\ Stages'
  BY <1>2 DEF Call, FaultsOK, Stages, Known
<1>3. ASSUME NEW t \in Tests, Take(t)
      PROVE  FaultsOK' /\ Stages'
  BY <1>3 DEF Take, Disturb, FaultsOK, Stages, Known
<1>4. ASSUME NEW t \in Tests, Respond(t)
      PROVE  FaultsOK' /\ Stages'
  <2>1. spent' \in [1..MaxFails -> Nat]
    BY <1>4 DEF Respond, FaultsOK
  <2>2. DOMAIN answer' = Tests
    BY <1>4 DEF Respond, FaultsOK
  <2>3. /\ pc' = [pc EXCEPT ![t] = "answered"]
        /\ UNCHANGED <<armed, given, own, call, tries, hold>>
    BY <1>4 DEF Respond
  <2> QED
    BY <2>1, <2>2, <2>3 DEF FaultsOK, Stages, Known
<1>5. ASSUME NEW t \in Tests, Judge(t)
      PROVE  FaultsOK' /\ Stages'
  BY <1>5 DEF Judge, FaultsOK, Stages, Known
<1>6. ASSUME NEW t \in Tests, Finish(t)
      PROVE  FaultsOK' /\ Stages'
  BY <1>6 DEF Finish, FaultsOK, Stages, Known
<1>7. CASE UNCHANGED vars
  BY <1>7 DEF vars, FaultsOK, Stages, Known
<1> QED
  BY <1>1, <1>2, <1>3, <1>4, <1>5, <1>6, <1>7 DEF Next

-----------------------------------------------------------------------------
(* One place.                                                               *)

\* A fault moves from the server to a handler to an answer, each time leaving
\* where it was: the reset is under the lock that takes it.
LEMMA OnePlaceStep == FaultsOK /\ Stages /\ OnePlace /\ [Next]_vars => OnePlace'
<1> SUFFICES ASSUME FaultsOK, Stages, OnePlace, [Next]_vars
             PROVE  OnePlace'
  OBVIOUS
<1>0. Len(given) \in Nat /\ MaxFails \in Nat
  BY FaultsAssumption DEF FaultsOK
<1>1. ASSUME NEW t \in Tests, NEW f \in Faults, FailWith(t, f)
      PROVE  OnePlace'
  <2>1. \A u \in Tests, n \in 1..MaxFails : Held(u, n)' = Held(u, n)
    BY <1>1 DEF FailWith, Held
  <2>2. \A u \in Tests, n \in 1..MaxFails : Held(u, n) => n # Len(given) + 1
    <3> SUFFICES ASSUME NEW u \in Tests, NEW n \in 1..MaxFails, Held(u, n)
                 PROVE  n <= Len(given)
      BY <1>0
    <3>1. hold[u] # NoFault
      BY DEF Held, NoFault
    <3> QED
      BY <1>0, <3>1, KnownNames DEF FaultsOK, Held
  <2>3. armed'.name = Len(given) + 1 /\ Len(given') = Len(given) + 1 /\ spent' = spent
    BY <1>1, Armed DEF FailWith
  <2> QED
    BY <1>0, <2>1, <2>2, <2>3 DEF OnePlace
<1>2. ASSUME NEW t \in Tests, NEW c, Call(t, c)
      PROVE  OnePlace'
  BY <1>2 DEF Call, OnePlace, Held, FaultsOK
<1>3. ASSUME NEW t \in Tests, Take(t)
      PROVE  OnePlace'
  <2>1. /\ \A u \in Tests : pc'[u] = IF u = t THEN "taken" ELSE pc[u]
        /\ \A u \in Tests : hold'[u] = IF u = t THEN armed ELSE hold[u]
        /\ armed' = NoFault /\ UNCHANGED <<given, spent>>
    BY <1>3 DEF Take, FaultsOK
  <2>2. armed'.name = 0
    BY <2>1 DEF NoFault
  <2>3. \A u \in Tests, n \in 1..MaxFails :
            Held(u, n)' <=> IF u = t THEN armed.name = n ELSE Held(u, n)
    BY <2>1 DEF Held
  <2> QED
    BY <2>1, <2>2, <2>3 DEF OnePlace
<1>4. ASSUME NEW t \in Tests, Respond(t)
      PROVE  OnePlace'
  <2>1. /\ \A u \in Tests : pc'[u] = IF u = t THEN "answered" ELSE pc[u]
        /\ pc[t] = "taken" /\ UNCHANGED <<armed, given, hold>>
    BY <1>4 DEF Respond, FaultsOK
  <2>2. \A u \in Tests, n \in 1..MaxFails : Held(u, n)' <=> (u # t /\ Held(u, n))
    BY <2>1 DEF Held
  <2>3. CASE hold[t].status # 0
    <3>1. /\ hold[t].name \in 1..MaxFails /\ hold[t].name <= Len(given)
          /\ Held(t, hold[t].name)
      BY <1>0, <2>1, <2>3, KnownNames DEF FaultsOK, Held
    <3>2. \A n \in 1..MaxFails : spent'[n] = IF n = hold[t].name THEN spent[n] + 1 ELSE spent[n]
      BY <1>4, <2>3 DEF Respond, FaultsOK
    <3> QED
      BY <1>0, <2>1, <2>2, <3>1, <3>2 DEF OnePlace
  <2>4. CASE hold[t].status = 0
    <3>1. spent' = spent
      BY <1>4, <2>4 DEF Respond
    <3> QED
      BY <2>1, <2>2, <3>1 DEF OnePlace
  <2> QED
    BY <2>3, <2>4
<1>5. ASSUME NEW t \in Tests, Judge(t)
      PROVE  OnePlace'
  BY <1>5 DEF Judge, OnePlace, Held, FaultsOK
<1>6. ASSUME NEW t \in Tests, Finish(t)
      PROVE  OnePlace'
  <2>1. /\ \A u \in Tests : pc'[u] = IF u = t THEN "idle" ELSE pc[u]
        /\ \A u \in Tests : u # t => hold'[u] = hold[u]
        /\ UNCHANGED <<armed, given, spent>>
    BY <1>6 DEF Finish, FaultsOK
  <2>2. \A u \in Tests, n \in 1..MaxFails : Held(u, n)' => Held(u, n)
    BY <2>1 DEF Held
  <2> QED
    BY <2>1, <2>2 DEF OnePlace
<1>7. CASE UNCHANGED vars
  BY <1>7 DEF vars, OnePlace, Held
<1> QED
  BY <1>1, <1>2, <1>3, <1>4, <1>5, <1>6, <1>7 DEF Next

-----------------------------------------------------------------------------
(* The fixtures.                                                            *)

\* What creates is a POST, and what has a second fixture is read by cursor.
LEMMA RowsOfFixtures ==
    \A row \in Table : /\ row.id \in Created => row.verb = "POST"
                       /\ row.id \in HasDelta => row.query = deltaParams
                       /\ row.id \in HasDelta => row.id # "createTransaction"
<1>1. \A row \in Table : row.id \in Created => row.verb = "POST"
  BY DEF Table, ClientRows, PlanRows, MonthRows, AccountRows, CategoryRows, PayeeRows,
      PayeeLocationRows, MoneyMovementRows, TransactionRows, TransactionsOfRows, ScheduledRows,
      Op, OpQ, Row, Created
<1>2. \A row \in Table : row.id \in HasDelta => row.query = deltaParams
  BY DEF Table, ClientRows, PlanRows, MonthRows, AccountRows, CategoryRows, PayeeRows,
      PayeeLocationRows, MoneyMovementRows, TransactionRows, TransactionsOfRows, ScheduledRows,
      Op, OpQ, Row, HasDelta
<1>3. \A row \in Table : row.id \in HasDelta => row.id # "createTransaction"
  BY DEF HasDelta
<1> QED
  BY <1>1, <1>2, <1>3

\* A list that is read by cursor carries one when its caller gave one.
LEMMA CursorGiven ==
    ASSUME NEW c, NEW row \in Table, row.id \in HasDelta, Tunes(row, c.method),
           "last_knowledge_of_server" \in DOMAIN Query(c)
    PROVE  c.since # <<>>
<1>1. row.query = deltaParams
  BY RowsOfFixtures
<1>2. deltaParams # transactionFilterParams /\ deltaParams # {"include_accounts"} /\ deltaParams # {}
  BY DEF deltaParams, transactionFilterParams
<1>3. c.method.query = "since"
  BY <1>1, <1>2 DEF Tunes
<1>4. "last_knowledge_of_server" \in DOMAIN applyListOptions(c.since)
  BY <1>3 DEF Query
<1> QED
  BY <1>4 DEF applyListOptions, NoQuery, NoFields

\* What the fake serves for a call: one fixture, of the call's operation.
ItsFixture(c, row, v, served) ==
    /\ served = [status |-> IF row.id \in Created THEN 201 ELSE 200, body |-> [form |-> "data"],
                 fixture |-> {[op |-> row.id, variant |-> v]}]
    /\ row.id \in Created => c.method.verb = "POST"
    /\ c.method.name \in row.methods
    /\ v \in {"only", "delta", "batch"}
    /\ v = "batch" <=> c.method.name = "TransactionsService.CreateBatch"
    /\ v = "delta" => c.since # <<>>

LEMMA ServesItsFixture ==
    ASSUME NEW c \in Calls \cup Shared
    PROVE  \E row \in Table : \E v : ItsFixture(c, row, v, Serve(c))
<1>1. c.method \in Methods /\ Ordinary(c.plan) /\ Ordinary(c.id) /\ c.month # NoMonth
  BY CallsAssumption
<1>2. Body(c).wrapper = c.method.body
  BY DEF Body
<1>3. PICK row \in Table :
         /\ Offers(row, c.method) /\ Tunes(row, c.method) /\ SameRoute(row, c.method)
         /\ resolve(c.method.verb, Path(c), c.method.body) = {row}
  BY <1>1, ResolvedToItsRow
<1>4. routes(c) = {row}
  BY <1>2, <1>3 DEF routes
<1>5. PICK v : v = Variant(row, c)
  OBVIOUS
<1>6. Serve(c) = [status |-> IF row.id \in Created THEN 201 ELSE 200, body |-> [form |-> "data"],
                  fixture |-> {[op |-> row.id, variant |-> v]}]
  BY <1>4, <1>5 DEF Serve
<1>7. row.id \in Created => c.method.verb = "POST"
  BY <1>3, RowsOfFixtures DEF SameRoute
<1>8. c.method.name \in row.methods
  BY <1>3 DEF Offers
<1>9. v \in {"only", "delta", "batch"} /\ (v = "delta" => c.since # <<>>)
  <2>1. CASE row.id \in HasDelta /\ "last_knowledge_of_server" \in DOMAIN Query(c)
    <3>1. v = "delta"
      BY <1>5, <2>1, RowsOfFixtures DEF Variant
    <3>2. c.since # <<>>
      BY <1>3, <2>1, CursorGiven
    <3> QED
      BY <3>1, <3>2
  <2>2. CASE ~(row.id \in HasDelta /\ "last_knowledge_of_server" \in DOMAIN Query(c))
    <3>1. v \in {"only", "batch"}
      BY <1>5, <2>2 DEF Variant
    <3> QED
      BY <3>1
  <2> QED
    BY <2>1, <2>2
<1>10. v = "batch" <=> c.method.name = "TransactionsService.CreateBatch"
  <2>1. v = "batch" <=> row.id = "createTransaction" /\ c.method.body = "transactions"
    BY <1>2, <1>5, RowsOfFixtures DEF Variant
  <2> QED
    BY <1>1, <1>8, <2>1, CreatesWrapped
<1> QED
  BY <1>6, <1>7, <1>8, <1>9, <1>10 DEF ItsFixture

LEMMA Served200 ==
    ASSUME NEW c \in Calls \cup Shared
    PROVE  Serve(c).status \in {200, 201} /\ Serve(c).body = [form |-> "data"]
  BY ServesItsFixture DEF ItsFixture

-----------------------------------------------------------------------------
(* The fault of a test that is alone with the server.                       *)

\* What the route of a call's method serves is no error and is not retried.
LEMMA Fixtures == ASSUME NEW c \in Shared
                PROVE  Serve(c).status \in {200, 201} /\ Serve(c).body = [form |-> "data"]
  BY Served200

\* A step that leaves the test and the server alone leaves the fault where it is.
LEMMA Alone ==
    ASSUME NEW t, NEW f, FaultOnItsWay(t, f), armed' = armed,
           pc'[t] = pc[t], call'[t] = call[t], tries'[t] = tries[t],
           hold'[t] = hold[t], answer'[t] = answer[t]
    PROVE  FaultOnItsWay(t, f)'
BY DEF FaultOnItsWay, Eaten

\* Every step of the test takes its fault one place on, or, when the client
\* retries, takes the real answer there.
LEMMA OwnStep == FaultInvariant /\ [Next]_vars => OwnSound'
<1> SUFFICES ASSUME FaultsOK, Stages, OnePlace, OwnSound, [Next]_vars
             PROVE  OwnSound'
  BY DEF FaultInvariant
<1>0. Len(given) \in Nat
  BY DEF FaultsOK
<1>a. SUFFICES ASSUME NEW u \in Tests, own'[u] # 0
               PROVE  (own[u] \in 1..Len(given) /\ FaultOnItsWay(u, given[own[u]]))'
  BY DEF OwnSound
<1>b. PICK m : m = own'[u]
  OBVIOUS
<1>c. PICK f : f = given'[m]
  OBVIOUS
<1>d. SUFFICES m \in 1..Len(given') /\ FaultOnItsWay(u, f)'
  BY <1>b, <1>c
<1>e. own[u] = m /\ given' = given => m \in 1..Len(given') /\ FaultOnItsWay(u, f)
  BY <1>a, <1>b, <1>c DEF OwnSound
<1>1. ASSUME NEW t \in Tests, NEW g \in Faults, FailWith(t, g)
      PROVE  m \in 1..Len(given') /\ FaultOnItsWay(u, f)'
  <2>1. u = t /\ m = Len(given) + 1
    BY <1>0, <1>1, <1>a, <1>b DEF FailWith, Disturb, FaultsOK
  <2>2. f = armed' /\ Len(given') = Len(given) + 1
    BY <1>1, <1>c, <2>1, Armed
  <2>3. pc'[u] = "idle"
    BY <1>1, <2>1 DEF FailWith
  <2> QED
    BY <1>0, <2>1, <2>2, <2>3 DEF FaultOnItsWay
<1>2. ASSUME NEW t \in Tests, NEW c, c \in Shared \/ given = <<>>, Call(t, c)
      PROVE  m \in 1..Len(given') /\ FaultOnItsWay(u, f)'
  <2>1. m \in 1..Len(given') /\ FaultOnItsWay(u, f) /\ armed' = armed
    BY <1>2, <1>b, <1>e DEF Call
  <2>2. CASE u = t
    <3>1. c \in Shared
      BY <1>2, <2>1 DEF Call
    <3>2. pc[u] = "idle" /\ pc'[u] = "sent" /\ call'[u] = c /\ tries'[u] = 1
      BY <1>2, <2>2 DEF Call, FaultsOK
    <3> QED
      BY <2>1, <3>1, <3>2 DEF FaultOnItsWay
  <2>3. CASE u # t
    BY <1>2, <2>1, <2>3, Alone DEF Call, FaultsOK
  <2> QED
    BY <2>2, <2>3
<1>3. ASSUME NEW t \in Tests, Take(t)
      PROVE  m \in 1..Len(given') /\ FaultOnItsWay(u, f)'
  <2>1. u = t /\ own[u] = m /\ given' = given
    BY <1>3, <1>a, <1>b DEF Take, Disturb
  <2>2. m \in 1..Len(given') /\ FaultOnItsWay(u, f)
    BY <1>e, <2>1
  <2>3. /\ pc[u] = "sent" /\ pc'[u] = "taken" /\ hold'[u] = armed /\ armed' = NoFault
        /\ UNCHANGED <<call, tries>>
    BY <1>3, <2>1 DEF Take, FaultsOK
  <2> QED
    BY <2>2, <2>3 DEF FaultOnItsWay, Eaten
<1>4. ASSUME NEW t \in Tests, Respond(t)
      PROVE  m \in 1..Len(given') /\ FaultOnItsWay(u, f)'
  <2>1. UNCHANGED <<armed, given, own, call, tries, hold>>
    BY <1>4 DEF Respond
  <2>2. m \in 1..Len(given') /\ FaultOnItsWay(u, f)
    BY <1>b, <1>e, <2>1
  <2>3. CASE u = t
    <3>1. pc[u] = "taken" /\ pc'[u] = "answered"
      BY <1>4, <2>3 DEF Respond, FaultsOK
    <3>2. answer'[u] = IF hold[u].status # 0 THEN Injected(hold[u]) ELSE Serve(call[u])
      BY <1>4, <2>3 DEF Respond, FaultsOK, Injected
    <3>3. f.status # 0
      <4>1. Known(f) /\ f # NoFault
        <5>1. m \in 1..Len(given) /\ f = given[m] /\ given[m].name = m /\ NoFault.name = 0
          BY <1>c, <2>1, <2>2 DEF FaultsOK, NoFault
        <5> QED
          BY <1>0, <5>1 DEF Known
      <4> QED
        BY <4>1, KnownNames
    <3>4. NoFault.status = 0
      BY DEF NoFault
    <3> QED
      BY <2>1, <2>2, <3>1, <3>2, <3>3, <3>4 DEF FaultOnItsWay, Eaten
  <2>4. CASE u # t
    <3>1. pc'[u] = pc[u] /\ answer'[u] = answer[u]
      BY <1>4, <2>4 DEF Respond, FaultsOK
    <3> QED
      BY <2>1, <2>2, <3>1, Alone
  <2> QED
    BY <2>3, <2>4
<1>5. ASSUME NEW t \in Tests, Judge(t)
      PROVE  m \in 1..Len(given') /\ FaultOnItsWay(u, f)'
  <2>1. UNCHANGED <<armed, given, own, call, hold, answer>>
    BY <1>5 DEF Judge
  <2>2. m \in 1..Len(given') /\ FaultOnItsWay(u, f)
    BY <1>b, <1>e, <2>1
  <2>3. CASE u = t
    <3>1. pc[u] = "answered" /\ call[u] \in Shared
      BY <1>5, <2>2, <2>3 DEF Judge, FaultOnItsWay
    <3>2. /\ Retried(u) /\ tries[u] < Attempts =>
                pc'[u] = "sent" /\ tries'[u] = tries[u] + 1
          /\ ~(Retried(u) /\ tries[u] < Attempts) => pc'[u] = "returned"
      BY <1>5, <2>3 DEF Judge, FaultsOK
    <3>3. CASE tries[u] = 1 /\ armed = NoFault /\ answer[u] = Injected(f)
      <4>1. Retried(u) /\ tries[u] < Attempts <=> Eaten(u, f)
        BY <3>3, FaultsAssumption DEF Retried, Eaten, Injected
      <4> QED
        BY <2>1, <2>2, <3>1, <3>2, <3>3, <4>1 DEF FaultOnItsWay, Eaten
    <3>4. CASE tries[u] = 2 /\ answer[u] = Serve(call[u]) /\ Eaten(u, f)
      <4>1. ~Retried(u)
        BY <3>1, <3>4, Fixtures DEF Retried
      <4> QED
        BY <2>1, <2>2, <3>1, <3>2, <3>4, <4>1 DEF FaultOnItsWay, Eaten
    <3> QED
      BY <2>2, <3>1, <3>3, <3>4 DEF FaultOnItsWay
  <2>4. CASE u # t
    <3>1. pc'[u] = pc[u] /\ tries'[u] = tries[u]
      BY <1>5, <2>4 DEF Judge, FaultsOK
    <3> QED
      BY <2>1, <2>2, <3>1, Alone
  <2> QED
    BY <2>3, <2>4
<1>6. ASSUME NEW t \in Tests, Finish(t)
      PROVE  m \in 1..Len(given') /\ FaultOnItsWay(u, f)'
  <2>1. u # t /\ own[u] = m /\ given' = given /\ armed' = armed
    BY <1>6, <1>a, <1>b DEF Finish, FaultsOK
  <2>2. /\ pc'[u] = pc[u] /\ call'[u] = call[u] /\ tries'[u] = tries[u]
        /\ hold'[u] = hold[u] /\ answer'[u] = answer[u]
    BY <1>6, <2>1 DEF Finish, FaultsOK
  <2> QED
    BY <1>e, <2>1, <2>2, Alone
<1>7. CASE UNCHANGED vars
  BY <1>7, <1>b, <1>e, Alone DEF vars
<1> QED
  BY <1>1, <1>2, <1>3, <1>4, <1>5, <1>6, <1>7 DEF Next

-----------------------------------------------------------------------------
(* The theorems.                                                            *)

\* A fault is always in one place, and what a test that has the server to
\* itself armed is on its way to it: FailWith, and handle's take and reset.
THEOREM FaultCorrect == Spec => []FaultInvariant
<1>1. Init => FaultInvariant
  BY FaultInit
<1>2. FaultInvariant /\ [Next]_vars => FaultInvariant'
  BY FaultsStep, OnePlaceStep, OwnStep DEF FaultInvariant
<1> QED
  BY <1>1, <1>2, PTL DEF Spec

\* However many tests share the server, however they interleave, no fault of
\* FailWith's is answered twice.
THEOREM FailsOnceCorrect == Spec => []FaultFailsOnce
<1>1. FaultInvariant => FaultFailsOnce
  BY DEF FaultInvariant, OnePlace, FaultFailsOnce
<1> QED
  BY <1>1, FaultCorrect, PTL

\* What the client makes of an answer: nothing of the real one, and of a fault
\* the API error that has its status and its sub-code.
LEMMA Answers ==
    /\ \A c \in Calls \cup Shared : Decoded(Serve(c).status, Serve(c).body) = NoFailure
    /\ \A f \in NamedFaults :
          LET err == Decoded(Injected(f).status, Injected(f).body)
          IN  err.status = f.status /\ Lookup(sentinelByID, f.id) \subseteq Satisfies(err)
<1>1. ASSUME NEW c \in Calls \cup Shared PROVE Decoded(Serve(c).status, Serve(c).body) = NoFailure
  <2>1. PICK s : s = Serve(c).status
    OBVIOUS
  <2>2. PICK b : b = [form |-> "data"]
    OBVIOUS
  <2>3. s \in 200..299 /\ Serve(c).body = b /\ b.form = "data"
    BY <2>1, <2>2, Served200
  <2> QED
    BY <2>1, <2>3 DEF Decoded, decodeData
<1>2. ASSUME NEW f \in NamedFaults
      PROVE  LET err == Decoded(Injected(f).status, Injected(f).body)
             IN  err.status = f.status /\ Lookup(sentinelByID, f.id) \subseteq Satisfies(err)
  <2>1. PICK b : b = [form |-> "error", id |-> f.id]
    OBVIOUS
  <2>2. Injected(f).status = f.status /\ Injected(f).body = b
    BY <2>1 DEF Injected
  <2>3. f.status \notin 200..299
    <3>1. \A x \in NamedFaults : x.status \in 400..599
      BY DEF NamedFaults
    <3> QED
      BY <3>1
  <2>4. PICK err : err = [chain |-> <<"api">>, status |-> f.status, id |-> f.id]
    OBVIOUS
  <2>5. Decoded(f.status, b) = err
    <3>1. decodeWireError(f.status, b) = err
      BY <2>1, <2>4 DEF decodeWireError
    <3> QED
      BY <2>1, <2>3, <3>1 DEF Decoded
  <2>6. err.status = f.status /\ err.id = f.id /\ "api" \in Layers(err)
    <3>1. err.chain = <<"api">> /\ 1 \in DOMAIN <<"api">> /\ <<"api">>[1] = "api"
      BY <2>4
    <3> QED
      BY <2>4, <3>1 DEF Layers, ToSet
  <2>7. Lookup(sentinelByID, f.id) \subseteq Satisfies(err)
    BY <2>6 DEF Satisfies
  <2> QED
    BY <2>2, <2>5, <2>6, <2>7
<1> QED
  BY <1>1, <1>2

\* A test that armed a fault and is alone with the server gets that fault's
\* status and sentinel from its call, and no error when its client's retries
\* ate the fault: handle answers what FailWith set, decodeWireError reads it.
THEOREM ReachesItsTestCorrect == Spec => []FaultReachesItsTest
<1>1. FaultInvariant => FaultReachesItsTest
  <2> SUFFICES ASSUME FaultsOK, OwnSound, NEW t \in Tests, pc[t] = "returned", own[t] # 0
               PROVE  IF Eaten(t, given[own[t]]) THEN Err(t) = NoFailure
                      ELSE /\ Err(t).status = given[own[t]].status
                           /\ Lookup(sentinelByID, given[own[t]].id) \subseteq Satisfies(Err(t))
    BY DEF FaultInvariant, FaultReachesItsTest, Eaten
  <2>1. PICK f : f = given[own[t]]
    OBVIOUS
  <2>2. own[t] \in 1..Len(given) /\ FaultOnItsWay(t, f)
    BY <2>1 DEF OwnSound
  <2>3. f \in NamedFaults
    BY <2>1, <2>2 DEF FaultsOK
  <2>4. call[t] \in Shared
    BY <2>2 DEF FaultOnItsWay
  <2>5. CASE Eaten(t, f)
    <3>1. answer[t] = Serve(call[t])
      BY <2>2, <2>5 DEF FaultOnItsWay
    <3> QED
      BY <2>1, <2>4, <2>5, <3>1, Answers DEF Err
  <2>6. CASE ~Eaten(t, f)
    <3>1. answer[t] = Injected(f)
      BY <2>2, <2>6 DEF FaultOnItsWay
    <3> QED
      BY <2>1, <2>3, <2>6, <3>1, Answers DEF Err
  <2> QED
    BY <2>5, <2>6
<1> QED
  BY <1>1, FaultCorrect, PTL

-----------------------------------------------------------------------------
(* What a test gets that no fault got in the way of.                        *)

\* An attempt that took no fault is answered with what its route serves.
AnswersServed ==
    \A t \in Tests :
        /\ pc[t] # "idle" => call[t] \in Calls \cup Shared
        /\ pc[t] \in {"answered", "returned"} /\ hold[t] = NoFault => answer[t] = Serve(call[t])

FixtureInvariant == FaultsOK /\ Stages /\ AnswersServed

\* A step of one test is none of another's.
LEMMA ServedStep == FixtureInvariant /\ [Next]_vars => FixtureInvariant'
<1> SUFFICES ASSUME FaultsOK, Stages, AnswersServed, [Next]_vars
             PROVE  AnswersServed'
  BY FaultsStep DEF FixtureInvariant
<1>0. /\ DOMAIN pc = Tests /\ DOMAIN call = Tests /\ DOMAIN hold = Tests /\ DOMAIN answer = Tests
  BY DEF FaultsOK
<1>1. ASSUME NEW t \in Tests, NEW f \in Faults, FailWith(t, f) PROVE AnswersServed'
  BY <1>1 DEF FailWith, AnswersServed
<1>2. ASSUME NEW t \in Tests, NEW c \in Calls \cup Shared, Call(t, c) PROVE AnswersServed'
  BY <1>0, <1>2 DEF Call, AnswersServed
<1>3. ASSUME NEW t \in Tests, Take(t) PROVE AnswersServed'
  BY <1>0, <1>3 DEF Take, AnswersServed
<1>4. ASSUME NEW t \in Tests, Respond(t) PROVE AnswersServed'
  <2>1. /\ pc[t] = "taken" /\ UNCHANGED <<call, hold>>
        /\ \A u \in Tests : pc'[u] = IF u = t THEN "answered" ELSE pc[u]
    BY <1>0, <1>4 DEF Respond
  <2>2. /\ \A u \in Tests : u # t => answer'[u] = answer[u]
        /\ hold[t].status = 0 => answer'[t] = Serve(call[t])
    BY <1>0, <1>4 DEF Respond
  <2>3. NoFault.status = 0
    BY DEF NoFault
  <2> QED
    BY <2>1, <2>2, <2>3 DEF AnswersServed
<1>5. ASSUME NEW t \in Tests, Judge(t) PROVE AnswersServed'
  BY <1>0, <1>5 DEF Judge, AnswersServed
<1>6. ASSUME NEW t \in Tests, Finish(t) PROVE AnswersServed'
  BY <1>0, <1>6 DEF Finish, AnswersServed
<1>7. CASE UNCHANGED vars
  BY <1>7 DEF vars, AnswersServed
<1> QED
  BY <1>1, <1>2, <1>3, <1>4, <1>5, <1>6, <1>7 DEF Next

\* Whatever tests share the server and whatever they call it with, a call that
\* met no fault is answered with one fixture, of the operation that the
\* contract lists its method under, for its cursor and its batch.
THEOREM FixtureCorrect == Spec => []FixtureOfItsOperation
<1>1. Init => FixtureInvariant
  <2>1. Init => AnswersServed
    BY DEF Init, AnswersServed
  <2> QED
    BY <2>1, FaultInit DEF FixtureInvariant, FaultInvariant
<1>2. FixtureInvariant => FixtureOfItsOperation
  <2> SUFFICES ASSUME AnswersServed, NEW t \in Tests, pc[t] = "returned", hold[t] = NoFault
               PROVE  \E row \in Table : \E v \in {"only", "delta", "batch"} :
                         /\ answer[t].fixture = {[op |-> row.id, variant |-> v]}
                         /\ call[t].method.name \in row.methods
                         /\ v = "batch" <=> call[t].method.name = "TransactionsService.CreateBatch"
                         /\ v = "delta" => call[t].since # <<>>
                         /\ Err(t) = NoFailure /\ (answer[t].status = 201 => call[t].method.verb = "POST")
    BY DEF FixtureInvariant, FixtureOfItsOperation
  <2>1. PICK c \in Calls \cup Shared : c = call[t] /\ answer[t] = Serve(c)
    BY DEF AnswersServed
  <2>2. PICK row \in Table : \E v : ItsFixture(c, row, v, Serve(c))
    BY <2>1, ServesItsFixture
  <2>3. PICK v : ItsFixture(c, row, v, Serve(c))
    BY <2>2
  <2>4. Err(t) = NoFailure
    BY <2>1, Answers DEF Err
  <2>5. /\ answer[t].fixture = {[op |-> row.id, variant |-> v]}
        /\ answer[t].status = 201 => call[t].method.verb = "POST"
    BY <2>1, <2>3 DEF ItsFixture
  <2> QED
    BY <2>1, <2>3, <2>4, <2>5 DEF ItsFixture
<1> QED
  BY <1>1, <1>2, ServedStep, PTL DEF Spec
=============================================================================
