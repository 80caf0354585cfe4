------------------------------- MODULE MCClient ------------------------------
(***************************************************************************)
(* The options, ids, months, queries and payloads a client is tried with.  *)
(***************************************************************************)
EXTENDS Client

-----------------------------------------------------------------------------
(* Options.                                                                 *)

GoodURL == [parses |-> TRUE, user |-> FALSE, absolute |-> TRUE, host |-> TRUE,
            scheme |-> "http", query |-> FALSE, fragment |-> FALSE]

AllOptions ==
    [name : {"WithHTTPClient", "WithLimiter", "WithLogger"}, arg : {"nil", "custom"}]
    \cup [name : {"WithTimeout"}, arg : {"0s", "5s", "9s"}]
    \cup [name : {"WithRetryPolicy"}, arg : {"refused", "patient"}]
    \cup [name : {"WithUserAgent", "WithRetryDisabled", "Option"}, arg : {"custom"}]
    \cup [name : {"WithBaseURL"},
          arg : {GoodURL, [GoodURL EXCEPT !.scheme = "https"], [GoodURL EXCEPT !.scheme = "ftp"],
                 [GoodURL EXCEPT !.parses = FALSE], [GoodURL EXCEPT !.query = TRUE],
                 [GoodURL EXCEPT !.user = TRUE]}]

-----------------------------------------------------------------------------
(* Calls.                                                                   *)

Day(y, m, d) == [year |-> y, month |-> m, day |-> d]
Thursday == Day(2024, 2, 29)
JuneOf2024 == [year |-> 2024, month |-> 6, current |-> FALSE]

\* Ordinary, empty, the dot segments and one that reads like one escaped, one
\* with a slash, one like a route.
Ids == {<<"a1">>, <<"">>, <<".">>, <<"..">>, <<"%2E">>, <<"a1", "transactions">>, <<"import">>}
Months == {NoMonth, CurrentMonth, JuneOf2024}

Opts(limit) == {Unset, SetNull, Set(0), Set(limit), Set(limit + 1)}
Leg(amount, memo) == [req |-> [amount |-> amount],
                      opt |-> [payee_name |-> Set(transactionPayeeNameMax), memo |-> memo]]
SplitsOf7 == {<<>>, <<Leg(3, Unset), Leg(4, Set(0))>>, <<Leg(3, Unset), Leg(3, Unset)>>,
              <<Leg(3, Unset), Leg(4, Set(memoMax + 1))>>}
Splits == SplitsOf7 \cup {<<Leg(7, Unset), Leg(7, Unset)>>, <<Leg(7, SetNull), Leg(-7, Unset), Leg(7, Unset)>>,
                       <<Leg(31, Unset), Leg(31, Unset)>>}

Spec1(amount, importID, payee, memo, splits) ==
    [req |-> [amount |-> amount, splits |-> splits],
     opt |-> [import_id |-> importID, payee_name |-> payee, memo |-> memo]]
Specs == {Spec1(7, i, p, Unset, s) : i \in Opts(importIDMax),
                                     p \in Opts(transactionPayeeNameMax), s \in SplitsOf7}
         \cup {Spec1(a, Unset, Unset, m, s) : a \in {-2, 7}, m \in Opts(memoMax), s \in Splits}
FewSpecs == {Spec1(7, i, Unset, m, s) : i \in {SetNull, Set(importIDMax + 1)},
                                        m \in {Unset, Set(0)}, s \in SplitsOf7}

Updates == [req : {NoFields}, opt : [payee_name : Opts(transactionPayeeNameMax), memo : Opts(memoMax)]]
FewUpdates == [req : {NoFields}, opt : [payee_name : {Unset, Set(201)}, memo : {SetNull, Set(0)}]]
Patches == {PatchByID(id, u) : id \in {0, 40}, u \in FewUpdates}
           \cup {PatchByImportID(id, u) : id \in {0, 36, 37}, u \in FewUpdates}

Dates == {NoDate, Day(2024, 2, 28), Thursday, Day(2029, 2, 28), Day(2029, 3, 1), Day(2029, 3, 2)}
PayeeMemos == [payee_name : {Unset, Set(200), Set(201)}, memo : {SetNull, Set(500), Set(501)}]
Scheduled == [req : [date : Dates], opt : PayeeMemos]
Reschedules == [req : {NoFields},
                opt : {[date |-> d] @@ pm : d \in {Unset, SetNull} \cup {Set(x) : x \in Dates},
                                            pm \in PayeeMemos}]
Names == [req : [name : {0, 50, 51, 500, 501}], opt : {NoFields}]

Items(m) == CASE m.body = "transaction" /\ m.check = "specs" -> {<<s>> : s \in Specs}
              [] m.body # "transaction" /\ m.check = "specs" -> BoundedSeq(FewSpecs, 2)
              [] m.check = "patches" -> BoundedSeq(Patches, 2)
              [] m.check = "update" -> {<<u>> : u \in Updates}
              [] m.check = "scheduled" -> {<<s>> : s \in Scheduled}
              [] m.check = "reschedule" -> {<<u>> : u \in Reschedules}
              [] m.check \in {"payee", "group"} -> {<<n>> : n \in Names}
              [] OTHER -> {<<>>}

Cursors == {<<>>, <<0>>, <<5>>, <<5, 3>>}
Filters == [since_date : {0, 1}, until_date : {0, 2}, type : {0, 3}, last_knowledge_of_server : {0, 4}]

NoFilter == [f \in DOMAIN (CHOOSE f \in Filters : TRUE) |-> 0]
\* An ordinary call of a method, and the calls that vary its arguments.
Base(m, items) == [name |-> "method", method |-> m, plan |-> <<"p1">>, id |-> <<"a1">>,
                   month |-> JuneOf2024, since |-> <<>>, filter |-> NoFilter,
                   accounts |-> FALSE, items |-> items]

CallsOf(m) ==
    LET c == Base(m, CHOOSE items \in Items(m) : validate(m.check, items, Thursday) = Ok)
    IN  {Base(m, items) : items \in Items(m)}
        \cup {[c EXCEPT !.plan = p, !.id = i, !.month = mo] :
                 p \in IF Takes(m, PlanArg) THEN Ids ELSE {c.plan},
                 i \in IF Takes(m, IdArg) THEN Ids ELSE {c.id},
                 mo \in IF Takes(m, MonthArg) THEN Months ELSE {c.month}}
        \cup (IF m.query = "since" THEN {[c EXCEPT !.since = s] : s \in Cursors} ELSE {})
        \cup (IF m.query = "filter" THEN {[c EXCEPT !.filter = f] : f \in Filters} ELSE {})
        \cup (IF m.query = "accounts" THEN {[c EXCEPT !.accounts = a] : a \in BOOLEAN} ELSE {})

AllCalls == UNION {CallsOf(m) : m \in Methods}

\* A few calls for the clients of every configuration: one sent, one refused
\* by its method and one by the guard.
FewCalls == {Base(m, <<>>) : m \in ClientMethods}
            \cup {[Base(m, <<>>) EXCEPT !.month = NoMonth] : m \in {x \in MonthsService : Takes(x, MonthArg)}}
            \cup {[Base(m, <<>>) EXCEPT !.plan = <<"">>] : m \in SettingsMethod}

SomeRawPaths == {<<Plain(<<"user">>)>>}
=============================================================================
