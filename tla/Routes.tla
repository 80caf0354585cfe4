-------------------------------- MODULE Routes -------------------------------
(***************************************************************************)
(* The API's routes as the coverage contract lists them, the paths the     *)
(* client builds, and the two servers that resolve them: the real one,     *)
(* which splits a path before it decodes it, and the fake one of the       *)
(* tests, which matches the decoded path.                                  *)
(*                                                                         *)
(* A path segment is the sequence of the strings between its slashes: an   *)
(* ordinary id is <<"a1">>, the empty one <<"">>, "a1/x" is <<"a1", "x">>. *)
(***************************************************************************)
EXTENDS Sequences, SequencesExt

Param == "{}"       \* a parameter of a path template

Row(id, verb, path, query, methods) ==
    [id |-> id, verb |-> verb, path |-> path, query |-> query, methods |-> methods]

\* The row of an operation below a plan, without and with query parameters.
Op(id, verb, path, methods) ==
    Row(id, verb, <<"plans", Param>> \o path, {}, methods)
OpQ(id, path, query, method) ==
    Row(id, "GET", <<"plans", Param>> \o path, query, {method})

deltaParams == {"last_knowledge_of_server"}
transactionFilterParams ==
    {"since_date", "until_date", "type", "last_knowledge_of_server"}

ClientRows == {
    Row("getUser", "GET", <<"user">>, {}, {"Client.User"}),
    Row("getPlans", "GET", <<"plans">>, {"include_accounts"}, {"Client.Plans"}) }

PlanRows == {
    OpQ("getPlanById", <<>>, deltaParams, "Plan.Export"),
    Op("getPlanSettingsById", "GET", <<"settings">>, {"Plan.Settings"}) }

MonthRows == {
    OpQ("getPlanMonths", <<"months">>, deltaParams, "MonthsService.List"),
    Op("getPlanMonth", "GET", <<"months", Param>>, {"MonthsService.Get"}) }

AccountRows == {
    OpQ("getAccounts", <<"accounts">>, deltaParams, "AccountsService.List"),
    Op("createAccount", "POST", <<"accounts">>, {"AccountsService.Create"}),
    Op("getAccountById", "GET", <<"accounts", Param>>, {"AccountsService.Get"}) }

CategoryRows == {
    OpQ("getCategories", <<"categories">>, deltaParams, "CategoriesService.List"),
    Op("createCategory", "POST", <<"categories">>, {"CategoriesService.Create"}),
    Op("getCategoryById", "GET", <<"categories", Param>>, {"CategoriesService.Get"}),
    Op("updateCategory", "PATCH", <<"categories", Param>>, {"CategoriesService.Update"}),
    Op("getMonthCategoryById", "GET", <<"months", Param, "categories", Param>>,
       {"CategoriesService.GetForMonth"}),
    Op("updateMonthCategory", "PATCH", <<"months", Param, "categories", Param>>,
       {"CategoriesService.Assign"}),
    Op("createCategoryGroup", "POST", <<"category_groups">>, {"CategoriesService.CreateGroup"}),
    Op("updateCategoryGroup", "PATCH", <<"category_groups", Param>>,
       {"CategoriesService.RenameGroup"}) }

PayeeRows == {
    OpQ("getPayees", <<"payees">>, deltaParams, "PayeesService.List"),
    Op("createPayee", "POST", <<"payees">>, {"PayeesService.Create"}),
    Op("getPayeeById", "GET", <<"payees", Param>>, {"PayeesService.Get"}),
    Op("updatePayee", "PATCH", <<"payees", Param>>, {"PayeesService.Rename"}) }

PayeeLocationRows == {
    Op("getPayeeLocations", "GET", <<"payee_locations">>, {"PayeeLocationsService.List"}),
    Op("getPayeeLocationById", "GET", <<"payee_locations", Param>>,
       {"PayeeLocationsService.Get"}),
    Op("getPayeeLocationsByPayee", "GET", <<"payees", Param, "payee_locations">>,
       {"PayeeLocationsService.ListByPayee"}) }

MoneyMovementRows == {
    Op("getMoneyMovements", "GET", <<"money_movements">>, {"MoneyMovementsService.List"}),
    Op("getMoneyMovementsByMonth", "GET", <<"months", Param, "money_movements">>,
       {"MoneyMovementsService.ListByMonth"}),
    Op("getMoneyMovementGroups", "GET", <<"money_movement_groups">>,
       {"MoneyMovementsService.ListGroups"}),
    Op("getMoneyMovementGroupsByMonth", "GET", <<"months", Param, "money_movement_groups">>,
       {"MoneyMovementsService.ListGroupsByMonth"}) }

TransactionRows == {
    OpQ("getTransactions", <<"transactions">>, transactionFilterParams,
        "TransactionsService.List"),
    Op("createTransaction", "POST", <<"transactions">>,
       {"TransactionsService.Create", "TransactionsService.CreateBatch"}),
    Op("updateTransactions", "PATCH", <<"transactions">>, {"TransactionsService.UpdateBatch"}),
    Op("importTransactions", "POST", <<"transactions", "import">>,
       {"TransactionsService.Import"}),
    Op("getTransactionById", "GET", <<"transactions", Param>>, {"TransactionsService.Get"}),
    Op("updateTransaction", "PUT", <<"transactions", Param>>, {"TransactionsService.Update"}),
    Op("deleteTransaction", "DELETE", <<"transactions", Param>>,
       {"TransactionsService.Delete"}) }

TransactionsOfRows == {
    OpQ("getTransactionsByAccount", <<"accounts", Param, "transactions">>,
        transactionFilterParams, "TransactionsService.ListByAccount"),
    OpQ("getTransactionsByCategory", <<"categories", Param, "transactions">>,
        transactionFilterParams, "TransactionsService.ListByCategory"),
    OpQ("getTransactionsByPayee", <<"payees", Param, "transactions">>,
        transactionFilterParams, "TransactionsService.ListByPayee"),
    OpQ("getTransactionsByMonth", <<"months", Param, "transactions">>,
        transactionFilterParams, "TransactionsService.ListByMonth") }

ScheduledRows == {
    OpQ("getScheduledTransactions", <<"scheduled_transactions">>, deltaParams,
        "ScheduledTransactionsService.List"),
    Op("createScheduledTransaction", "POST", <<"scheduled_transactions">>,
       {"ScheduledTransactionsService.Create"}),
    Op("getScheduledTransactionById", "GET", <<"scheduled_transactions", Param>>,
       {"ScheduledTransactionsService.Get"}),
    Op("updateScheduledTransaction", "PUT", <<"scheduled_transactions", Param>>,
       {"ScheduledTransactionsService.Update"}),
    Op("deleteScheduledTransaction", "DELETE", <<"scheduled_transactions", Param>>,
       {"ScheduledTransactionsService.Delete"}) }

Table == UNION {
    ClientRows, PlanRows, MonthRows, AccountRows, CategoryRows,
    PayeeRows, PayeeLocationRows, MoneyMovementRows,
    TransactionRows, TransactionsOfRows, ScheduledRows }

\* An ordinary argument is one non-empty string.
Ordinary(segment) == segment = <<segment[1]>> /\ segment[1] # ""

\* PathRegexp: a parameter stands for one non-empty string without a slash.
Matches(template, strings) ==
    /\ Len(template) = Len(strings)
    /\ \A i \in DOMAIN template :
          IF template[i] = Param THEN strings[i] # "" ELSE template[i] = strings[i]

-----------------------------------------------------------------------------
(* The client.  PathEscape is undone by decoding, but for the dot segments, *)
(* which it leaves as they are: a segment of a request is what it decodes   *)
(* to and whether its dots are escaped.                                     *)

Plain(s) == [text |-> s, dotsEscaped |-> FALSE]

\* Mutant: the segments are only percent-escaped, which leaves dots alone.
JoinPathPlain(segments) == [i \in DOMAIN segments |-> Plain(segments[i])]

\* Slashes are escaped, so a segment stays one; so are the dot segments.
JoinPath(segments) ==
    [i \in DOMAIN segments |-> [text |-> segments[i],
                                dotsEscaped |-> segments[i] \in {<<".">>, <<"..">>}]]

\* The guard of do: a suffix "/" or a "//" is where an empty segment was.
HasEmptySegment(path) == \E i \in DOMAIN path : path[i] = Plain(<<"">>)

-----------------------------------------------------------------------------
(* The servers.                                                             *)

Decode(segment) == segment.text

\* The real server drops empty and "." segments and resolves "..".
Resolved(before, segment) ==
    CASE segment \in {Plain(<<"">>), Plain(<<".">>)} -> before
      [] segment = Plain(<<"..">>) -> SubSeq(before, 1, Len(before) - 1)
      [] OTHER -> Append(before, segment)

Normalize(path) ==
    LET done[k \in 0..Len(path)] ==
            IF k = 0 THEN <<>> ELSE Resolved(done[k - 1], path[k])
    IN  done[Len(path)]

\* Then it decodes each segment; the values it binds to the parameters.
MatchesDecoded(template, path) ==
    /\ Len(template) = Len(path)
    /\ \A i \in DOMAIN template :
          template[i] = Param \/ <<template[i]>> = Decode(path[i])

Served(verb, path) ==
    {row \in Table : row.verb = verb /\ MatchesDecoded(row.path, Normalize(path))}

Bound(row, path) ==
    LET n == Normalize(path)
    IN  [i \in {j \in DOMAIN row.path : row.path[j] = Param} |-> Decode(n[i])]

\* Mutant: the verb not compared.
resolveAnyVerb(verb, path, wrapper) ==
    {row \in Table : Matches(row.path, FlattenSeq([i \in DOMAIN path |-> Decode(path[i])]))}

\* The fake server matches the decoded path, whose slashes are all alike,
\* and tells the two creates apart by the body's wrapper.
resolve(verb, path, wrapper) ==
    {row \in Table :
        /\ row.verb = verb
        /\ Matches(row.path, FlattenSeq([i \in DOMAIN path |-> Decode(path[i])]))
        /\ row.id = "createTransaction" => wrapper \in {"transaction", "transactions"}}
=============================================================================
