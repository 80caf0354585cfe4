------------------------------ MODULE Requests -------------------------------
(***************************************************************************)
(* What each method of the client asks of the API: its verb, path, query   *)
(* and body, and the checks it makes before it asks.  A string is the      *)
(* number of its code points, the unit of the API's bounds; the verdict of *)
(* a check is the field it refuses, or Ok.                                 *)
(***************************************************************************)
EXTENDS Routes, Money, Calendar

CONSTANT Null       \* JSON null

Ok == "ok"

-----------------------------------------------------------------------------
(* Optional: unset, null or a value.                                        *)

Unset == [state |-> "unset"]
SetNull == [state |-> "null"]
Set(v) == [state |-> "value", value |-> v]

\* Mutant: omitted by value, so that a deliberate "" never reaches the wire.
OmittedByValue(o) == o.state = "unset" \/ (o.state = "value" /\ o.value = 0)
Omitted(o) == o.state = "unset"

\* MarshalJSON of a field that is not omitted.
Encoded(o) == IF o.state = "value" THEN o.value ELSE Null

\* A write model is its required fields "req" and its Optional ones "opt";
\* its JSON object has all of the first and the second that are not omitted.
NoFields == [k \in {} |-> 0]
Joined(f, g) == [k \in DOMAIN f \cup DOMAIN g |-> IF k \in DOMAIN f THEN f[k] ELSE g[k]]
Fields(x) == Joined(x.req, [k \in {f \in DOMAIN x.opt : ~Omitted(x.opt[f])} |-> Encoded(x.opt[k])])

-----------------------------------------------------------------------------
(* The validators.                                                          *)

importIDMax == 36
transactionPayeeNameMax == 200
memoMax == 500
payeeNameMax == 500
categoryGroupNameMax == 50

\* Mutant: off by one at the bound.
checkRuneMaxShort(field, s, limit) == IF s >= limit THEN field ELSE Ok

checkRuneMax(field, s, limit) == IF s > limit THEN field ELSE Ok

checkOptRuneMax(field, o, limit) ==
    IF o.state = "value" THEN checkRuneMax(field, o.value, limit) ELSE Ok

errFirst(errs) ==
    IF \A i \in DOMAIN errs : errs[i] = Ok THEN Ok
    ELSE errs[CHOOSE i \in DOMAIN errs : errs[i] # Ok /\ \A j \in 1..(i - 1) : errs[j] = Ok]

checkPayeeMemo(x) == errFirst(<<
    checkOptRuneMax("payee_name", x.opt.payee_name, transactionPayeeNameMax),
    checkOptRuneMax("memo", x.opt.memo, memoMax)>>)

\* Mutant: the legs' names and memos not looked at.
validateSpecTop(s) == errFirst(<<
    checkOptRuneMax("import_id", s.opt.import_id, importIDMax),
    checkPayeeMemo(s)>>)

validateSpec(s) ==
    LET splits == s.req.splits
        sum == SplitSum([i \in DOMAIN splits |-> splits[i].req.amount])
    IN  errFirst(<<
            checkOptRuneMax("import_id", s.opt.import_id, importIDMax),
            checkPayeeMemo(s),
            errFirst([i \in DOMAIN splits |-> checkPayeeMemo(splits[i])]),
            IF splits # <<>> /\ sum # s.req.amount THEN "amount" ELSE Ok>>)

\* An update is bounded; a patch has its identity besides, where a patch by
\* import id has its id empty, and the other way round.
validateUpdate(u) == checkPayeeMemo(u)

validatePatch(p) == errFirst(<<
    IF p.id = 0 /\ p.import_id = 0 THEN "id" ELSE Ok,
    checkRuneMax("import_id", p.import_id, importIDMax),
    validateUpdate(p)>>)

PatchByID(id, u) == [id |-> id, import_id |-> 0] @@ u
PatchByImportID(importID, u) == [id |-> 0, import_id |-> importID] @@ u

validateScheduled(s, today) ==
    errFirst(<<IF checkScheduledDate(s.req.date, today) # "ok" THEN "date" ELSE Ok,
               checkPayeeMemo(s)>>)

validateScheduledUpdate(u, today) ==
    LET date == u.opt.date
    IN  errFirst(<<IF date.state = "value" /\ checkScheduledDate(date.value, today) # "ok"
                   THEN "date" ELSE Ok,
                   checkPayeeMemo(u)>>)

\* The check that each kind of method makes of an item of its payload.
validateItem(kind, item, today) ==
    CASE kind = "specs" -> validateSpec(item)
      [] kind = "patches" -> validatePatch(item)
      [] kind = "update" -> validateUpdate(item)
      [] kind = "scheduled" -> validateScheduled(item, today)
      [] kind = "reschedule" -> validateScheduledUpdate(item, today)
      [] kind = "payee" -> checkRuneMax("name", item.req.name, payeeNameMax)
      [] kind = "group" -> checkRuneMax("name", item.req.name, categoryGroupNameMax)
      [] OTHER -> Ok

\* Mutant: a batch judged by its first item.
validateFirst(kind, items, today) ==
    IF items = <<>> THEN Ok ELSE validateItem(kind, items[1], today)

\* The whole of a batch is checked before any of it is sent.
validate(kind, items, today) ==
    errFirst([i \in DOMAIN items |-> validateItem(kind, items[i], today)])

-----------------------------------------------------------------------------
(* Queries: a function from parameters to values.                           *)

NoQuery == NoFields

\* Since options in order, the last wins; a cursor 0 is sent like any other.
applyListOptions(cursors) ==
    IF cursors = <<>> THEN NoQuery ELSE [last_knowledge_of_server |-> Last(cursors)]

\* Mutant: a filter's cursor left out of the query.
encodeCursorless(f) == [p \in {k \in DOMAIN f : f[k] # 0 /\ k # "last_knowledge_of_server"} |-> f[p]]

\* TransactionFilter.encode: the zero value of a field is no filter.
encode(f) == [p \in {k \in DOMAIN f : f[k] # 0} |-> f[p]]

IncludeAccounts(asked) == IF asked THEN [include_accounts |-> 1] ELSE NoQuery

-----------------------------------------------------------------------------
(* The methods.  A path names its dynamic segments; "query" says what tunes *)
(* the list, "check" what is validated, "body" the payload's wrapper.       *)

PlanArg == "@plan"
IdArg == "@id"
MonthArg == "@month"

Method(name, verb, path, query, check, body) ==
    [name |-> name, verb |-> verb, path |-> path, query |-> query, check |-> check, body |-> body]

Below(path) == <<"plans", PlanArg>> \o path

List(name, path, query) == Method(name, "GET", Below(path), query, "none", "none")
Get(name, path) == List(name, path, "none")
Write(name, verb, path, check, body) ==
    Method(name, verb, Below(path), "none", check, body)

ClientMethods == {
    Method("Client.User", "GET", <<"user">>, "none", "none", "none"),
    Method("Client.Plans", "GET", <<"plans">>, "accounts", "none", "none") }

ExportMethod == { List("Plan.Export", <<>>, "since") }
SettingsMethod == { Get("Plan.Settings", <<"settings">>) }

AccountsService == {
    List("AccountsService.List", <<"accounts">>, "since"),
    Get("AccountsService.Get", <<"accounts", IdArg>>),
    Write("AccountsService.Create", "POST", <<"accounts">>, "none", "account") }

CategoriesService == {
    List("CategoriesService.List", <<"categories">>, "since"),
    Get("CategoriesService.Get", <<"categories", IdArg>>),
    Get("CategoriesService.GetForMonth", <<"months", MonthArg, "categories", IdArg>>),
    Write("CategoriesService.Create", "POST", <<"categories">>, "none", "category"),
    Write("CategoriesService.Update", "PATCH", <<"categories", IdArg>>, "none", "category"),
    Write("CategoriesService.Assign", "PATCH", <<"months", MonthArg, "categories", IdArg>>, "none", "category"),
    Write("CategoriesService.CreateGroup", "POST", <<"category_groups">>, "group", "category_group"),
    Write("CategoriesService.RenameGroup", "PATCH", <<"category_groups", IdArg>>, "group", "category_group") }

PayeesService == {
    List("PayeesService.List", <<"payees">>, "since"),
    Get("PayeesService.Get", <<"payees", IdArg>>),
    Write("PayeesService.Create", "POST", <<"payees">>, "payee", "payee"),
    Write("PayeesService.Rename", "PATCH", <<"payees", IdArg>>, "payee", "payee") }

MonthsService == {
    List("MonthsService.List", <<"months">>, "since"),
    Get("MonthsService.Get", <<"months", MonthArg>>) }

MoneyMovementsService == {
    Get("MoneyMovementsService.List", <<"money_movements">>),
    Get("MoneyMovementsService.ListByMonth", <<"months", MonthArg, "money_movements">>),
    Get("MoneyMovementsService.ListGroups", <<"money_movement_groups">>),
    Get("MoneyMovementsService.ListGroupsByMonth", <<"months", MonthArg, "money_movement_groups">>) }

PayeeLocationsService == {
    Get("PayeeLocationsService.List", <<"payee_locations">>),
    Get("PayeeLocationsService.Get", <<"payee_locations", IdArg>>),
    Get("PayeeLocationsService.ListByPayee", <<"payees", IdArg, "payee_locations">>) }

TransactionReads == {
    List("TransactionsService.List", <<"transactions">>, "filter"),
    List("TransactionsService.ListByAccount", <<"accounts", IdArg, "transactions">>, "filter"),
    List("TransactionsService.ListByCategory", <<"categories", IdArg, "transactions">>, "filter"),
    List("TransactionsService.ListByPayee", <<"payees", IdArg, "transactions">>, "filter"),
    List("TransactionsService.ListByMonth", <<"months", MonthArg, "transactions">>, "filter"),
    Get("TransactionsService.Get", <<"transactions", IdArg>>) }

TransactionCreates == {
    Write("TransactionsService.Create", "POST", <<"transactions">>, "specs", "transaction"),
    Write("TransactionsService.CreateBatch", "POST", <<"transactions">>, "specs", "transactions") }

TransactionWrites == {
    Write("TransactionsService.Update", "PUT", <<"transactions", IdArg>>, "update", "transaction"),
    Write("TransactionsService.UpdateBatch", "PATCH", <<"transactions">>, "patches", "transactions"),
    Write("TransactionsService.Delete", "DELETE", <<"transactions", IdArg>>, "none", "none"),
    Write("TransactionsService.Import", "POST", <<"transactions", "import">>, "none", "none") }

ScheduledReads == {
    List("ScheduledTransactionsService.List", <<"scheduled_transactions">>, "since"),
    Get("ScheduledTransactionsService.Get", <<"scheduled_transactions", IdArg>>) }

ScheduledCreate == { Write("ScheduledTransactionsService.Create", "POST",
                           <<"scheduled_transactions">>, "scheduled", "scheduled_transaction") }

ScheduledWrites == {
    Write("ScheduledTransactionsService.Update", "PUT", <<"scheduled_transactions", IdArg>>, "reschedule", "scheduled_transaction"),
    Write("ScheduledTransactionsService.Delete", "DELETE", <<"scheduled_transactions", IdArg>>, "none", "none") }

Methods == UNION {
    ClientMethods, ExportMethod, SettingsMethod, AccountsService, CategoriesService,
    PayeesService, MonthsService, MoneyMovementsService, PayeeLocationsService,
    TransactionReads, TransactionCreates, TransactionWrites,
    ScheduledReads, ScheduledCreate, ScheduledWrites }

Takes(m, arg) == \E i \in DOMAIN m.path : m.path[i] = arg

-----------------------------------------------------------------------------
(* A call: a method with its arguments.                                     *)

\* A month as a path segment; no month would be an empty one.
MonthSegment(m) == IF m = NoMonth THEN <<"">>
                   ELSE IF m.current THEN <<"current">> ELSE <<"2024-06-01">>

Path(call) ==
    JoinPath([i \in DOMAIN call.method.path |->
        CASE call.method.path[i] = PlanArg  -> call.plan
          [] call.method.path[i] = IdArg    -> call.id
          [] call.method.path[i] = MonthArg -> MonthSegment(call.month)
          [] OTHER -> <<call.method.path[i]>>])

Query(call) == CASE call.method.query = "since"    -> applyListOptions(call.since)
                 [] call.method.query = "filter"   -> encode(call.filter)
                 [] call.method.query = "accounts" -> IncludeAccounts(call.accounts)
                 [] OTHER -> NoQuery

\* TransactionPatch.MarshalJSON: the id is the identity when there is one.
Identity(p) == IF p.id # 0 THEN [id |-> p.id] ELSE [import_id |-> p.import_id]

BodyItem(kind, item) ==
    CASE kind = "patches" -> Joined(Fields(item), Identity(item))
      [] kind = "specs" -> [Fields(item) EXCEPT !.splits =
                               [i \in DOMAIN item.req.splits |-> Fields(item.req.splits[i])]]
      [] OTHER -> Fields(item)

Body(call) == [wrapper |-> call.method.body,
               items |-> [i \in DOMAIN call.items |-> BodyItem(call.method.check, call.items[i])]]

\* What a method itself refuses, before it looks at the client.
Preflight(call, today) ==
    errFirst(<< IF Takes(call.method, MonthArg) /\ call.month = NoMonth THEN "month" ELSE Ok,
                validate(call.method.check, call.items, today) >>)
=============================================================================
