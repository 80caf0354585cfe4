---------------------------- MODULE RequestsProofs ----------------------------
(***************************************************************************)
(* Theorems about Routes and Requests, for any call: what a method asks    *)
(* for is what the contract lists for it, and its path leads there and     *)
(* nowhere else, on the real server and on the fake one.                   *)
(***************************************************************************)
EXTENDS Requests, SequenceTheorems, WellFoundedInduction, TLAPS

-----------------------------------------------------------------------------
(* Induction, on sets of numbers.                                           *)

\* Every set of naturals has a least member.
LEMMA Least == ASSUME NEW T, T \subseteq Nat, T # {}
               PROVE  \E x \in T : \A y \in T : x <= y
<1>1. PICK R : R = OpToRel(<, Nat)
  OBVIOUS
<1>2. IsWellFoundedOn(R, Nat)
  BY <1>1, NatLessThanWellFounded
<1>3. PICK x \in T : \A y \in T : ~ (<<y, x>> \in R)
  BY <1>2, WFMin
<1>4. \A a, b \in Nat : a < b => <<a, b>> \in R
  BY <1>1 DEF OpToRel
<1>5. \A y \in T : ~(y < x)
  BY <1>3, <1>4
<1> QED
  BY <1>5

\* Induction on a set.
LEMMA Induction == ASSUME NEW T, 0 \in T, \A n \in Nat : n \in T => n + 1 \in T
                   PROVE  Nat \subseteq T
<1> SUFFICES ASSUME Nat \ T # {} PROVE FALSE
  OBVIOUS
<1>1. PICK n \in Nat \ T : \A k \in Nat \ T : n <= k
  BY Least
<1>2. n - 1 \in Nat /\ n - 1 \in T
  BY <1>1
<1>3. (n - 1) + 1 \in T
  BY <1>2
<1> QED
  BY <1>1, <1>3

-----------------------------------------------------------------------------
(* The methods.                                                             *)

\* The segments that a method's path is made of; none of them is empty.
Args == {PlanArg, IdArg, MonthArg}
Words == {"user", "plans", "settings", "accounts", "categories", "months", "category_groups",
          "payees", "payee_locations", "money_movements", "money_movement_groups",
          "transactions", "import", "scheduled_transactions"}
Segments == Words \cup Args

\* The two kinds of names are told apart by the wrapper.
WellFormed(m) == /\ m.path \in Seq(Segments)
                 /\ m.check = "payee" => m.body = "payee"
                 /\ m.check = "group" => m.body # "payee"

LEMMA NoneEmpty == "" \notin Segments
  BY DEF Segments, Words, Args, PlanArg, IdArg, MonthArg

\* A path below a plan has two segments more.
LEMMA BelowPlan == ASSUME NEW p \in Seq(Segments) PROVE Below(p) \in Seq(Segments)
<1>1. <<"plans", PlanArg>> \in Seq(Segments)
  <2>1. "plans" \in Segments /\ PlanArg \in Segments
    BY DEF Segments, Words, Args
  <2> QED
    BY <2>1
<1> QED
  BY <1>1 DEF Below

\* Methods are well formed when their paths and wrappers are.
LEMMA MethodWellFormed ==
    ASSUME NEW name, NEW verb, NEW path \in Seq(Segments), NEW query, NEW check, NEW body,
           check = "payee" => body = "payee", check = "group" => body # "payee"
    PROVE  WellFormed(Method(name, verb, path, query, check, body))
  BY DEF WellFormed, Method

LEMMA ReadWellFormed ==
    ASSUME NEW name, NEW path \in Seq(Segments), NEW query
    PROVE  WellFormed(List(name, path, query)) /\ WellFormed(Get(name, path))
<1>1. Below(path) \in Seq(Segments)
  BY BelowPlan
<1> QED
  BY <1>1 DEF WellFormed, List, Get, Method

LEMMA WriteWellFormed ==
    ASSUME NEW name, NEW verb, NEW path \in Seq(Segments), NEW check, NEW body,
           check = "payee" => body = "payee", check = "group" => body # "payee"
    PROVE  WellFormed(Write(name, verb, path, check, body))
<1>1. Below(path) \in Seq(Segments)
  BY BelowPlan
<1> QED
  BY <1>1 DEF WellFormed, Write, Method

\* Every method is well formed, service by service.
LEMMA MethodsWellFormed == \A m \in Methods : WellFormed(m)
<1>1. /\ "user" \in Segments /\ "plans" \in Segments /\ "settings" \in Segments
      /\ "accounts" \in Segments /\ "categories" \in Segments /\ "months" \in Segments
      /\ "category_groups" \in Segments /\ "payees" \in Segments
      /\ "payee_locations" \in Segments /\ "money_movements" \in Segments
      /\ "money_movement_groups" \in Segments /\ "transactions" \in Segments
      /\ "import" \in Segments /\ "scheduled_transactions" \in Segments
      /\ IdArg \in Segments /\ MonthArg \in Segments
  BY DEF Segments, Words, Args
<1>2. \A m \in ClientMethods : WellFormed(m)
  <2>1. <<"user">> \in Seq(Segments) /\ <<"plans">> \in Seq(Segments)
    BY <1>1
  <2> QED
    BY <2>1, MethodWellFormed DEF ClientMethods
<1>3. \A m \in ExportMethod \cup SettingsMethod : WellFormed(m)
  <2>1. <<>> \in Seq(Segments) /\ <<"settings">> \in Seq(Segments)
    BY <1>1
  <2> QED
    BY <2>1, ReadWellFormed DEF ExportMethod, SettingsMethod
<1>4. \A m \in AccountsService : WellFormed(m)
  <2>1. <<"accounts">> \in Seq(Segments) /\ <<"accounts", IdArg>> \in Seq(Segments)
    BY <1>1
  <2> QED
    BY <2>1, ReadWellFormed, WriteWellFormed DEF AccountsService
<1>5. \A m \in CategoriesService : WellFormed(m)
  <2>1. /\ <<"categories">> \in Seq(Segments) /\ <<"categories", IdArg>> \in Seq(Segments)
        /\ <<"months", MonthArg, "categories", IdArg>> \in Seq(Segments)
        /\ <<"category_groups">> \in Seq(Segments) /\ <<"category_groups", IdArg>> \in Seq(Segments)
    BY <1>1
  <2> QED
    BY <2>1, ReadWellFormed, WriteWellFormed DEF CategoriesService
<1>6. \A m \in PayeesService : WellFormed(m)
  <2>1. <<"payees">> \in Seq(Segments) /\ <<"payees", IdArg>> \in Seq(Segments)
    BY <1>1
  <2> QED
    BY <2>1, ReadWellFormed, WriteWellFormed DEF PayeesService
<1>7. \A m \in MonthsService : WellFormed(m)
  <2>1. <<"months">> \in Seq(Segments) /\ <<"months", MonthArg>> \in Seq(Segments)
    BY <1>1
  <2> QED
    BY <2>1, ReadWellFormed DEF MonthsService
<1>8. \A m \in MoneyMovementsService : WellFormed(m)
  <2>1. /\ <<"money_movements">> \in Seq(Segments) /\ <<"money_movement_groups">> \in Seq(Segments)
        /\ <<"months", MonthArg, "money_movements">> \in Seq(Segments)
        /\ <<"months", MonthArg, "money_movement_groups">> \in Seq(Segments)
    BY <1>1
  <2> QED
    BY <2>1, ReadWellFormed DEF MoneyMovementsService
<1>9. \A m \in PayeeLocationsService : WellFormed(m)
  <2>1. /\ <<"payee_locations">> \in Seq(Segments) /\ <<"payee_locations", IdArg>> \in Seq(Segments)
        /\ <<"payees", IdArg, "payee_locations">> \in Seq(Segments)
    BY <1>1
  <2> QED
    BY <2>1, ReadWellFormed DEF PayeeLocationsService
<1>10. \A m \in TransactionReads \cup TransactionCreates \cup TransactionWrites : WellFormed(m)
  <2>1. /\ <<"transactions">> \in Seq(Segments) /\ <<"transactions", IdArg>> \in Seq(Segments)
        /\ <<"transactions", "import">> \in Seq(Segments)
        /\ <<"accounts", IdArg, "transactions">> \in Seq(Segments)
        /\ <<"categories", IdArg, "transactions">> \in Seq(Segments)
        /\ <<"payees", IdArg, "transactions">> \in Seq(Segments)
        /\ <<"months", MonthArg, "transactions">> \in Seq(Segments)
    BY <1>1
  <2>2. \A m \in TransactionReads : WellFormed(m)
    BY <2>1, ReadWellFormed DEF TransactionReads
  <2>3. \A m \in TransactionCreates \cup TransactionWrites : WellFormed(m)
    BY <2>1, WriteWellFormed DEF TransactionCreates, TransactionWrites
  <2> QED
    BY <2>2, <2>3
<1>11. \A m \in ScheduledReads \cup ScheduledCreate \cup ScheduledWrites : WellFormed(m)
  <2>1. /\ <<"scheduled_transactions">> \in Seq(Segments)
        /\ <<"scheduled_transactions", IdArg>> \in Seq(Segments)
    BY <1>1
  <2> QED
    BY <2>1, ReadWellFormed, WriteWellFormed DEF ScheduledReads, ScheduledCreate, ScheduledWrites
<1> QED
  BY <1>2, <1>3, <1>4, <1>5, <1>6, <1>7, <1>8, <1>9, <1>10, <1>11 DEF Methods

-----------------------------------------------------------------------------
(* The rows of the contract.                                                *)

\* Words at the odd places of a path, and placeholders at the even ones.
Worded(x) ==
    /\ Len(x.path) \in 1..6 /\ x.path[1] \in Words
    /\ Len(x.path) \in 3..6 => x.path[3] \in Words
    /\ Len(x.path) \in 5..6 => x.path[5] \in Words
Holed(x, holes) ==
    /\ Len(x.path) \in 2..6 => x.path[2] \in holes
    /\ Len(x.path) \in 4..6 => IF x.verb = "POST" THEN x.path[4] = "import" ELSE x.path[4] \in holes
    /\ Len(x.path) = 6 => x.path[6] \in holes

\* The words that tell a row from every other, with its verb and its length.
Coded(row, id, verb, n, word, last) ==
    /\ row.id = id /\ row.verb = verb /\ Len(row.path) = n
    /\ n = 1 => row.path[1] = word
    /\ n \in 3..6 => row.path[3] = word
    /\ n \in 5..6 => row.path[5] = last

AnyCode(row) ==
    \/ Coded(row, "getUser", "GET", 1, "user", "")
    \/ Coded(row, "getPlans", "GET", 1, "plans", "")
    \/ Coded(row, "getPlanById", "GET", 2, "", "")
    \/ Coded(row, "getPlanSettingsById", "GET", 3, "settings", "")
    \/ Coded(row, "getPlanMonths", "GET", 3, "months", "")
    \/ Coded(row, "getPlanMonth", "GET", 4, "months", "")
    \/ Coded(row, "getAccounts", "GET", 3, "accounts", "")
    \/ Coded(row, "createAccount", "POST", 3, "accounts", "")
    \/ Coded(row, "getAccountById", "GET", 4, "accounts", "")
    \/ Coded(row, "getCategories", "GET", 3, "categories", "")
    \/ Coded(row, "createCategory", "POST", 3, "categories", "")
    \/ Coded(row, "getCategoryById", "GET", 4, "categories", "")
    \/ Coded(row, "updateCategory", "PATCH", 4, "categories", "")
    \/ Coded(row, "getMonthCategoryById", "GET", 6, "months", "categories")
    \/ Coded(row, "updateMonthCategory", "PATCH", 6, "months", "categories")
    \/ Coded(row, "createCategoryGroup", "POST", 3, "category_groups", "")
    \/ Coded(row, "updateCategoryGroup", "PATCH", 4, "category_groups", "")
    \/ Coded(row, "getPayees", "GET", 3, "payees", "")
    \/ Coded(row, "createPayee", "POST", 3, "payees", "")
    \/ Coded(row, "getPayeeById", "GET", 4, "payees", "")
    \/ Coded(row, "updatePayee", "PATCH", 4, "payees", "")
    \/ Coded(row, "getPayeeLocations", "GET", 3, "payee_locations", "")
    \/ Coded(row, "getPayeeLocationById", "GET", 4, "payee_locations", "")
    \/ Coded(row, "getPayeeLocationsByPayee", "GET", 5, "payees", "payee_locations")
    \/ Coded(row, "getMoneyMovements", "GET", 3, "money_movements", "")
    \/ Coded(row, "getMoneyMovementsByMonth", "GET", 5, "months", "money_movements")
    \/ Coded(row, "getMoneyMovementGroups", "GET", 3, "money_movement_groups", "")
    \/ Coded(row, "getMoneyMovementGroupsByMonth", "GET", 5, "months", "money_movement_groups")
    \/ Coded(row, "getTransactions", "GET", 3, "transactions", "")
    \/ Coded(row, "createTransaction", "POST", 3, "transactions", "")
    \/ Coded(row, "updateTransactions", "PATCH", 3, "transactions", "")
    \/ Coded(row, "importTransactions", "POST", 4, "transactions", "")
    \/ Coded(row, "getTransactionById", "GET", 4, "transactions", "")
    \/ Coded(row, "updateTransaction", "PUT", 4, "transactions", "")
    \/ Coded(row, "deleteTransaction", "DELETE", 4, "transactions", "")
    \/ Coded(row, "getTransactionsByAccount", "GET", 5, "accounts", "transactions")
    \/ Coded(row, "getTransactionsByCategory", "GET", 5, "categories", "transactions")
    \/ Coded(row, "getTransactionsByPayee", "GET", 5, "payees", "transactions")
    \/ Coded(row, "getTransactionsByMonth", "GET", 5, "months", "transactions")
    \/ Coded(row, "getScheduledTransactions", "GET", 3, "scheduled_transactions", "")
    \/ Coded(row, "createScheduledTransaction", "POST", 3, "scheduled_transactions", "")
    \/ Coded(row, "getScheduledTransactionById", "GET", 4, "scheduled_transactions", "")
    \/ Coded(row, "updateScheduledTransaction", "PUT", 4, "scheduled_transactions", "")
    \/ Coded(row, "deleteScheduledTransaction", "DELETE", 4, "scheduled_transactions", "")

\* Every row has its own code.
LEMMA RowsCoded == \A row \in Table : AnyCode(row)
<1>1. \A row \in ClientRows : AnyCode(row)
  BY DEF ClientRows, Op, OpQ, Row, Coded, AnyCode
<1>2. \A row \in PlanRows : AnyCode(row)
  BY DEF PlanRows, Op, OpQ, Row, Coded, AnyCode
<1>3. \A row \in MonthRows : AnyCode(row)
  BY DEF MonthRows, Op, OpQ, Row, Coded, AnyCode
<1>4. \A row \in AccountRows : AnyCode(row)
  BY DEF AccountRows, Op, OpQ, Row, Coded, AnyCode
<1>5. \A row \in CategoryRows : AnyCode(row)
  BY DEF CategoryRows, Op, OpQ, Row, Coded, AnyCode
<1>6. \A row \in PayeeRows : AnyCode(row)
  BY DEF PayeeRows, Op, OpQ, Row, Coded, AnyCode
<1>7. \A row \in PayeeLocationRows : AnyCode(row)
  BY DEF PayeeLocationRows, Op, OpQ, Row, Coded, AnyCode
<1>8. \A row \in MoneyMovementRows : AnyCode(row)
  BY DEF MoneyMovementRows, Op, OpQ, Row, Coded, AnyCode
<1>9. \A row \in TransactionRows : AnyCode(row)
  BY DEF TransactionRows, Op, OpQ, Row, Coded, AnyCode
<1>10. \A row \in TransactionsOfRows : AnyCode(row)
  BY DEF TransactionsOfRows, Op, OpQ, Row, Coded, AnyCode
<1>11. \A row \in ScheduledRows : AnyCode(row)
  BY DEF ScheduledRows, Op, OpQ, Row, Coded, AnyCode
<1> QED
  BY <1>1, <1>2, <1>3, <1>4, <1>5, <1>6, <1>7, <1>8, <1>9, <1>10, <1>11 DEF Table

\* Every row has a parameter at each even place of its path, but for the POST
\* of an import.
LEMMA RowsHoled == \A row \in Table : DOMAIN row.path = 1..Len(row.path) /\ Holed(row, {Param})
<1>1. \A row \in ClientRows : DOMAIN row.path = 1..Len(row.path) /\ Holed(row, {Param})
  BY DEF ClientRows, Op, OpQ, Row, Holed
<1>2. \A row \in PlanRows : DOMAIN row.path = 1..Len(row.path) /\ Holed(row, {Param})
  BY DEF PlanRows, Op, OpQ, Row, Holed
<1>3. \A row \in MonthRows : DOMAIN row.path = 1..Len(row.path) /\ Holed(row, {Param})
  BY DEF MonthRows, Op, OpQ, Row, Holed
<1>4. \A row \in AccountRows : DOMAIN row.path = 1..Len(row.path) /\ Holed(row, {Param})
  BY DEF AccountRows, Op, OpQ, Row, Holed
<1>5. \A row \in CategoryRows : DOMAIN row.path = 1..Len(row.path) /\ Holed(row, {Param})
  BY DEF CategoryRows, Op, OpQ, Row, Holed
<1>6. \A row \in PayeeRows : DOMAIN row.path = 1..Len(row.path) /\ Holed(row, {Param})
  BY DEF PayeeRows, Op, OpQ, Row, Holed
<1>7. \A row \in PayeeLocationRows : DOMAIN row.path = 1..Len(row.path) /\ Holed(row, {Param})
  BY DEF PayeeLocationRows, Op, OpQ, Row, Holed
<1>8. \A row \in MoneyMovementRows : DOMAIN row.path = 1..Len(row.path) /\ Holed(row, {Param})
  <2>1. \A row \in MoneyMovementRows : DOMAIN row.path = 1..Len(row.path)
    BY DEF MoneyMovementRows, Op, OpQ, Row
  <2>2. \A row \in MoneyMovementRows : Holed(row, {Param})
    BY DEF MoneyMovementRows, Op, OpQ, Row, Holed
  <2> QED
    BY <2>1, <2>2
<1>9. \A row \in TransactionRows : DOMAIN row.path = 1..Len(row.path) /\ Holed(row, {Param})
  BY DEF TransactionRows, Op, OpQ, Row, Holed
<1>10. \A row \in TransactionsOfRows : DOMAIN row.path = 1..Len(row.path) /\ Holed(row, {Param})
  BY DEF TransactionsOfRows, Op, OpQ, Row, Holed
<1>11. \A row \in ScheduledRows : DOMAIN row.path = 1..Len(row.path) /\ Holed(row, {Param})
  BY DEF ScheduledRows, Op, OpQ, Row, Holed
<1> QED
  BY <1>1, <1>2, <1>3, <1>4, <1>5, <1>6, <1>7, <1>8, <1>9, <1>10, <1>11 DEF Table

\* No two rows have the same name.
LEMMA RowsNamed == \A row, other \in Table : row.id = other.id => row = other
<1>1. /\ \A id, verb, path, methods : Op(id, verb, path, methods).id = id
      /\ \A id, path, query, method : OpQ(id, path, query, method).id = id
      /\ \A id, verb, path, query, methods : Row(id, verb, path, query, methods).id = id
  BY DEF Op, OpQ, Row
<1>2. \A row \in ClientRows, other \in Table : row.id = other.id => row = other
  BY <1>1 DEF Table, ClientRows, PlanRows, MonthRows, AccountRows, CategoryRows, PayeeRows,
      PayeeLocationRows, MoneyMovementRows, TransactionRows, TransactionsOfRows, ScheduledRows
<1>3. \A row \in PlanRows, other \in Table : row.id = other.id => row = other
  BY <1>1 DEF Table, ClientRows, PlanRows, MonthRows, AccountRows, CategoryRows, PayeeRows,
      PayeeLocationRows, MoneyMovementRows, TransactionRows, TransactionsOfRows, ScheduledRows
<1>4. \A row \in MonthRows, other \in Table : row.id = other.id => row = other
  BY <1>1 DEF Table, ClientRows, PlanRows, MonthRows, AccountRows, CategoryRows, PayeeRows,
      PayeeLocationRows, MoneyMovementRows, TransactionRows, TransactionsOfRows, ScheduledRows
<1>5. \A row \in AccountRows, other \in Table : row.id = other.id => row = other
  BY <1>1 DEF Table, ClientRows, PlanRows, MonthRows, AccountRows, CategoryRows, PayeeRows,
      PayeeLocationRows, MoneyMovementRows, TransactionRows, TransactionsOfRows, ScheduledRows
<1>6. \A row \in CategoryRows, other \in Table : row.id = other.id => row = other
  BY <1>1 DEF Table, ClientRows, PlanRows, MonthRows, AccountRows, CategoryRows, PayeeRows,
      PayeeLocationRows, MoneyMovementRows, TransactionRows, TransactionsOfRows, ScheduledRows
<1>7. \A row \in PayeeRows, other \in Table : row.id = other.id => row = other
  BY <1>1 DEF Table, ClientRows, PlanRows, MonthRows, AccountRows, CategoryRows, PayeeRows,
      PayeeLocationRows, MoneyMovementRows, TransactionRows, TransactionsOfRows, ScheduledRows
<1>8. \A row \in PayeeLocationRows, other \in Table : row.id = other.id => row = other
  BY <1>1 DEF Table, ClientRows, PlanRows, MonthRows, AccountRows, CategoryRows, PayeeRows,
      PayeeLocationRows, MoneyMovementRows, TransactionRows, TransactionsOfRows, ScheduledRows
<1>9. \A row \in MoneyMovementRows, other \in Table : row.id = other.id => row = other
  BY <1>1 DEF Table, ClientRows, PlanRows, MonthRows, AccountRows, CategoryRows, PayeeRows,
      PayeeLocationRows, MoneyMovementRows, TransactionRows, TransactionsOfRows, ScheduledRows
<1>10. \A row \in TransactionRows, other \in Table : row.id = other.id => row = other
  BY <1>1 DEF Table, ClientRows, PlanRows, MonthRows, AccountRows, CategoryRows, PayeeRows,
      PayeeLocationRows, MoneyMovementRows, TransactionRows, TransactionsOfRows, ScheduledRows
<1>11. \A row \in TransactionsOfRows, other \in Table : row.id = other.id => row = other
  BY <1>1 DEF Table, ClientRows, PlanRows, MonthRows, AccountRows, CategoryRows, PayeeRows,
      PayeeLocationRows, MoneyMovementRows, TransactionRows, TransactionsOfRows, ScheduledRows
<1>12. \A row \in ScheduledRows, other \in Table : row.id = other.id => row = other
  BY <1>1 DEF Table, ClientRows, PlanRows, MonthRows, AccountRows, CategoryRows, PayeeRows,
      PayeeLocationRows, MoneyMovementRows, TransactionRows, TransactionsOfRows, ScheduledRows
<1> QED
  BY <1>2, <1>3, <1>4, <1>5, <1>6, <1>7, <1>8, <1>9, <1>10, <1>11, <1>12 DEF Table

\* Two rows with one verb and the same words have one code.
LEMMA CodesApart ==
    ASSUME NEW row, NEW other, AnyCode(row), AnyCode(other), row.verb = other.verb,
           Len(row.path) = Len(other.path), Len(row.path) = 1 => row.path[1] = other.path[1],
           Len(row.path) \in 3..6 => row.path[3] = other.path[3],
           Len(row.path) \in 5..6 => row.path[5] = other.path[5]
    PROVE  row.id = other.id
  BY SMTT(60) DEF Coded, AnyCode

\* The words of a code are words.
LEMMA CodesWorded ==
    ASSUME NEW row, AnyCode(row)
    PROVE  /\ Len(row.path) \in 1..6
           /\ Len(row.path) = 1 => row.path[1] \in Words
           /\ Len(row.path) \in 3..6 => row.path[3] \in Words
           /\ Len(row.path) \in 5..6 => row.path[5] \in Words
  BY DEF Coded, AnyCode, Words

\* Every method has words and arguments where the rows have words and parameters.
LEMMA MethodsPlaced == \A m \in Methods : Worded(m) /\ Holed(m, Args)
<1>1. \A m \in ClientMethods : Worded(m) /\ Holed(m, Args)
  <2>1. \A m \in ClientMethods : Worded(m)
    BY DEF ClientMethods, Method, Worded, Words
  <2>2. \A m \in ClientMethods : Holed(m, Args)
    BY DEF ClientMethods, Method, Holed, Args
  <2> QED
    BY <2>1, <2>2
<1>2. \A m \in ExportMethod : Worded(m) /\ Holed(m, Args)
  <2>1. \A m \in ExportMethod : Worded(m)
    BY DEF ExportMethod, List, Method, Below, Worded, Words
  <2>2. \A m \in ExportMethod : Holed(m, Args)
    BY DEF ExportMethod, List, Method, Below, Holed, Args
  <2> QED
    BY <2>1, <2>2
<1>3. \A m \in SettingsMethod : Worded(m) /\ Holed(m, Args)
  <2>1. \A m \in SettingsMethod : Worded(m)
    BY DEF SettingsMethod, List, Get, Method, Below, Worded, Words
  <2>2. \A m \in SettingsMethod : Holed(m, Args)
    BY DEF SettingsMethod, List, Get, Method, Below, Holed, Args
  <2> QED
    BY <2>1, <2>2
<1>4. \A m \in AccountsService : Worded(m) /\ Holed(m, Args)
  <2>1. \A m \in AccountsService : Worded(m)
    BY DEF AccountsService, List, Get, Write, Method, Below, Worded, Words
  <2>2. \A m \in AccountsService : Holed(m, Args)
    BY DEF AccountsService, List, Get, Write, Method, Below, Holed, Args
  <2> QED
    BY <2>1, <2>2
<1>5. \A m \in CategoriesService : Worded(m) /\ Holed(m, Args)
  <2>1. \A m \in CategoriesService : Worded(m)
    BY DEF CategoriesService, List, Get, Write, Method, Below, Worded, Words
  <2>2. \A m \in CategoriesService : Holed(m, Args)
    BY DEF CategoriesService, List, Get, Write, Method, Below, Holed, Args
  <2> QED
    BY <2>1, <2>2
<1>6. \A m \in PayeesService : Worded(m) /\ Holed(m, Args)
  <2>1. \A m \in PayeesService : Worded(m)
    BY DEF PayeesService, List, Get, Write, Method, Below, Worded, Words
  <2>2. \A m \in PayeesService : Holed(m, Args)
    BY DEF PayeesService, List, Get, Write, Method, Below, Holed, Args
  <2> QED
    BY <2>1, <2>2
<1>7. \A m \in MonthsService : Worded(m) /\ Holed(m, Args)
  <2>1. \A m \in MonthsService : Worded(m)
    BY DEF MonthsService, List, Get, Method, Below, Worded, Words
  <2>2. \A m \in MonthsService : Holed(m, Args)
    BY DEF MonthsService, List, Get, Method, Below, Holed, Args
  <2> QED
    BY <2>1, <2>2
<1>8. \A m \in MoneyMovementsService : Worded(m) /\ Holed(m, Args)
  <2>1. \A m \in MoneyMovementsService : Worded(m)
    BY DEF MoneyMovementsService, List, Get, Method, Below, Worded, Words
  <2>2. \A m \in MoneyMovementsService : Holed(m, Args)
    BY DEF MoneyMovementsService, List, Get, Method, Below, Holed, Args
  <2> QED
    BY <2>1, <2>2
<1>9. \A m \in PayeeLocationsService : Worded(m) /\ Holed(m, Args)
  <2>1. \A m \in PayeeLocationsService : Worded(m)
    BY DEF PayeeLocationsService, List, Get, Method, Below, Worded, Words
  <2>2. \A m \in PayeeLocationsService : Holed(m, Args)
    BY DEF PayeeLocationsService, List, Get, Method, Below, Holed, Args
  <2> QED
    BY <2>1, <2>2
<1>10. \A m \in TransactionReads : Worded(m) /\ Holed(m, Args)
  <2>1. \A m \in TransactionReads : Worded(m)
    BY DEF TransactionReads, List, Get, Method, Below, Worded, Words
  <2>2. \A m \in TransactionReads : Holed(m, Args)
    BY DEF TransactionReads, List, Get, Method, Below, Holed, Args
  <2> QED
    BY <2>1, <2>2
<1>11. \A m \in TransactionCreates : Worded(m) /\ Holed(m, Args)
  <2>1. \A m \in TransactionCreates : Worded(m)
    BY DEF TransactionCreates, Write, Method, Below, Worded, Words
  <2>2. \A m \in TransactionCreates : Holed(m, Args)
    BY DEF TransactionCreates, Write, Method, Below, Holed, Args
  <2> QED
    BY <2>1, <2>2
<1>12. \A m \in TransactionWrites : Worded(m) /\ Holed(m, Args)
  <2>1. \A m \in TransactionWrites : Worded(m)
    BY DEF TransactionWrites, Write, Method, Below, Worded, Words
  <2>2. \A m \in TransactionWrites : Holed(m, Args)
    BY DEF TransactionWrites, Write, Method, Below, Holed, Args
  <2> QED
    BY <2>1, <2>2
<1>13. \A m \in ScheduledReads : Worded(m) /\ Holed(m, Args)
  <2>1. \A m \in ScheduledReads : Worded(m)
    BY DEF ScheduledReads, List, Get, Method, Below, Worded, Words
  <2>2. \A m \in ScheduledReads : Holed(m, Args)
    BY DEF ScheduledReads, List, Get, Method, Below, Holed, Args
  <2> QED
    BY <2>1, <2>2
<1>14. \A m \in ScheduledCreate : Worded(m) /\ Holed(m, Args)
  <2>1. \A m \in ScheduledCreate : Worded(m)
    BY DEF ScheduledCreate, Write, Method, Below, Worded, Words
  <2>2. \A m \in ScheduledCreate : Holed(m, Args)
    BY DEF ScheduledCreate, Write, Method, Below, Holed, Args
  <2> QED
    BY <2>1, <2>2
<1>15. \A m \in ScheduledWrites : Worded(m) /\ Holed(m, Args)
  <2>1. \A m \in ScheduledWrites : Worded(m)
    BY DEF ScheduledWrites, Write, Method, Below, Worded, Words
  <2>2. \A m \in ScheduledWrites : Holed(m, Args)
    BY DEF ScheduledWrites, Write, Method, Below, Holed, Args
  <2> QED
    BY <2>1, <2>2
<1> QED
  BY <1>1, <1>2, <1>3, <1>4, <1>5, <1>6, <1>7, <1>8, <1>9, <1>10, <1>11, <1>12, <1>13, <1>14,
      <1>15 DEF Methods

-----------------------------------------------------------------------------
(* What the contract lists for a method.                                    *)

\* A row lists a method, has its verb and words, and its query parameters.
Offers(row, m) == m.name \in row.methods
SameRoute(a, b) ==
    /\ a.verb = b.verb /\ Len(a.path) = Len(b.path)
    /\ Len(a.path) = 1 => a.path[1] = b.path[1]
    /\ Len(a.path) \in 3..6 => a.path[3] = b.path[3]
    /\ Len(a.path) \in 5..6 => a.path[5] = b.path[5]
Tunes(row, m) ==
    /\ m.query = "since"    => row.query = deltaParams
    /\ m.query = "filter"   => row.query = transactionFilterParams
    /\ m.query = "accounts" => row.query = {"include_accounts"}
    /\ m.query \notin {"since", "filter", "accounts"} => row.query = {}

\* No two rows have one route.
LEMMA OneRowARoute == \A row, other \in Table : SameRoute(row, other) => row = other
<1> SUFFICES ASSUME NEW row \in Table, NEW other \in Table, SameRoute(row, other) PROVE row = other
  OBVIOUS
<1>1. AnyCode(row) /\ AnyCode(other)
  BY RowsCoded
<1>2. row.id = other.id
  BY <1>1, CodesApart DEF SameRoute
<1> QED
  BY <1>2, RowsNamed

\* Some row lists the method with its verb, its path and its parameters.
Listed(m, rows) == \E row \in rows : Offers(row, m) /\ SameRoute(row, m) /\ Tunes(row, m)

\* The contract lists every method, with its verb, its path and its parameters.
LEMMA MethodsListed == \A m \in Methods : Listed(m, Table)
<1>1. \A m \in ClientMethods : Listed(m, ClientRows)
  <2>1. \A m \in ClientMethods : \E row \in ClientRows : Offers(row, m)
    BY DEF ClientMethods, ClientRows, Op, OpQ, Row, Method, Offers
  <2>2. \A m \in ClientMethods, row \in ClientRows : Offers(row, m) => SameRoute(row, m)
    BY DEF ClientMethods, ClientRows, Op, OpQ, Row, Method, Offers, SameRoute
  <2>3. \A m \in ClientMethods, row \in ClientRows : Offers(row, m) => Tunes(row, m)
    BY DEF ClientMethods, ClientRows, Op, OpQ, Row, Method, Offers, Tunes
  <2> QED
    BY <2>1, <2>2, <2>3 DEF Listed
<1>2. \A m \in ExportMethod : Listed(m, PlanRows)
  <2>1. \A m \in ExportMethod : \E row \in PlanRows : Offers(row, m)
    BY DEF ExportMethod, PlanRows, Op, OpQ, Row, List, Method, Offers
  <2>2. \A m \in ExportMethod, row \in PlanRows : Offers(row, m) => SameRoute(row, m)
    BY DEF ExportMethod, PlanRows, Op, OpQ, Row, List, Method, Below, Offers, SameRoute
  <2>3. \A m \in ExportMethod, row \in PlanRows : Offers(row, m) => Tunes(row, m)
    BY DEF ExportMethod, PlanRows, Op, OpQ, Row, List, Method, Offers, Tunes
  <2> QED
    BY <2>1, <2>2, <2>3 DEF Listed
<1>3. \A m \in SettingsMethod : Listed(m, PlanRows)
  <2>1. \A m \in SettingsMethod : \E row \in PlanRows : Offers(row, m)
    BY DEF SettingsMethod, PlanRows, Op, OpQ, Row, List, Get, Method, Offers
  <2>2. \A m \in SettingsMethod, row \in PlanRows : Offers(row, m) => SameRoute(row, m)
    BY DEF SettingsMethod, PlanRows, Op, OpQ, Row, List, Get, Method, Below, Offers, SameRoute
  <2>3. \A m \in SettingsMethod, row \in PlanRows : Offers(row, m) => Tunes(row, m)
    BY DEF SettingsMethod, PlanRows, Op, OpQ, Row, List, Get, Method, Offers, Tunes
  <2> QED
    BY <2>1, <2>2, <2>3 DEF Listed
<1>4. \A m \in AccountsService : Listed(m, AccountRows)
  <2>1. \A m \in AccountsService : \E row \in AccountRows : Offers(row, m)
    BY DEF AccountsService, AccountRows, Op, OpQ, Row, List, Get, Write, Method, Offers
  <2>2. \A m \in AccountsService, row \in AccountRows : Offers(row, m) => SameRoute(row, m)
    BY DEF AccountsService, AccountRows, Op, OpQ, Row, List, Get, Write, Method, Below, Offers,
        SameRoute
  <2>3. \A m \in AccountsService, row \in AccountRows : Offers(row, m) => Tunes(row, m)
    BY DEF AccountsService, AccountRows, Op, OpQ, Row, List, Get, Write, Method, Offers, Tunes
  <2> QED
    BY <2>1, <2>2, <2>3 DEF Listed
<1>5. \A m \in CategoriesService : Listed(m, CategoryRows)
  <2>1. \A m \in CategoriesService : \E row \in CategoryRows : Offers(row, m)
    BY DEF CategoriesService, CategoryRows, Op, OpQ, Row, List, Get, Write, Method, Offers
  <2>2. \A m \in CategoriesService, row \in CategoryRows : Offers(row, m) => SameRoute(row, m)
    <3>1. \A m \in CategoriesService, row \in CategoryRows :
             Offers(row, m) => row.verb = m.verb /\ Len(row.path) = Len(m.path)
      BY DEF CategoriesService, CategoryRows, Op, OpQ, Row, List, Get, Write, Method, Below, Offers
    <3>2. \A m \in CategoriesService, row \in CategoryRows :
             Offers(row, m) /\ Len(row.path) \in 3..6 => row.path[3] = m.path[3]
      BY DEF CategoriesService, CategoryRows, Op, OpQ, Row, List, Get, Write, Method, Below, Offers
    <3>3. \A m \in CategoriesService, row \in CategoryRows :
             Offers(row, m) /\ Len(row.path) \in 5..6 => row.path[5] = m.path[5]
      BY DEF CategoriesService, CategoryRows, Op, OpQ, Row, List, Get, Write, Method, Below, Offers
    <3>4. \A m \in CategoriesService, row \in CategoryRows : Len(row.path) # 1
      BY DEF CategoryRows, Op, OpQ, Row
    <3> QED
      BY <3>1, <3>2, <3>3, <3>4 DEF SameRoute
  <2>3. \A m \in CategoriesService, row \in CategoryRows : Offers(row, m) => Tunes(row, m)
    BY DEF CategoriesService, CategoryRows, Op, OpQ, Row, List, Get, Write, Method, Offers, Tunes
  <2> QED
    BY <2>1, <2>2, <2>3 DEF Listed
<1>6. \A m \in PayeesService : Listed(m, PayeeRows)
  <2>1. \A m \in PayeesService : \E row \in PayeeRows : Offers(row, m)
    BY DEF PayeesService, PayeeRows, Op, OpQ, Row, List, Get, Write, Method, Offers
  <2>2. \A m \in PayeesService, row \in PayeeRows : Offers(row, m) => SameRoute(row, m)
    BY DEF PayeesService, PayeeRows, Op, OpQ, Row, List, Get, Write, Method, Below, Offers,
        SameRoute
  <2>3. \A m \in PayeesService, row \in PayeeRows : Offers(row, m) => Tunes(row, m)
    BY DEF PayeesService, PayeeRows, Op, OpQ, Row, List, Get, Write, Method, Offers, Tunes
  <2> QED
    BY <2>1, <2>2, <2>3 DEF Listed
<1>7. \A m \in MonthsService : Listed(m, MonthRows)
  <2>1. \A m \in MonthsService : \E row \in MonthRows : Offers(row, m)
    BY DEF MonthsService, MonthRows, Op, OpQ, Row, List, Get, Method, Offers
  <2>2. \A m \in MonthsService, row \in MonthRows : Offers(row, m) => SameRoute(row, m)
    BY DEF MonthsService, MonthRows, Op, OpQ, Row, List, Get, Method, Below, Offers, SameRoute
  <2>3. \A m \in MonthsService, row \in MonthRows : Offers(row, m) => Tunes(row, m)
    BY DEF MonthsService, MonthRows, Op, OpQ, Row, List, Get, Method, Offers, Tunes
  <2> QED
    BY <2>1, <2>2, <2>3 DEF Listed
<1>8. \A m \in MoneyMovementsService : Listed(m, MoneyMovementRows)
  <2>1. \A m \in MoneyMovementsService : \E row \in MoneyMovementRows : Offers(row, m)
    BY DEF MoneyMovementsService, MoneyMovementRows, Op, OpQ, Row, List, Get, Method, Offers
  <2>2. \A m \in MoneyMovementsService, row \in MoneyMovementRows : Offers(row, m) => SameRoute(row, m)
    BY DEF MoneyMovementsService, MoneyMovementRows, Op, OpQ, Row, List, Get, Method, Below,
        Offers, SameRoute
  <2>3. \A m \in MoneyMovementsService, row \in MoneyMovementRows : Offers(row, m) => Tunes(row, m)
    BY DEF MoneyMovementsService, MoneyMovementRows, Op, OpQ, Row, List, Get, Method, Offers, Tunes
  <2> QED
    BY <2>1, <2>2, <2>3 DEF Listed
<1>9. \A m \in PayeeLocationsService : Listed(m, PayeeLocationRows)
  <2>1. \A m \in PayeeLocationsService : \E row \in PayeeLocationRows : Offers(row, m)
    BY DEF PayeeLocationsService, PayeeLocationRows, Op, OpQ, Row, List, Get, Method, Offers
  <2>2. \A m \in PayeeLocationsService, row \in PayeeLocationRows : Offers(row, m) => SameRoute(row, m)
    BY DEF PayeeLocationsService, PayeeLocationRows, Op, OpQ, Row, List, Get, Method, Below,
        Offers, SameRoute
  <2>3. \A m \in PayeeLocationsService, row \in PayeeLocationRows : Offers(row, m) => Tunes(row, m)
    BY DEF PayeeLocationsService, PayeeLocationRows, Op, OpQ, Row, List, Get, Method, Offers, Tunes
  <2> QED
    BY <2>1, <2>2, <2>3 DEF Listed
<1>10. \A m \in TransactionReads : Listed(m, TransactionRows \cup TransactionsOfRows)
  <2>1. \A m \in TransactionReads : \E row \in TransactionRows \cup TransactionsOfRows : Offers(row, m)
    BY DEF TransactionReads, TransactionRows, TransactionsOfRows, Op, OpQ, Row, List, Get, Method,
        Offers
  <2>2. \A m \in TransactionReads, row \in TransactionRows : Offers(row, m) => SameRoute(row, m)
    <3>1. \A m \in TransactionReads, row \in TransactionRows :
             Offers(row, m) => row.verb = m.verb /\ Len(row.path) = Len(m.path)
      BY DEF TransactionReads, TransactionRows, Op, OpQ, Row, List, Get, Method, Below, Offers
    <3>2. \A m \in TransactionReads, row \in TransactionRows :
             Offers(row, m) /\ Len(row.path) \in 3..6 => row.path[3] = m.path[3]
      BY DEF TransactionReads, TransactionRows, Op, OpQ, Row, List, Get, Method, Below, Offers
    <3>3. \A m \in TransactionReads, row \in TransactionRows :
             Offers(row, m) /\ Len(row.path) \in 5..6 => row.path[5] = m.path[5]
      BY DEF TransactionReads, TransactionRows, Op, OpQ, Row, List, Get, Method, Below, Offers
    <3>4. \A m \in TransactionReads, row \in TransactionRows : Len(row.path) # 1
      BY DEF TransactionRows, Op, OpQ, Row
    <3> QED
      BY <3>1, <3>2, <3>3, <3>4 DEF SameRoute
  <2>3. \A m \in TransactionReads, row \in TransactionsOfRows : Offers(row, m) => SameRoute(row, m)
    BY DEF TransactionReads, TransactionsOfRows, Op, OpQ, Row, List, Get, Method, Below, Offers,
        SameRoute
  <2>4. \A m \in TransactionReads, row \in TransactionRows \cup TransactionsOfRows : Offers(row, m) => Tunes(row, m)
    BY DEF TransactionReads, TransactionRows, TransactionsOfRows, Op, OpQ, Row, List, Get, Method,
        Offers, Tunes
  <2> QED
    BY <2>1, <2>2, <2>3, <2>4 DEF Listed
<1>11. \A m \in TransactionCreates : Listed(m, TransactionRows)
  <2>1. \A m \in TransactionCreates : \E row \in TransactionRows : Offers(row, m)
    BY DEF TransactionCreates, TransactionRows, Op, OpQ, Row, Write, Method, Offers
  <2>2. \A m \in TransactionCreates, row \in TransactionRows : Offers(row, m) => SameRoute(row, m)
    BY DEF TransactionCreates, TransactionRows, Op, OpQ, Row, Write, Method, Below, Offers,
        SameRoute
  <2>3. \A m \in TransactionCreates, row \in TransactionRows : Offers(row, m) => Tunes(row, m)
    BY DEF TransactionCreates, TransactionRows, Op, OpQ, Row, Write, Method, Offers, Tunes
  <2> QED
    BY <2>1, <2>2, <2>3 DEF Listed
<1>12. \A m \in TransactionWrites : Listed(m, TransactionRows)
  <2>1. \A m \in TransactionWrites : \E row \in TransactionRows : Offers(row, m)
    BY DEF TransactionWrites, TransactionRows, Op, OpQ, Row, Write, Method, Offers
  <2>2. \A m \in TransactionWrites, row \in TransactionRows : Offers(row, m) => SameRoute(row, m)
    BY DEF TransactionWrites, TransactionRows, Op, OpQ, Row, Write, Method, Below, Offers, SameRoute
  <2>3. \A m \in TransactionWrites, row \in TransactionRows : Offers(row, m) => Tunes(row, m)
    BY DEF TransactionWrites, TransactionRows, Op, OpQ, Row, Write, Method, Offers, Tunes
  <2> QED
    BY <2>1, <2>2, <2>3 DEF Listed
<1>13. \A m \in ScheduledReads : Listed(m, ScheduledRows)
  <2>1. \A m \in ScheduledReads : \E row \in ScheduledRows : Offers(row, m)
    BY DEF ScheduledReads, ScheduledRows, Op, OpQ, Row, List, Get, Method, Offers
  <2>2. \A m \in ScheduledReads, row \in ScheduledRows : Offers(row, m) => SameRoute(row, m)
    BY DEF ScheduledReads, ScheduledRows, Op, OpQ, Row, List, Get, Method, Below, Offers, SameRoute
  <2>3. \A m \in ScheduledReads, row \in ScheduledRows : Offers(row, m) => Tunes(row, m)
    BY DEF ScheduledReads, ScheduledRows, Op, OpQ, Row, List, Get, Method, Offers, Tunes
  <2> QED
    BY <2>1, <2>2, <2>3 DEF Listed
<1>14. \A m \in ScheduledCreate : Listed(m, ScheduledRows)
  <2>1. \A m \in ScheduledCreate : \E row \in ScheduledRows : Offers(row, m)
    BY DEF ScheduledCreate, ScheduledRows, Op, OpQ, Row, Write, Method, Offers
  <2>2. \A m \in ScheduledCreate, row \in ScheduledRows : Offers(row, m) => SameRoute(row, m)
    BY DEF ScheduledCreate, ScheduledRows, Op, OpQ, Row, Write, Method, Below, Offers, SameRoute
  <2>3. \A m \in ScheduledCreate, row \in ScheduledRows : Offers(row, m) => Tunes(row, m)
    BY DEF ScheduledCreate, ScheduledRows, Op, OpQ, Row, Write, Method, Offers, Tunes
  <2> QED
    BY <2>1, <2>2, <2>3 DEF Listed
<1>15. \A m \in ScheduledWrites : Listed(m, ScheduledRows)
  <2>1. \A m \in ScheduledWrites : \E row \in ScheduledRows : Offers(row, m)
    BY DEF ScheduledWrites, ScheduledRows, Op, OpQ, Row, Write, Method, Offers
  <2>2. \A m \in ScheduledWrites, row \in ScheduledRows : Offers(row, m) => SameRoute(row, m)
    BY DEF ScheduledWrites, ScheduledRows, Op, OpQ, Row, Write, Method, Below, Offers, SameRoute
  <2>3. \A m \in ScheduledWrites, row \in ScheduledRows : Offers(row, m) => Tunes(row, m)
    BY DEF ScheduledWrites, ScheduledRows, Op, OpQ, Row, Write, Method, Offers, Tunes
  <2> QED
    BY <2>1, <2>2, <2>3 DEF Listed
<1>16. \A m : \A rows \in SUBSET Table : Listed(m, rows) => Listed(m, Table)
  BY DEF Listed
<1> QED
  BY <1>1, <1>2, <1>3, <1>4, <1>5, <1>6, <1>7, <1>8, <1>9, <1>10, <1>11, <1>12, <1>13, <1>14,
      <1>15, <1>16 DEF Methods, Table

\* What is longer than a word is below a plan.
LEMMA RowsBelow == \A row \in Table : Len(row.path) # 1 => row.path[1] = "plans"
  BY DEF Table, ClientRows, PlanRows, MonthRows, AccountRows, CategoryRows, PayeeRows,
      PayeeLocationRows, MoneyMovementRows, TransactionRows, TransactionsOfRows, ScheduledRows,
      Op, OpQ, Row
LEMMA MethodsBelow == \A m \in Methods : Len(m.path) # 1 => m.path[1] = "plans"
  BY DEF Methods, ClientMethods, ExportMethod, SettingsMethod, AccountsService, CategoriesService,
      PayeesService, MonthsService, MoneyMovementsService, PayeeLocationsService,
      TransactionReads, TransactionCreates, TransactionWrites, ScheduledReads, ScheduledCreate,
      ScheduledWrites, Get, List, Write, Method, Below

-----------------------------------------------------------------------------
(* Paths.                                                                   *)

\* A method's path and the template of its row are alike: a parameter for
\* every argument, and the same words.
LEMMA OwnTemplate ==
    ASSUME NEW m \in Methods, NEW row \in Table, SameRoute(row, m)
    PROVE  /\ Len(m.path) \in Nat /\ DOMAIN m.path = 1..Len(m.path) /\ DOMAIN row.path = 1..Len(m.path)
           /\ \A i \in 1..Len(m.path) : IF m.path[i] \in Args THEN row.path[i] = Param
                                        ELSE row.path[i] = m.path[i] /\ row.path[i] # Param
<1>1. PICK n \in 1..6 : n = Len(m.path) /\ n = Len(row.path)
  BY RowsCoded, CodesWorded DEF SameRoute
<1>2. DOMAIN m.path = 1..n /\ DOMAIN row.path = 1..n
  <2>1. m.path \in Seq(Segments)
    BY MethodsWellFormed DEF WellFormed
  <2>2. DOMAIN m.path = 1..Len(m.path)
    BY <2>1
  <2> QED
    BY <1>1, <2>2, RowsHoled
<1>3. Worded(m) /\ Holed(m, Args) /\ Holed(row, {Param}) /\ row.verb = m.verb
  BY MethodsPlaced, RowsHoled DEF SameRoute
<1>4. \A w \in Words : w \notin Args /\ w # Param
  BY DEF Words, Args, PlanArg, IdArg, MonthArg, Param
<1>5. "import" \in Words /\ "plans" \in Words
  BY DEF Words
<1>6. n # 1 => m.path[1] = "plans" /\ row.path[1] = "plans"
  BY <1>1, MethodsBelow, RowsBelow
<1>7. ASSUME NEW i \in 1..n
      PROVE  IF m.path[i] \in Args THEN row.path[i] = Param
             ELSE row.path[i] = m.path[i] /\ row.path[i] # Param
  <2>1. CASE i = 1
    BY <1>1, <1>3, <1>4, <1>5, <1>6, <2>1 DEF Worded, SameRoute
  <2>2. CASE i \in {3, 5}
    BY <1>1, <1>3, <1>4, <2>2 DEF Worded, SameRoute
  <2>3. CASE i \in {2, 4, 6}
    BY <1>1, <1>3, <1>4, <1>5, <2>3 DEF Holed
  <2> QED
    BY <1>1, <2>1, <2>2, <2>3
<1> QED
  BY <1>1, <1>2, <1>7

\* A row whose template agrees with the words of a method's path is its row.
LEMMA OnlyTemplate ==
    ASSUME NEW m \in Methods, NEW row \in Table, SameRoute(row, m),
           NEW other \in Table, other.verb = m.verb, Len(other.path) = Len(m.path),
           \A i \in 1..Len(m.path) : m.path[i] \notin Args => other.path[i] \in {Param, m.path[i]}
    PROVE  other = row
<1>1. PICK n \in 1..6 : n = Len(m.path) /\ n = Len(row.path) /\ n = Len(other.path)
  BY RowsCoded, CodesWorded DEF SameRoute
<1>2. Worded(m) /\ AnyCode(other)
  BY MethodsPlaced, RowsCoded
<1>3. \A w \in Words : w \notin Args /\ w # Param
  BY DEF Words, Args, PlanArg, IdArg, MonthArg, Param
<1>4. /\ n = 1 => other.path[1] \in Words
      /\ n \in 3..6 => other.path[3] \in Words
      /\ n \in 5..6 => other.path[5] \in Words
  BY <1>1, <1>2, CodesWorded
<1>5. /\ n = 1 => other.path[1] = m.path[1]
      /\ n \in 3..6 => other.path[3] = m.path[3]
      /\ n \in 5..6 => other.path[5] = m.path[5]
  <2>1. n \in 3..6 => m.path[3] \notin Args /\ 3 \in 1..n
    BY <1>1, <1>2, <1>3 DEF Worded
  <2>2. n \in 5..6 => m.path[5] \notin Args /\ 5 \in 1..n
    BY <1>1, <1>2, <1>3 DEF Worded
  <2>3. m.path[1] \notin Args /\ 1 \in 1..n
    BY <1>1, <1>2, <1>3 DEF Worded
  <2> QED
    BY <1>1, <1>3, <1>4, <2>1, <2>2, <2>3
<1>6. SameRoute(other, row)
  BY <1>1, <1>5 DEF SameRoute
<1> QED
  BY <1>6, OneRowARoute

\* What a call gives for a segment of its method's path.
Given(c, a) == CASE a = PlanArg  -> c.plan
                 [] a = IdArg    -> c.id
                 [] a = MonthArg -> MonthSegment(c.month)
                 [] OTHER -> <<a>>

\* A path on the wire is what the call gives, segment by segment, with no dot
\* segment left for a server to resolve.
LEMMA PathOfCall ==
    ASSUME NEW c, c.method \in Methods, NEW n, n = Len(c.method.path), NEW path, path = Path(c)
    PROVE  /\ n \in Nat /\ Len(path) = n /\ DOMAIN path = 1..n
           /\ path \in Seq([text : {Given(c, c.method.path[i]) : i \in 1..n}, dotsEscaped : BOOLEAN])
           /\ \A i \in 1..n : /\ path[i].text = Given(c, c.method.path[i])
                              /\ path[i] # Plain(<<".">>) /\ path[i] # Plain(<<"..">>)
<1>1. n \in Nat /\ DOMAIN c.method.path = 1..n
  <2>1. c.method.path \in Seq(Segments)
    BY MethodsWellFormed DEF WellFormed
  <2> QED
    BY <2>1
<1>2. PICK texts : texts = [i \in 1..n |-> Given(c, c.method.path[i])]
  OBVIOUS
<1>3. path = JoinPath(texts)
  BY <1>1, <1>2 DEF Path, Given
<1>4. path = [i \in 1..n |-> [text |-> texts[i], dotsEscaped |-> texts[i] \in {<<".">>, <<"..">>}]]
  BY <1>2, <1>3 DEF JoinPath
<1>5. PICK S : S = [text : {Given(c, c.method.path[i]) : i \in 1..n}, dotsEscaped : BOOLEAN]
  OBVIOUS
<1>6. \A i \in 1..n : /\ path[i].text = texts[i]
                      /\ path[i].dotsEscaped = (texts[i] \in {<<".">>, <<"..">>})
                      /\ path[i] \in S
  BY <1>2, <1>4, <1>5
<1>7. path \in [1..n -> S]
  BY <1>4, <1>6
<1>8. path \in Seq(S) /\ Len(path) = n /\ DOMAIN path = 1..n
  BY <1>1, <1>7
<1>9. ASSUME NEW i \in 1..n PROVE path[i] # Plain(<<".">>) /\ path[i] # Plain(<<"..">>)
  <2>1. /\ Plain(<<".">>).text = <<".">> /\ Plain(<<"..">>).text = <<"..">>
        /\ Plain(<<".">>).dotsEscaped = FALSE /\ Plain(<<"..">>).dotsEscaped = FALSE
    BY DEF Plain
  <2> QED
    BY <1>6, <2>1
<1> QED
  BY <1>1, <1>2, <1>5, <1>6, <1>8, <1>9

\* The prefixes of a path, each of them the one before and a segment.
LEMMA PrefixesGrow ==
    ASSUME NEW S, NEW path \in Seq(S)
    PROVE  /\ SubSeq(path, 1, 0) = <<>>
           /\ SubSeq(path, 1, Len(path)) = path
           /\ \A k \in 1..Len(path) :
                 SubSeq(path, 1, k) = Append(SubSeq(path, 1, k - 1), path[k])
<1>1. SubSeq(path, 1, 0) = <<>> /\ SubSeq(path, 1, Len(path)) = path
  BY SubSeqFull, SubSeqEmpty
<1>2. ASSUME NEW k \in 1..Len(path)
      PROVE  SubSeq(path, 1, k) = Append(SubSeq(path, 1, k - 1), path[k])
  <2>1. SubSeq(path, 1, k) = SubSeq(path, 1, k - 1) \o <<path[k]>>
    BY SubSeqRecursiveSecond
  <2>2. SubSeq(path, 1, k - 1) \in Seq(S)
    BY SubSeqProperties
  <2>3. path[k] \in S
    OBVIOUS
  <2>4. Append(SubSeq(path, 1, k - 1), path[k]) = SubSeq(path, 1, k - 1) \o <<path[k]>>
    BY <2>2, <2>3, AppendIsConcat
  <2> QED
    BY <2>1, <2>4
<1> QED
  BY <1>1, <1>2

\* A path without empty and without dot segments is left as it is.
LEMMA NormalPath ==
    ASSUME NEW S, NEW path \in Seq(S), NEW n, n = Len(path),
           ~HasEmptySegment(path),
           \A i \in 1..n : path[i] # Plain(<<".">>) /\ path[i] # Plain(<<"..">>)
    PROVE  Normalize(path) = path
<1>1. n \in Nat /\ DOMAIN path = 1..n
  OBVIOUS
<1>2. /\ SubSeq(path, 1, 0) = <<>> /\ SubSeq(path, 1, n) = path
      /\ \A k \in 1..n : SubSeq(path, 1, k) = Append(SubSeq(path, 1, k - 1), path[k])
  BY PrefixesGrow
<1>3. ASSUME NEW k \in 1..n, NEW before PROVE Resolved(before, path[k]) = Append(before, path[k])
  BY <1>1, Zenon DEF Resolved, HasEmptySegment
<1>4. PICK prefix : prefix = [k \in 0..n |-> SubSeq(path, 1, k)]
  OBVIOUS
<1>5. ASSUME NEW k \in 0..n
      PROVE  prefix[k] = IF k = 0 THEN <<>> ELSE Resolved(prefix[k - 1], path[k])
  <2>1. CASE k = 0
    BY <1>1, <1>4, <2>1, <1>2
  <2>2. CASE k # 0
    <3>1. k \in 1..n /\ k - 1 \in 0..n
      BY <1>1, <2>2
    <3>2. prefix[k] = SubSeq(path, 1, k) /\ prefix[k - 1] = SubSeq(path, 1, k - 1)
      BY <1>4, <3>1
    <3>3. prefix[k] = Append(prefix[k - 1], path[k])
      BY <3>1, <3>2, <1>2
    <3> QED
      BY <1>3, <2>2, <3>1, <3>3
  <2> QED
    BY <2>1, <2>2
<1>6. prefix = [k \in 0..n |-> IF k = 0 THEN <<>> ELSE Resolved(prefix[k - 1], path[k])]
  BY <1>4, <1>5
<1>7. PICK done : done = CHOOSE f : f = [k \in 0..n |-> IF k = 0 THEN <<>> ELSE Resolved(f[k - 1], path[k])]
  OBVIOUS
<1>8. done = [k \in 0..n |-> IF k = 0 THEN <<>> ELSE Resolved(done[k - 1], path[k])]
  BY <1>6, <1>7
<1>9. Normalize(path) = done[n]
  BY <1>7 DEF Normalize
<1>10. PICK T : T = {k \in Nat : k <= n => done[k] = prefix[k]}
  OBVIOUS
<1>11. 0 \in T
  BY <1>1, <1>6, <1>8, <1>10
<1>12. ASSUME NEW k \in Nat, k \in T PROVE k + 1 \in T
  <2> SUFFICES ASSUME k + 1 <= n PROVE done[k + 1] = prefix[k + 1]
    BY <1>10
  <2>1. k + 1 \in 0..n /\ k + 1 # 0 /\ (k + 1) - 1 = k /\ done[k] = prefix[k]
    BY <1>1, <1>10, <1>12
  <2>2. /\ done[k + 1] = Resolved(done[k], path[k + 1])
        /\ prefix[k + 1] = Resolved(prefix[k], path[k + 1])
    BY <1>6, <1>8, <2>1
  <2> QED
    BY <2>1, <2>2
<1>13. n \in T
  <2>1. Nat \subseteq T
    BY <1>11, <1>12, Induction
  <2> QED
    BY <1>1, <2>1
<1>14. done[n] = prefix[n] /\ prefix[n] = path
  BY <1>1, <1>4, <1>10, <1>13, <1>2
<1> QED
  BY <1>9, <1>14

\* What a method's path leads to on the real server is its row.
LEMMA Matched ==
    ASSUME NEW c, c.method \in Methods, NEW row \in Table, SameRoute(row, c.method), NEW other \in Table,
           other.verb = c.method.verb, NEW path, Len(path) = Len(c.method.path),
           \A i \in 1..Len(c.method.path) : path[i].text = Given(c, c.method.path[i])
    PROVE  MatchesDecoded(other.path, path) <=> other = row
<1>1. PICK n \in Nat : n = Len(c.method.path) /\ DOMAIN c.method.path = 1..n /\ DOMAIN row.path = 1..n
  BY OwnTemplate
<1>2. \A i \in 1..n : IF c.method.path[i] \in Args THEN row.path[i] = Param
                      ELSE row.path[i] = c.method.path[i]
  BY <1>1, OwnTemplate
<1>3. \A i \in 1..n : c.method.path[i] \notin Args => Decode(path[i]) = <<c.method.path[i]>>
  BY <1>1 DEF Given, Args, Decode
<1>4. Len(row.path) = n /\ Len(path) = n /\ DOMAIN other.path = 1..Len(other.path)
  BY <1>1, RowsHoled DEF SameRoute
<1>5. ASSUME MatchesDecoded(other.path, path) PROVE other = row
  <2>1. Len(other.path) = n /\ DOMAIN other.path = 1..n
    BY <1>4, <1>5 DEF MatchesDecoded
  <2>2. \A i \in 1..n : other.path[i] = Param \/ <<other.path[i]>> = Decode(path[i])
    BY <1>5, <2>1 DEF MatchesDecoded
  <2>3. \A a, b : <<a>> = <<b>> => a = b
    OBVIOUS
  <2>4. \A i \in 1..n : c.method.path[i] \notin Args => other.path[i] \in {Param, c.method.path[i]}
    BY <1>3, <2>2, <2>3
  <2> QED
    BY <1>1, <2>1, <2>4, OnlyTemplate
<1>6. ASSUME other = row PROVE MatchesDecoded(other.path, path)
  BY <1>1, <1>2, <1>3, <1>4, <1>6 DEF MatchesDecoded
<1> QED
  BY <1>5, <1>6

\* What a call's path leads to is the row that lists its method, and the
\* arguments are bound to the row's parameters.
LEMMA ServedByItsRow ==
    ASSUME NEW c, c.method \in Methods, ~HasEmptySegment(Path(c))
    PROVE  \E row \in Table :
              /\ Offers(row, c.method) /\ Tunes(row, c.method) /\ SameRoute(row, c.method)
              /\ Served(c.method.verb, Path(c)) = {row}
              /\ Bound(row, Path(c)) =
                    [i \in {j \in DOMAIN row.path : row.path[j] = Param} |->
                        CASE c.method.path[i] = PlanArg -> c.plan
                          [] c.method.path[i] = IdArg -> c.id
                          [] OTHER -> MonthSegment(c.month)]
<1>1. PICK row \in Table : Offers(row, c.method) /\ SameRoute(row, c.method) /\ Tunes(row, c.method)
  BY MethodsListed DEF Listed
<1>2. PICK path : path = Path(c)
  OBVIOUS
<1>3. PICK n : n = Len(c.method.path)
  OBVIOUS
<1>4. /\ n \in Nat /\ Len(path) = n /\ DOMAIN path = 1..n
      /\ path \in Seq([text : {Given(c, c.method.path[i]) : i \in 1..n}, dotsEscaped : BOOLEAN])
      /\ \A i \in 1..n : /\ path[i].text = Given(c, c.method.path[i])
                         /\ path[i] # Plain(<<".">>) /\ path[i] # Plain(<<"..">>)
  BY <1>2, <1>3, PathOfCall
<1>5. Normalize(path) = path
  BY <1>2, <1>4, NormalPath
<1>6. Served(c.method.verb, path) = {row}
  <2>1. ASSUME NEW other \in Table, other.verb = c.method.verb
        PROVE  MatchesDecoded(other.path, path) <=> other = row
    <3>1. Len(path) = Len(c.method.path) /\ SameRoute(row, c.method)
      BY <1>1, <1>3, <1>4
    <3>2. \A i \in 1..Len(c.method.path) : path[i].text = Given(c, c.method.path[i])
      BY <1>3, <1>4
    <3> QED
      BY <2>1, <3>1, <3>2, Matched
  <2>2. row.verb = c.method.verb
    BY <1>1 DEF SameRoute
  <2> QED
    BY <1>5, <2>1, <2>2 DEF Served
<1>7. /\ DOMAIN row.path = 1..n
      /\ \A i \in 1..n : row.path[i] = Param => c.method.path[i] \in Args
  BY <1>1, <1>3, OwnTemplate
<1>8. PICK holes : holes = {j \in DOMAIN row.path : row.path[j] = Param}
  OBVIOUS
<1>9. ASSUME NEW i \in holes
       PROVE  Decode(path[i]) = CASE c.method.path[i] = PlanArg -> c.plan
                                  [] c.method.path[i] = IdArg -> c.id
                                  [] OTHER -> MonthSegment(c.month)
  <2>1. i \in 1..n /\ c.method.path[i] \in Args
    BY <1>7, <1>8
  <2>2. PlanArg # IdArg /\ PlanArg # MonthArg /\ IdArg # MonthArg
    BY DEF PlanArg, IdArg, MonthArg
  <2>3. Decode(path[i]) = Given(c, c.method.path[i])
    BY <1>4, <2>1 DEF Decode
  <2> QED
    BY <2>1, <2>2, <2>3 DEF Given, Args
<1>10. Bound(row, path) = [i \in holes |-> CASE c.method.path[i] = PlanArg -> c.plan
                                            [] c.method.path[i] = IdArg -> c.id
                                            [] OTHER -> MonthSegment(c.month)]
  <2>1. Bound(row, path) = [i \in holes |-> Decode(path[i])]
    BY <1>5, <1>8 DEF Bound
  <2> QED
    BY <1>9, <2>1
<1> QED
  BY <1>1, <1>2, <1>6, <1>8, <1>10

\* A query has no parameter that the row of its method does not list.
LEMMA QueryListed ==
    ASSUME NEW c, NEW row, Tunes(row, c.method), DOMAIN c.filter = transactionFilterParams
    PROVE  DOMAIN Query(c) \subseteq row.query
<1>1. CASE c.method.query = "since"
  <2>1. DOMAIN applyListOptions(c.since) \subseteq deltaParams
    BY DEF applyListOptions, NoQuery, NoFields, deltaParams
  <2> QED
    BY <1>1, <2>1 DEF Query, Tunes
<1>2. CASE c.method.query = "filter"
  <2>1. DOMAIN encode(c.filter) \subseteq transactionFilterParams
    BY DEF encode
  <2> QED
    BY <1>2, <2>1 DEF Query, Tunes
<1>3. CASE c.method.query = "accounts"
  <2>1. DOMAIN IncludeAccounts(c.accounts) \subseteq {"include_accounts"}
    BY DEF IncludeAccounts, NoQuery, NoFields
  <2> QED
    BY <1>3, <2>1 DEF Query, Tunes
<1>4. CASE c.method.query \notin {"since", "filter", "accounts"}
  BY <1>4 DEF Query, NoQuery, NoFields
<1> QED
  BY <1>1, <1>2, <1>3, <1>4

-----------------------------------------------------------------------------
(* The fake server.                                                         *)

\* A path of segments of one string is the sequence of these strings.
LEMMA Flattened ==
    ASSUME NEW S, NEW strings \in Seq(S), NEW n \in Nat \ {0}, n = Len(strings)
    PROVE  FlattenSeq([i \in 1..n |-> <<strings[i]>>]) = strings
<1>1. PICK seqs : seqs = [i \in 1..n |-> <<strings[i]>>]
  OBVIOUS
<1>2. Len(seqs) = n
  BY <1>1
<1>3. /\ SubSeq(strings, 1, 0) = <<>> /\ SubSeq(strings, 1, n) = strings
      /\ \A k \in 1..n : SubSeq(strings, 1, k) = Append(SubSeq(strings, 1, k - 1), strings[k])
  BY PrefixesGrow
<1>4. PICK prefix : prefix = [k \in 1..n |-> SubSeq(strings, 1, k)]
  OBVIOUS
<1>5. ASSUME NEW k \in 1..n
      PROVE  prefix[k] = IF k = 1 THEN seqs[k] ELSE prefix[k - 1] \o seqs[k]
  <2>1. strings[k] \in S /\ seqs[k] = <<strings[k]>> /\ prefix[k] = SubSeq(strings, 1, k)
    BY <1>1, <1>4
  <2>2. SubSeq(strings, 1, k - 1) \in Seq(S)
    BY SubSeqProperties
  <2>3. Append(SubSeq(strings, 1, k - 1), strings[k]) = SubSeq(strings, 1, k - 1) \o <<strings[k]>>
    BY <2>1, <2>2, AppendIsConcat
  <2>4. prefix[k] = SubSeq(strings, 1, k - 1) \o seqs[k]
    BY <1>3, <2>1, <2>3
  <2>5. CASE k = 1
    <3>1. SubSeq(strings, 1, k - 1) = <<>>
      BY <1>3, <2>5
    <3>2. <<>> \o seqs[k] = seqs[k]
      BY <2>1
    <3> QED
      BY <2>4, <2>5, <3>1, <3>2
  <2>6. CASE k # 1
    <3>1. k - 1 \in 1..n
      BY <2>6
    <3>2. prefix[k - 1] = SubSeq(strings, 1, k - 1)
      BY <1>4, <3>1
    <3> QED
      BY <2>4, <2>6, <3>2
  <2> QED
    BY <2>5, <2>6
<1>6. prefix = [k \in 1..n |-> IF k = 1 THEN seqs[k] ELSE prefix[k - 1] \o seqs[k]]
  BY <1>4, <1>5
<1>7. PICK flat : flat = CHOOSE f : f = [k \in 1..n |-> IF k = 1 THEN seqs[k] ELSE f[k - 1] \o seqs[k]]
  OBVIOUS
<1>8. flat = [k \in 1..n |-> IF k = 1 THEN seqs[k] ELSE flat[k - 1] \o seqs[k]]
  BY <1>6, <1>7
<1>9. FlattenSeq(seqs) = flat[n]
  BY <1>2, <1>7 DEF FlattenSeq
<1>10. PICK T : T = {k \in Nat : k + 1 <= n => flat[k + 1] = prefix[k + 1]}
  OBVIOUS
<1>11. 0 \in T
  BY <1>6, <1>8, <1>10
<1>12. ASSUME NEW k \in Nat, k \in T PROVE k + 1 \in T
  <2> SUFFICES ASSUME k + 2 <= n PROVE flat[k + 2] = prefix[k + 2]
    BY <1>10
  <2>1. k + 2 \in 1..n /\ k + 2 # 1 /\ (k + 2) - 1 = k + 1 /\ flat[k + 1] = prefix[k + 1]
    BY <1>10, <1>12
  <2>2. /\ flat[k + 2] = flat[k + 1] \o seqs[k + 2]
        /\ prefix[k + 2] = prefix[k + 1] \o seqs[k + 2]
    BY <1>6, <1>8, <2>1
  <2> QED
    BY <2>1, <2>2
<1>13. n - 1 \in T /\ (n - 1) + 1 = n
  <2>1. Nat \subseteq T
    BY <1>11, <1>12, Induction
  <2> QED
    BY <2>1
<1>14. flat[n] = prefix[n] /\ prefix[n] = strings
  BY <1>3, <1>4, <1>10, <1>13
<1> QED
  BY <1>1, <1>9, <1>14

\* What a parameter stands for.
Filled(s) == s # ""
LEMMA MatchesFilled ==
    ASSUME NEW template, NEW strings, \A i \in DOMAIN template : Filled(strings[i])
    PROVE  Matches(template, strings) <=>
              /\ Len(template) = Len(strings)
              /\ \A i \in DOMAIN template : template[i] = Param \/ template[i] = strings[i]
  BY Zenon DEF Matches, Filled

\* What an ordinary call gives for a segment is one string, the segment itself
\* where it is none of the arguments.
LEMMA GivenOrdinary ==
    ASSUME NEW c, Ordinary(c.plan), Ordinary(c.id), c.month # NoMonth, NEW a \in Segments
    PROVE  /\ Given(c, a) = <<Given(c, a)[1]>> /\ Filled(Given(c, a)[1])
           /\ a \notin Args => Given(c, a)[1] = a
<1>1. PlanArg # IdArg /\ PlanArg # MonthArg /\ IdArg # MonthArg
  BY DEF PlanArg, IdArg, MonthArg
<1>2. \A s : <<s>>[1] = s
  OBVIOUS
<1>3. CASE a \in {PlanArg, IdArg}
  <2>1. Given(c, a) = c.plan \/ Given(c, a) = c.id
    BY <1>1, <1>3 DEF Given
  <2> QED
    BY <1>3, <2>1, Zenon DEF Ordinary, Filled, Args
<1>4. CASE a = MonthArg
  <2>1. Given(c, a) = MonthSegment(c.month)
    BY <1>1, <1>4 DEF Given
  <2>2. Given(c, a) = <<"current">> \/ Given(c, a) = <<"2024-06-01">>
    BY <2>1, Zenon DEF MonthSegment
  <2>3. Filled("current") /\ Filled("2024-06-01")
    BY Zenon DEF Filled
  <2> QED
    BY <1>2, <1>4, <2>2, <2>3 DEF Args
<1>5. CASE a \notin Args
  <2>1. Given(c, a) = <<a>>
    BY <1>5 DEF Given, Args
  <2>2. Filled(a)
    BY NoneEmpty, Zenon DEF Filled
  <2> QED
    BY <1>2, <2>1, <2>2
<1> QED
  BY <1>3, <1>4, <1>5 DEF Args

\* The decoded path of an ordinary call is one string a segment.
LEMMA StringsOfCall ==
    ASSUME NEW c, c.method \in Methods, Ordinary(c.plan), Ordinary(c.id), c.month # NoMonth,
           NEW n, n = Len(c.method.path), NEW path, path = Path(c)
    PROVE  \E strings : /\ FlattenSeq([i \in DOMAIN path |-> Decode(path[i])]) = strings
                        /\ Len(strings) = n
                        /\ \A i \in 1..n : /\ strings[i] = Given(c, c.method.path[i])[1]
                                           /\ Filled(strings[i])
<1>1. /\ n \in Nat /\ DOMAIN path = 1..n
      /\ \A i \in 1..n : path[i].text = Given(c, c.method.path[i])
  BY PathOfCall
<1>2. n # 0
  <2>1. Worded(c.method)
    BY MethodsPlaced
  <2> QED
    BY <2>1 DEF Worded
<1>3. \A i \in 1..n : c.method.path[i] \in Segments
  <2>1. c.method.path \in Seq(Segments)
    BY MethodsWellFormed DEF WellFormed
  <2> QED
    BY <1>1, <2>1
<1>4. \A i \in 1..n : /\ Given(c, c.method.path[i]) = <<Given(c, c.method.path[i])[1]>>
                      /\ Filled(Given(c, c.method.path[i])[1])
  BY <1>3, GivenOrdinary
<1>5. PICK strings : strings = [i \in 1..n |-> Given(c, c.method.path[i])[1]]
  OBVIOUS
<1>6. PICK S : S = {strings[i] : i \in 1..n}
  OBVIOUS
<1>7. strings \in [1..n -> S]
  BY <1>5, <1>6
<1>8. strings \in Seq(S) /\ Len(strings) = n
  BY <1>1, <1>7
<1>9. [i \in DOMAIN path |-> Decode(path[i])] = [i \in 1..n |-> <<strings[i]>>]
  <2>1. \A i \in 1..n : Decode(path[i]) = <<strings[i]>>
    BY <1>1, <1>4, <1>5 DEF Decode
  <2> QED
    BY <1>1, <2>1
<1>10. FlattenSeq([i \in 1..n |-> <<strings[i]>>]) = strings
  BY <1>1, <1>2, <1>8, Flattened
<1>11. \A i \in 1..n : strings[i] = Given(c, c.method.path[i])[1] /\ Filled(strings[i])
  BY <1>4, <1>5
<1> QED
  BY <1>8, <1>9, <1>10, <1>11

\* The two creates of a transaction are told apart by the wrapper.
LEMMA CreatesWrapped ==
    /\ \A row \in Table :
          /\ row.id = "createTransaction" =>
                row.methods = {"TransactionsService.Create", "TransactionsService.CreateBatch"}
          /\ "TransactionsService.CreateBatch" \in row.methods => row.id = "createTransaction"
    /\ \A m \in Methods :
          /\ m.name = "TransactionsService.Create" => m.body = "transaction"
          /\ m.name = "TransactionsService.CreateBatch" => m.body = "transactions"
<1>1. \A row \in Table :
          /\ row.id = "createTransaction" =>
                row.methods = {"TransactionsService.Create", "TransactionsService.CreateBatch"}
          /\ "TransactionsService.CreateBatch" \in row.methods => row.id = "createTransaction"
  BY DEF Table, ClientRows, PlanRows, MonthRows, AccountRows, CategoryRows, PayeeRows,
      PayeeLocationRows, MoneyMovementRows, TransactionRows, TransactionsOfRows, ScheduledRows,
      Op, OpQ, Row
<1>2. \A m \in Methods :
          /\ m.name = "TransactionsService.Create" => m.body = "transaction"
          /\ m.name = "TransactionsService.CreateBatch" => m.body = "transactions"
  BY DEF Methods, ClientMethods, ExportMethod, SettingsMethod, AccountsService, CategoriesService,
      PayeesService, MonthsService, MoneyMovementsService, PayeeLocationsService,
      TransactionReads, TransactionCreates, TransactionWrites, ScheduledReads, ScheduledCreate,
      ScheduledWrites, Get, List, Write, Method
<1> QED
  BY <1>1, <1>2

\* The fake server resolves an ordinary call to the row of its method.
LEMMA ResolvedToItsRow ==
    ASSUME NEW c, c.method \in Methods, Ordinary(c.plan), Ordinary(c.id), c.month # NoMonth
    PROVE  \E row \in Table :
              /\ Offers(row, c.method) /\ Tunes(row, c.method) /\ SameRoute(row, c.method)
              /\ resolve(c.method.verb, Path(c), c.method.body) = {row}
<1>1. PICK row \in Table : Offers(row, c.method) /\ SameRoute(row, c.method) /\ Tunes(row, c.method)
  BY MethodsListed DEF Listed
<1>2. PICK path : path = Path(c)
  OBVIOUS
<1>3. PICK n : n = Len(c.method.path)
  OBVIOUS
<1>4. PICK strings : /\ FlattenSeq([i \in DOMAIN path |-> Decode(path[i])]) = strings
                     /\ Len(strings) = n
                     /\ \A i \in 1..n : /\ strings[i] = Given(c, c.method.path[i])[1]
                                        /\ Filled(strings[i])
  BY <1>2, <1>3, StringsOfCall
<1>5. /\ n \in Nat /\ DOMAIN c.method.path = 1..n /\ DOMAIN row.path = 1..n
      /\ \A i \in 1..n : IF c.method.path[i] \in Args THEN row.path[i] = Param
                         ELSE row.path[i] = c.method.path[i]
  BY <1>1, <1>3, OwnTemplate
<1>6. \A i \in 1..n : c.method.path[i] \notin Args => strings[i] = c.method.path[i]
  <2>1. c.method.path \in Seq(Segments)
    BY MethodsWellFormed DEF WellFormed
  <2>2. \A i \in 1..n : c.method.path[i] \in Segments
    BY <1>5, <2>1
  <2> QED
    BY <1>4, <2>2, GivenOrdinary
<1>7. ASSUME NEW other \in Table, other.verb = c.method.verb, Matches(other.path, strings)
      PROVE  other = row
  <2>1. Len(other.path) = n /\ DOMAIN other.path = 1..n
    BY <1>4, <1>7, RowsHoled DEF Matches
  <2>2. \A i \in 1..n : other.path[i] = Param \/ other.path[i] = strings[i]
    BY <1>4, <1>7, <2>1, MatchesFilled
  <2>3. \A i \in 1..Len(c.method.path) :
            c.method.path[i] \notin Args => other.path[i] \in {Param, c.method.path[i]}
    BY <1>3, <1>6, <2>2
  <2> QED
    BY <1>1, <1>3, <1>7, <2>1, <2>3, OnlyTemplate
<1>8. Matches(row.path, strings) /\ row.verb = c.method.verb
  <2>1. Len(row.path) = n /\ row.verb = c.method.verb
    BY <1>1, <1>3 DEF SameRoute
  <2>2. \A i \in 1..n : row.path[i] = Param \/ row.path[i] = strings[i]
    BY <1>5, <1>6
  <2> QED
    BY <1>4, <1>5, <2>1, <2>2, MatchesFilled
<1>9. row.id = "createTransaction" => c.method.body \in {"transaction", "transactions"}
  BY <1>1, CreatesWrapped DEF Offers
<1>10. resolve(c.method.verb, path, c.method.body) = {row}
  BY <1>4, <1>7, <1>8, <1>9 DEF resolve
<1> QED
  BY <1>1, <1>2, <1>10
=============================================================================
