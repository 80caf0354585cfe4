---------------------------- MODULE MCFakeServer -----------------------------
(***************************************************************************)
(* Tests that share a server: a few calls with faults, or every method     *)
(* with a cursor and without one.                                          *)
(***************************************************************************)
EXTENDS FakeServer

JuneOf2024 == [year |-> 2024, month |-> 6, current |-> FALSE]
NoFilter == [f \in {"since_date", "until_date", "type", "last_knowledge_of_server"} |-> 0]

CallOf(m, id, since) ==
    [name |-> "method", method |-> m, plan |-> <<"p1">>, id |-> <<id>>, month |-> JuneOf2024,
     since |-> since, filter |-> NoFilter, accounts |-> FALSE, items |-> <<>>]

Named(names) == {m \in Methods : m.name \in names}

FewCalls == {CallOf(m, "a1", <<>>) : m \in Named({"PayeesService.List", "PayeesService.Create",
                                                         "TransactionsService.Delete"})}

AllCalls == {CallOf(m, id, since) : m \in Methods, id \in {"a1", "import", "months"},
                                    since \in {<<>>, <<0>>, <<7>>}}

Fault(status, id) == [status |-> status, id |-> id]
FewFaults == {Fault(403, "403.1"), Fault(429, "429"), Fault(503, "503")}
=============================================================================
