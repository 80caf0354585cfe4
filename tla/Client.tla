------------------------------- MODULE Client --------------------------------
(***************************************************************************)
(* A client from its constructor to its requests: options that may fail,   *)
(* run in the order given, the Core assembled from what they left, and the *)
(* calls made with it.  What follows a request is RetryPipeline.  A client *)
(* never changes once it is built, so its calls are independent of each    *)
(* other and are looked at one at a time.                                  *)
(***************************************************************************)
EXTENDS Requests

CONSTANTS Options,      \* options the application may give
          MaxOptions,   \* bound: how many of them
          Calls,        \* calls it may make
          Probes,       \* bound: of them, those made with a client that was given options
          RawPaths,     \* paths it may hand to RawDo
          LocalToday,   \* the application's day
          Default,      \* a setting no option has touched
          Kept          \* a field of the server's that a write leaves alone

VARIABLES stage,    \* "new", "options", "ready"
          op,       \* the constructor used and what it was given
          options,  \* the options given so far
          client,   \* the Client: its settings and its stored error
          core,     \* the Core its calls run on
          call,     \* the call in progress
          verdict,  \* what it returned before any I/O; Ok: it was sent
          wire      \* the request sent

vars == <<stage, op, options, client, core, call, verdict, wire>>

NoCall == [name |-> "none"]
NoRequest == [verb |-> "none"]
NoError == [option |-> "none", reason |-> Ok]

Settings == {"WithHTTPClient", "WithBaseURL", "WithUserAgent", "WithTimeout",
             "WithRetryPolicy", "WithRetryDisabled", "WithLimiter", "WithLogger"}
Defaults == [s \in Settings |-> Default]

\* The payloads of each kind of method, in the fields that its check looks at.
Optional(values) == [state : {"unset", "null"}] \cup [state : {"value"}, value : values]
Dated == {NoDate} \cup {d \in [year : Int, month : 1..12, day : 1..31] : RealDay(d)}
PayeeMemo == [payee_name : Optional(Nat), memo : Optional(Nat)]
SplitLeg == [req : [amount : Milliunits], opt : PayeeMemo]

Payload(kind) ==
    CASE kind = "specs" -> [req : [amount : Milliunits, splits : Seq(SplitLeg)],
                            opt : [import_id : Optional(Nat),
                                   payee_name : Optional(Nat), memo : Optional(Nat)]]
      [] kind = "patches" -> [id : Nat, import_id : Nat, req : {NoFields}, opt : PayeeMemo]
      [] kind = "update" -> [req : {NoFields}, opt : PayeeMemo]
      [] kind = "scheduled" -> [req : [date : Dated], opt : PayeeMemo]
      [] kind = "reschedule" -> [req : {NoFields},
                                 opt : [date : Optional(Dated),
                                        payee_name : Optional(Nat), memo : Optional(Nat)]]
      [] kind \in {"payee", "group"} -> [req : [name : Nat], opt : {NoFields}]
      [] OTHER -> {}

\* The options there are, the calls there are, and today.
ASSUME OptionsAssumption == \A o \in Options : o.name \in Settings \cup {"Option"}
ASSUME CallsAssumption ==
    /\ \A c \in Calls \cup Probes : /\ c.method \in Methods
                                    /\ c.items \in Seq(Payload(c.method.check))
                                    /\ DOMAIN c.filter = transactionFilterParams
    /\ RealDay(LocalToday)

-----------------------------------------------------------------------------
(* The options: a name and an argument each.                                *)

\* A URL is what url.Parse makes of it.
URLFault(u) == IF u.parses /\ u.user THEN "URL must not carry credentials"
               ELSE IF ~u.parses \/ ~u.absolute \/ ~u.host THEN "not an absolute URL"
               ELSE IF u.scheme \notin {"http", "https"} THEN "scheme must be http or https"
               ELSE IF u.query \/ u.fragment THEN "URL must not carry a query or fragment"
               ELSE Ok

\* The retry policies that WithRetryPolicy accepts are Backoff's Accepted.
Fault(o) ==
    CASE o.name \in {"WithHTTPClient", "WithLimiter", "WithLogger"} ->
             IF o.arg = "nil" THEN "must not be nil" ELSE Ok
      [] o.name = "WithBaseURL" -> URLFault(o.arg)
      [] o.name = "WithTimeout" -> IF o.arg \in {"0s", "-1s"} THEN "timeout must be positive" ELSE Ok
      [] o.name = "WithRetryPolicy" -> IF o.arg = "refused" THEN "policy" ELSE Ok
      [] OTHER -> Ok

\* Mutant: a later failure replaces the first.
storeLastErr(c, option, reason) == [c EXCEPT !.err = [option |-> option, reason |-> reason]]

storeConfigErr(c, option, reason) ==
    IF c.err = NoError THEN [c EXCEPT !.err = [option |-> option, reason |-> reason]] ELSE c

\* A failing option leaves its setting alone; the zero Option does nothing.
Apply(c, o) == IF o.name = "Option" THEN c
               ELSE IF Fault(o) # Ok THEN storeConfigErr(c, o.name, Fault(o))
               ELSE [c EXCEPT !.settings[o.name] = o.arg]

-----------------------------------------------------------------------------
Init == /\ stage = "new"
        /\ op = NoCall
        /\ options = <<>>
        /\ client = [settings |-> Defaults, err |-> NoError]
        /\ core = Defaults
        /\ call = NoCall
        /\ verdict = "none"
        /\ wire = NoRequest

\* New(token) or NewWithTokenSource(ts); only a nil source fails at once.
Construct(name, credential) ==
    /\ stage = "new"
    /\ stage' = "options"
    /\ op' = [name |-> name, credential |-> credential]
    /\ client' = IF credential = "nil" THEN storeConfigErr(client, "ts", "must not be nil")
                 ELSE client
    /\ UNCHANGED <<options, core, call, verdict, wire>>

Give(o) == /\ stage = "options"
           /\ Len(options) < MaxOptions
           /\ options' = Append(options, o)
           /\ client' = Apply(client, o)
           /\ UNCHANGED <<stage, op, core, call, verdict, wire>>

\* Mutant: the Core holds the defaults, the options come too late for it.
BuildEarly == /\ stage = "options"
              /\ stage' = "ready"
              /\ core' = Defaults
              /\ client' = IF op.credential = "" THEN storeConfigErr(client, "token", "must not be empty")
                           ELSE client
              /\ UNCHANGED <<op, options, call, verdict, wire>>

\* The Core is assembled after the options; New then looks at its token.
Build == /\ stage = "options"
         /\ stage' = "ready"
         /\ core' = client.settings
         /\ client' = IF op.credential = "" THEN storeConfigErr(client, "token", "must not be empty")
                      ELSE client
         /\ UNCHANGED <<op, options, call, verdict, wire>>

\* do: the client's error and the empty segment, after the method's checks.
\* Mutant: the guard against empty segments left out.
RefusalUnguarded(c) ==
    errFirst(<< Preflight(c, LocalToday), client.err.reason >>)

Refusal(c) == errFirst(<< Preflight(c, LocalToday), client.err.reason,
                          IF HasEmptySegment(Path(c)) THEN "an id argument is empty" ELSE Ok >>)

Request(c) == [verb |-> c.method.verb, path |-> Path(c), query |-> Query(c), body |-> Body(c)]

Invoke(c) == /\ stage = "ready" /\ call = NoCall
             /\ call' = c
             /\ verdict' = Refusal(c)
             /\ wire' = IF Refusal(c) = Ok THEN Request(c) ELSE NoRequest
             /\ UNCHANGED <<stage, op, options, client, core>>

\* Mutant: the escape hatch also escapes the config-error contract.
RawRefusalNone == Ok
RawRefusal == client.err.reason

\* RawDo: the client's error is the only check.
RawDo(path) == /\ stage = "ready" /\ call = NoCall
               /\ call' = [name |-> "RawDo"]
               /\ verdict' = RawRefusal
               /\ wire' = IF RawRefusal = Ok
                          THEN [verb |-> "GET", path |-> path, query |-> NoQuery, body |-> NoFields]
                          ELSE NoRequest
               /\ UNCHANGED <<stage, op, options, client, core>>

Return == /\ call # NoCall
          /\ call' = NoCall
          /\ verdict' = "none"
          /\ wire' = NoRequest
          /\ UNCHANGED <<stage, op, options, client, core>>

Next == \/ \E t \in {"", "token"} : Construct("New", t)
        \/ \E ts \in {"nil", "source"} : Construct("NewWithTokenSource", ts)
        \/ \E o \in Options : Give(o)
        \/ Build
        \/ \E c \in Calls : options = <<>> /\ Invoke(c)
        \/ \E c \in Probes : options # <<>> /\ Invoke(c)
        \/ \E p \in RawPaths : RawDo(p)
        \/ Return

Spec == Init /\ [][Next]_vars

Sent == call # NoCall /\ wire # NoRequest
IsMethod == call \notin {NoCall, [name |-> "RawDo"]}

-----------------------------------------------------------------------------
(* Configuration.                                                           *)

Failed(i) == Fault(options[i]) # Ok
FirstFailed(i) == Failed(i) /\ \A j \in 1..(i - 1) : ~Failed(j)
NoneFailed == \A i \in DOMAIN options : ~Failed(i)

\* The error a client keeps names the first thing that failed and why, however
\* many options fail or succeed after it: the source, an option, the token.
FirstFailureKept ==
    stage = "ready" =>
        \/ op.credential = "nil" /\ client.err = [option |-> "ts", reason |-> "must not be nil"]
        \/ op.credential # "nil" /\ \E i \in DOMAIN options :
               FirstFailed(i) /\ client.err = [option |-> options[i].name, reason |-> Fault(options[i])]
        \/ /\ op.credential = "" /\ NoneFailed
           /\ client.err = [option |-> "token", reason |-> "must not be empty"]
        \/ op.credential \notin {"nil", ""} /\ NoneFailed /\ client.err = NoError

\* Nothing reaches the network from a client with a failed option, neither by
\* a method nor by RawDo.
Sound == op.credential \notin {"nil", ""} /\ NoneFailed
NothingSentMisconfigured == Sent => Sound

\* A request runs on the last accepted value of every setting, wherever a
\* refused one of the same setting came between.
LastSettingWins ==
    Sent => \A s \in Settings :
                LET given == {i \in DOMAIN options : options[i].name = s /\ ~Failed(i)}
                IN  IF given = {} THEN core[s] = Default
                    ELSE \E i \in given : /\ \A j \in given : j <= i
                                          /\ core[s] = options[i].arg

\* The config-error contract of New, and what a sound configuration means.
ConfigContract == FirstFailureKept /\ NothingSentMisconfigured /\ LastSettingWins

-----------------------------------------------------------------------------
(* Requests.                                                                *)

\* Whatever strings stand for ids, the request of a method is served by the
\* one operation that lists the method in the contract, bound to the ids it
\* was given and tuned by parameters that operation has.
OwnRoute ==
    Sent /\ IsMethod =>
        \E row \in Table :
            /\ Served(wire.verb, wire.path) = {row}
            /\ call.method.name \in row.methods
            /\ DOMAIN wire.query \subseteq row.query
            /\ Bound(row, wire.path) =
                  [i \in {j \in DOMAIN row.path : row.path[j] = Param} |->
                      CASE call.method.path[i] = PlanArg -> call.plan
                        [] call.method.path[i] = IdArg -> call.id
                        [] OTHER -> MonthSegment(call.month)]

Within(fields, name, limit) ==
    name \in DOMAIN fields => fields[name] = Null \/ fields[name] <= limit

ItemWithin(item) ==
    /\ Within(item, "import_id", 36)
    /\ Within(item, "payee_name", 200)
    /\ Within(item, "memo", 500)
    /\ "id" \in DOMAIN item \/ "import_id" \in DOMAIN item \/ call.method.check # "patches"
    /\ Within(item, "name", IF call.method.body = "payee" THEN 500 ELSE 50)
    /\ "date" \in DOMAIN item /\ item.date # Null =>
           DayNumber(item.date) - DayNumber(LocalToday) \in 0..1827

ExactSum(legs) == Total([i \in DOMAIN legs |-> legs[i].amount])

\* Every item of every body sent respects the bounds the API states, each leg
\* of a split too, and the legs of a split sum exactly to its amount if their
\* sum is an amount at all.
SentWithinBounds ==
    Sent /\ IsMethod =>
        \A i \in DOMAIN wire.body.items :
            LET item == wire.body.items[i]
            IN  /\ ItemWithin(item)
                /\ "splits" \in DOMAIN item =>
                       /\ \A j \in DOMAIN item.splits : ItemWithin(item.splits[j])
                       /\ item.splits # <<>> /\ ExactSum(item.splits) \in Milliunits
                             => ExactSum(item.splits) = item.amount

Parts(item) ==
    {item} \cup IF "splits" \in DOMAIN item.req THEN ToSet(item.req.splits) ELSE {}
Over(x, key, limit) == /\ key \in DOMAIN x.opt
                       /\ x.opt[key].state = "value"
                       /\ x.opt[key].value > limit
DateOut(d) == d = NoDate \/ DayNumber(d) - DayNumber(LocalToday) \notin 0..FiveYears(LocalToday)

\* What the API would refuse of an item, field by field.
Wrong(item, field) ==
    CASE field = "payee_name" -> \E x \in Parts(item) : Over(x, field, 200)
      [] field = "memo" -> \E x \in Parts(item) : Over(x, field, 500)
      [] field = "import_id" -> \/ Over(item, field, 36)
                                \/ field \in DOMAIN item /\ item.import_id > 36
      [] field = "id" -> item.id = 0 /\ item.import_id = 0
      [] field = "name" -> item.req.name > IF call.method.body = "payee" THEN 500 ELSE 50
      [] field = "amount" -> ExactSum([j \in DOMAIN item.req.splits |-> item.req.splits[j].req])
                                 # item.req.amount
      [] field = "date" -> IF field \in DOMAIN item.req THEN DateOut(item.req.date)
                           ELSE DateOut(item.opt.date.value)

\* A call on a sound client is refused only for something the API would
\* refuse, named by the verdict.  Bounds count characters and end at the bound;
\* unset and null fields have none.
RefusedForCause ==
    IsMethod /\ Sound /\ verdict # Ok =>
        CASE verdict = "an id argument is empty" -> <<"">> \in {call.plan, call.id}
          [] verdict = "month" -> call.month = NoMonth
          [] OTHER -> \E i \in DOMAIN call.items : Wrong(call.items[i], verdict)

\* What a write does to a field of the server's: one that is not there leaves
\* it as it was, null clears it.
Effect(item, key) == IF key \in DOMAIN item THEN item[key] ELSE Kept
Chosen(o) == CASE o.state = "unset" -> Kept
               [] o.state = "null"  -> Null
               [] OTHER -> o.value

\* Every optional field has on the server the effect its caller chose (keep,
\* clear or set, also to the empty string), and a patch names one identity.
BodyHasChosenEffect ==
    Sent /\ IsMethod =>
        \A i \in DOMAIN call.items :
            LET item == wire.body.items[i]
            IN  /\ \A k \in DOMAIN call.items[i].opt :
                      Effect(item, k) = Chosen(call.items[i].opt[k])
                /\ call.method.check = "patches" =>
                       ("id" \in DOMAIN item <=> "import_id" \notin DOMAIN item)

\* The query is what the caller tuned: the cursor of its last Since, every
\* filter it set with its own value, nothing for what it left zero.
QueryAsTuned ==
    Sent /\ IsMethod =>
        CASE call.method.query = "since" ->
                 call.since # <<>> => wire.query["last_knowledge_of_server"] = call.since[Len(call.since)]
          [] call.method.query = "filter" ->
                 \A k \in DOMAIN call.filter :
                    IF call.filter[k] = 0 THEN k \notin DOMAIN wire.query
                    ELSE k \in DOMAIN wire.query /\ wire.query[k] = call.filter[k]
          [] OTHER -> TRUE

\* A request asks for what its caller asked for, in its body and in its query.
SentAsAsked == BodyHasChosenEffect /\ QueryAsTuned
=============================================================================
