# A TLA+ model of ynab.go

`ynab.go` is a Go client for the YNAB API.  It keeps no database and starts no
goroutine of its own; what makes it hard is what happens around it: requests
that are lost or arrive late, answers that ask for patience, callers that give
up, plans that change while they are read, processes that die between two
steps.  These modules model the parts of the code where such things matter.

    tlc -config MCRetryPipeline_one.cfg MCRetryPipeline      # a run
    tlapm RetryPipelineProofs.tla                            # the proofs

`PROJECT.json` lists every run, the mutant that each property must catch, the
source lines behind every definition, the hazards and the theorems.

## The system: inventory

**Retry pipeline** (`internal/transport/transport.go`, `retry.go`).  Every
operation is `Do` or `DoRaw` on one shared `Core`: `execute` runs attempts, each
of them limiter, token, send and read under one timeout; `classify` decides
between abort, retry and done; a `sleeper` waits in between.  The `Core` is
read-only after construction, so calls share no state in it; they meet in the
limiter, in the token source and on the server.  Per call: attempts, the last
result, the timer.  Hard: requests applied although their answer is lost,
requests delivered after the attempt was given up, a caller that cancels while
the timer fires, a token rotating between attempts, a server that never stops
answering 429.  Correct means: a write that is not blindly retried is carried
out at most once; what is reported agrees with what was done; the server's
Retry-After is waited out, where it parses; canceling ends the call; every call
returns.

**Backoff policy** (`retry.go`, `client.go`).  `WithRetryPolicy` fills defaults
and refuses what the arithmetic could not bear; `retryDelay` computes a jittered
wait with a shift; `RetryAfterDelay` reads seconds or a date.  Hard: int64
overflow in the shift and the multiplication.  Correct means: the wait is
positive, within the documented interval, within the cap, never shorter than
what the server asked for in a header that parses.

**Delta sync** (`plan.go`, `sync.go`).  `Plan.Delta` reads what changed since the
cursor in a `SyncState` and moves the cursor; the application folds the batch
into its store with `MergeByID`.  Three parties hold state: the server (entities
and a knowledge counter per plan), the `SyncState`, the store.  Hard: failures
between them, changes during a read, states of another plan, states that lost
their plan id, deletions.  Correct means: the store is always exactly the plan at
the cursor.

**delta-sync example** (`examples/delta-sync/main.go`).  A poller that persists its
`SyncState` with write-and-rename.  Hard: being killed anywhere, the plan list
changing its order.  Correct means: what is saved was merged, and belongs to one
plan.

**Client options** (`client.go`).  Options run in order at construction; the first
error is kept and every later call fails with it before any I/O.

**Pre-flight and request building** (`plan.go` `do`, `transport.go` `requestURL`,
`JoinPath`, `marshalBody`).  Guards against empty ids that would reroute a request.

**Error taxonomy** (`errors.go`, `envelope.go`).  Wire errors become `*Error`;
`errors.Is` matches them to sentinels by id first and status second; `IsRetryable`
repeats the pipeline's judgement for callers with a loop of their own.  Correct
means: the two agree.

**Resource services** (`transactions.go`, `scheduled.go`, `categories.go`,
`accounts.go`, `payees.go`, `months.go`, `money_movements.go`,
`payee_locations.go`, `client.go`).  Each method validates, then is one call of the
pipeline.  They keep no state.  Hard: server knowledge that a list does not
return, a 404 that means empty, categories nested in groups, knowledge that a
write returns.

**Value types** (`milliunits.go`, `date.go`, `month.go`, `optional.go`).  Pure:
amounts in int64 thousandths, splitting and formatting them, dates and their
order, optional JSON fields.  Hard: overflow, rounding, boundaries.

**Tools around the client.**  `internal/ynabtest` (a fake server with one-shot
failures), `internal/contract` (comparison of the code with `openapi.yaml` in CI),
`oauth_live_test.go` (a token source with single-use refresh tokens),
`scripts/` and the other examples.

## The modules

    Backoff                 the arithmetic of waiting (operators only)
      MCBackoff             waits over a whole call, on an 8-bit word
    CallContract            abstract: what a caller may rely on
    RetryPipeline           extends Backoff, implements CallContract
      MCRetryPipeline       headers for the runs
      RetryPipelineProofs   extends MCBackoff too: the waits, for every word; then type,
                            effects, hooks, refinement, Retry-After, cancellation, giving up
    Errors                  error values: decoding, sentinels, IsRetryable (operators only)
      ErrorFlow             where the errors of a call come from, and the caller's loop
        MCErrorFlow         the answers of the API
        ErrorFlowProofs     sentinels, agreement, the caller's loop
    SnapshotReplica         abstract: a replica that moves from snapshot to snapshot
    PlanSync                implements SnapshotReplica
      DeltaSyncExample      extends PlanSync with a process and its disk
        DeltaSyncProofs     snapshots, refinement; what the example saves
    SyncStreams             the services' own lists as streams of one plan
      MCSyncStreams         the groups of categories
      SyncStreamsProofs     the cursors
    Money                   amounts and their texts (operators only)
    Calendar                dates, months, the window of scheduled dates (operators only)
      MCMoney, MCCalendar   an application busy with either
      MCValues              both, for one run
        ValuesProofs        extends RequestsProofs too, for its induction: splits, texts and
                            rendering on any word; the window and one calendar, for every day
    Routes                  the contract's operations, paths, routing (operators only)
    Requests                extends Routes, Money, Calendar: every method, its checks,
                            its path, query and body (operators only)
      RequestsProofs        methods and rows, and the routes that paths lead to
      Client                construction, options and calls
        MCClient            the options and calls tried
        ClientProofs        extends ValuesProofs too: configuration, what a request says,
                            its bounds, what is refused, where it is served
      FakeServer            extends Requests and Errors: tests that share the fake API
        MCFakeServer        the faults and calls tried
        FakeServerProofs    extends RequestsProofs too: one-shot failures and fixtures

A definition called *Mutant* in a comment is a plausible bug.  No specification
uses it; the definition after it is the code.

### Backoff

`Accepted`, `Resolve` and `WithRetryPolicy` are the option of that name;
`RetryAfterDelay`, `retryAfterCap`, `JitterUpper` and `retryDelays` are the
functions of `retry.go`.  Numbers are those of a register of `WordBits` bits:
`Wrap` is what Go's int64 multiplication and shift leave.  `ReadAsSeconds` is the
condition of `retry.go:160`: `strconv.Atoi` fails on seconds that no int holds (2^63 and
more), no date parses then, and the wait is unknown; the clamp of line 161 is for
seconds that do parse and overflow a Duration.  `Advised` is what a header that
parses asks for in exact arithmetic, the measure of both modules' properties on
Retry-After.  The random factor in
[0, 1) becomes the set of waits it can produce.  The rounding of the float64
product is left out: on waits the code can reach it changes nanoseconds.

### RetryPipeline

One call `c` is a row of functions indexed by `Calls`; `pc[c]` says where it stands:

| `pc` | in the code |
|---|---|
| `limiter`, `token`, `send`, `await` | inside `attempt`: `Wait`, `Token`, up to `HTTPClient.Do`, until the body is read |
| `classify` | after `attempt`, at `classify` and the exits of the loop |
| `delay`, `backoff` | `retryDelay`; the `select` of `sleeper.sleep` |
| `done` | `Do` returned `out[c]` |

The per-attempt timeout has no clock: it is one of the reasons of `HookFails` and
`SendFails`, which may happen at any moment.  `SendFails` leaves the request on the
wire, where it may be lost (`Lose`) or carried out (`Serve`) at any later time,
after the call returned too.  `Serve` is the server: a 2xx was carried out, a 4xx
was not (the code's own assumption, `retry.go:93`), and any other answer says
nothing.  `Tick` counts down the timers and, in `advice`, the wait the server asked
for, kept apart from the timer so that a property can compare them.  `permits`,
`floor` and `endedAt` are history variables.

The limiter is always there.  A client without one is the special case in which
`LimiterGrants` is always taken.  `Wait` and `Token` are asked of each attempt anew,
their failure ends the call (`hookError`).

### CallContract

A caller sees a call open, effects happen, a verdict: succeeded, refused or
unknown.  A write that must not be repeated has at most one effect, none when it
was refused; success needs an effect.  The refinement mapping takes `applied` for
the effects and hides attempts, hooks, timers and the network.

### PlanSync and SnapshotReplica

An entity's content is the pair of its plan and the knowledge of its last change:
properties need to tell versions apart and nothing else.  `past[p][k]` records plan
`p` at knowledge `k`.  The call of Delta is in three steps (`CallDelta`, the
server's `Answer`, `DeltaReturns` or `DeltaFails`) so that the plan may change
between them; `Merge` is the application's call of `MergeByID`.  `StartOver` and
`LosePlanID` are things applications do to a `SyncState`.  The server
(`Alter`, `ExportBatch`, `Answer`) is modelled from how the client uses it and from
`openapi.yaml`: deleted entities are only in answers to delta requests.
`SnapshotReplica` says what an application believes.

### DeltaSyncExample

The process (`proc`), the state file and its `.tmp` sibling.  `Crash` is enabled in
every step of a running process and loses what is in memory.  `Boot` takes any plan
for the first of the list.  A file that was cut short is `Torn`, and `loadState`
treats it as no file.

### SyncStreams

A stream is one list of a plan with its cursor in `SyncState` and its store.  All
streams of a plan share one server knowledge, so a change anywhere moves what every
other list will return.  `Read`, `Answer`, `Land` are a call of a list with `Since`,
the server's part of it and the application's use of the result (`Flatten`,
`MergeByID`, the cursor); `Write`, `Apply`, `Land` are a write, whose answer is merged
but whose knowledge is not adopted.  `Fail` ends a call at any moment, after the
server did its part too.  `Knowledges` is what the lists return: a hybrid list may
have none (`transactions.go:281`), the scheduled list none while the server answers
404 (`scheduled.go:184`).  `Guarded` is the rule of `sync.go` that one stream has one
call at a time; the mutant `GuardedLoosely` shows that `CursorSound` needs it.

### Errors and ErrorFlow

An error value is its chain: the wrappers and causes that `errors.Is` and `errors.As`
look at, and for a wire error its status and id.  `sentinelByID`,
`sentinelByStatus`, `Satisfies`, `Is`, `IsRetryable` and `decodeWireError` are the
definitions of `errors.go`.  `Chains` lists which chains each step of an attempt can
produce, the difference between an attempt's own deadline and the caller's
included.  `ErrorFlow` has the loop of `RetryPipeline` without its timing, and the
application's loop around the call (`Requeue`).

### Money and Calendar

`Money` works on a word of `WordBits` bits, so that the wrap of an int64 addition
and the magnitude of the most negative amount are states like others.  A text is
its sign and its digits; symbols and separators are left out.  `Calendar` has Go's
`time.Date` normalization on the proleptic Gregorian calendar (external) under the
library's `Date` and `Month`.

### Routes, Requests and Client

A path is a sequence of segments, each a sequence of words, so that a slash inside an
id differs from one between segments until someone unescapes it.  On the wire a segment is
what decoding makes of it and whether its dots are escaped: the dot segments are what
percent-encoding leaves as it is and a server resolves before it decodes, so an id `%2E`
is not the id `.`.  `Table` is the
contract table of `internal/contract/table.go`: operation, verb, path, the query
parameters it takes, the methods that call it.  `Methods` are the methods of all
services as records of what they put where and what they check; `Preflight`, `Path`,
`Query` and `Body` translate the shared helpers.  Texts are their lengths in
characters.  `Optional` fields have their three states; `Fields` joins the required
ones with those that `omitzero` leaves, as the encoder writes them (`Encoded`).  Fields
that a method only copies to the wire are left out.  In `Client`, `Construct`, `Give`
and `Build` are the constructor, `Invoke` and `RawDo` a call up to the moment the
request is handed to `RetryPipeline`.

### FakeServer

`Take` is the part of the handler under its mutex, `Respond` the part after the unlock;
between them other tests arm, call and retry.  `own` and `spent` are history
variables.  A fixture is its operation and its variant.

## Runs

| run | shows | distinct states |
|---|---|---|
| `backoff` | waits bounded, documented, never short of the server's advice, ceiling never wraps | 14 thousand |
| `pipeline` | the safety of one call, that it implements `CallContract`, and that it returns | 43 thousand |
| `two_calls` | limiter and token are those of the attempt, with another call and a rotation in between | 915 thousand |
| `delta_sync` | the store is a snapshot, moves by snapshots, and converges under polling | 118 thousand |
| `example_restarts` | what the example saves | 468 thousand |
| `example_resumes` | a counterexample, see Findings | - |
| `values` | amounts survive printing, reading, rendering and splitting; dates, months and the window agree with the calendar | 56 thousand |
| `client` | options, pre-flight and requests of every method | 245 thousand |
| `streams` | cursors are true of their stores, never fall back, and stores converge | 137 thousand |
| `errors` | sentinels nest, the pipeline and `IsRetryable` agree on answers, a caller's loop ends | 11 thousand |
| `errors_same` | a counterexample, see Findings | - |
| `fake_server` | a fault hits one attempt, the one it was meant for; fixtures do not mix | 41 thousand |

Bounds.  `WordBits = 8` puts every overflow within reach: 127 is the largest
duration, and the policies and headers tried sit at and around 0, 31/32 (the last
shifts), 63/64 (the clamp of a Retry-After), 127 (the last seconds that
parse) and 128 (the first that do not; `pipeline` has that header too).  Nine retries pass the end of
the word.  `MaxAttempts = 3` has a first, a middle and a last attempt, and two
requests that can be in the network while a third is sent (`two_calls` has two
attempts: one retry is enough for a stale token or permit).  Calls share only the
limiter, the token source and the server, so one call has every behaviour but those
of a rotation that another call lives through; `two_calls` has it.  The verbs of
each run hold one retried blindly (GET, DELETE) and one that is not (POST); the
statuses hold one of each class that `classify` and `Do` tell apart, and 504, a
server error that is not retried.  A client with `WithRetryDisabled` is the case of
one attempt, which `AtMostOnceCorrect` covers for every verb.  `RetryWrites` is off in
all runs, the default; the theorems hold for both values.  `MaxKnowledge = 3`
allows, after any initial plan, two changes: to one entity or to two, before, between
and during reads, a deletion of what is new among them; two plans are enough to
confuse them; two entities, to have one in a batch and one not.
`DeltaSyncExample` has one entity, as its properties are about cursors and files.

`streams` has a hybrid list, whose knowledge may or may not come back, so that it
answers whatever the plain and the scheduled lists may and more, and the nested
categories.  Two changes after the first knowledge are what it takes for a write and
a stranger's change to come between two reads.  `values` runs on 12 bits, where
amounts have up to four digits and both ends of the word are met, with the decimal
digits that the wire uses; the days are those around two Februaries, one of a leap
year, and a year's end, the years both ends of the wire's four digits.  In `client`
the options come in every sequence of up to three, which is enough for a failure, a
later failure and a success between them; the calls of a client without options vary
one thing at a time around an ordinary call (ids that are empty, dot segments, slashes
and words of routes; texts at their bound and one past it; dates at both ends of the
window; legs that sum to the amount, to another, and past the end of the word), and
the clients with options make a few calls each (`Probes`).  `errors` has every status
the API documents and two it does not, two attempts and three calls of the
application's loop.  `fake_server` has two tests and two faults; tests that run at
once make the calls of `Shared`, two that are retried blindly among them and one that
is not; any other call is made while nobody else uses the server.

`client` and `fake_server` are checked for deadlock: a client can always call, a test
always finish.  In the other runs something ends by nature or by bound: calls return,
plans reach the bound on their changes, a value has been looked at.

Fairness.  `FairSpec` asks that a goroutine which can run does (`WF` on each call's
`Step`) and that time passes (`WF` on `Tick`).  `Step` includes `SendFails` and
`HookFails`, because every attempt runs under a context with a deadline
(`transport.go:114`); nothing is asked of the network, the server, or the caller.
`PlanSync.Polling` asks that the application calls and merges (`WF`), and that the
network lets an exchange through again and again (`SF` on `Answer` and
`DeltaReturns`); failures may happen infinitely often.  `PollingConverges` is about an
application that from some moment on neither starts over nor loses its plan id.
`SyncStreams.Polling` asks the same of each stream, `SF` on `Read` too because writes
may always come first, and that every write comes to an end, which is
`EveryCallReturns`.

## Proofs

All theorems hold for every value of the constants that the named assumptions
allow.  The assumptions say what the code's types and constructors let through:

| assumption | says |
|---|---|
| `WordAssumption`, `UnitAssumption` | durations are numbers of a word; a minute is one of them, and not the last |
| `PowerAssumption` | the powers of two of the word, which the solvers do not compute |
| `TriedAssumption` | the policies tried are numbers of the word, the defaults too |
| `CoreAssumption` | the policy is one `newClient` hands to the `Core`; statuses and headers have their kinds |
| `SyncAssumption`, `FileAssumption`, `StreamsAssumption` | no plan, no entity, no file are values of their own; an entity has one group |
| `AnswersAssumption` | an answer with a known error id has that id's status, as `openapi.yaml` has it |
| `FaultsAssumption` | injected failures are 4xx and 5xx |
| `CallsAssumption` of `FakeServer` | tests call the client's methods with ordinary ids, one non-empty string each, and with a month |
| `HalvesAssumption` | the two powers of two that bound a word of amounts, which the solvers do not compute |
| `TensAssumption` | the powers of ten up to three beyond the longest number of the word, which the solvers do not compute either |
| `PartsAssumption` | a number of parts is a positive number of the word |
| `TextAssumption` | texts are of decimal digits |
| `ShownAssumption` | at most three decimals are asked for, the most the wire has; a word has room for half a unit beside an amount, as 64 bits have; a number to be grouped has at most as many digits as the word has bits |
| `CalendarAssumption` | the clock has a first day and runs, and months are walked and texts read, in the years the wire's four digits have |
| `OptionsAssumption`, `CallsAssumption` of `Client` | an option has one of the names; a call is of one of the methods, its items have the fields of that method's write model, each with a value of its type (`Payload`), and its filter those of `TransactionFilter`; today is a day; nothing is assumed of its ids |

TLC evaluates all of them on the runs.

- `DelayBounds`, `DelayInterval` and `CeilingGrows` (`RetryPipelineProofs`): every wait is in
  1..cap; without advice it is in the documented interval, in exact arithmetic; the
  ceiling of the jitter never comes down.  The facts behind them are that the shift is
  taken only where it fits (`CeilingFits`), that the doubling test finds the smaller of
  `MaxBackoff` and `MinBackoff * 2^i` (`CeilingIsExact`) and that the clamp comes before the
  multiplication (`RetryAfterFits`).
- `BoundedCorrect`, `AdviceHonouredCorrect` and `NeverFallsCorrect` (`RetryPipelineProofs`):
  `WaitBounded`, `AdviceHonoured` and `CeilingNeverFalls` of a whole call.  They are
  inductive as they stand; `AdviceWaited` says that a header which parses and is slept
  through is not cut by the cap, and that one which does not parse leaves the wait to
  the jitter.  Retries are counted up to one past the width of the word, as far
  as `PowerAssumption` knows the powers of two.
- `TypeCorrect`: `TypeOK /\ LoopInvariant`.  The type alone is not inductive:
  `att[c] \in 0..Attempts` needs that a call which sleeps has attempts left, and
  `permits` that the limiter keeps step with the loop.  `LoopInvariant` says so.
- `EffectsCorrect`: `EffectsTracked`, the argument for the effects.  A single-shot
  call (a write without `RetryWrites`, or any call of one attempt) that may still send
  has no request in the network and none carried out.  It is preserved because such a
  call goes on only after a 429, a refusal, whose request left the wire without effect;
  after anything else `classify` ends it.  `AtMostOnceCorrect`, `RefusedCorrect` and
  `SuccessCorrect` follow.
- `HooksCorrect`: `HooksPerAttempt`, from `LoopInvariant`.
- `PipelineImplementsContract`: initial states map to initial states, `Finish` and
  `CancelSleep` to `Close`, `Serve` with an effect to `Effect`, `Start` to `Open`,
  everything else to a stutter.
- `RetryAfterCorrect`: `RetryAfterHonoured`, for every header (one that does not parse
  advises nothing, see `Advised`), where the cap is below the largest
  duration (MaxBackoff below 292 years in the code; with a larger one a header that
  overflows is waited out only that long).  `AdviceTracked` follows the header from the
  answer through the result to the timer; `WaitCovers` is its arithmetic: what
  `classify` let through is not cut by the `min` of `retryDelay`, although a date is
  read twice and comes nearer in between.
- `CancelCorrect`: `CancelEndsRetries`.  An attempt begun after the context ended sends
  nothing, so its failure ends the call (`CancelTracked`).
- `GivingUpCorrect`: `GivesUpOnlyWhenSpent`, from the verdicts of `classify` and
  `TooLongCorrect`: a 429 that is handed to the caller asks for more than the cap.
- `SnapshotCorrect` and `ReplicaCorrect` (`DeltaSyncProofs`): `StoreIsSnapshot` and the
  refinement of `SnapshotReplica`.  That the store is a snapshot is not inductive: an
  answer computed from a wrong history, or for a state of another plan, would break it
  two steps later.  `SyncInvariant` adds that the history is true (what has not changed
  since k was at k what it is now), that a state without cursor goes with an empty store
  and a call under way is for the state's plan, and that the batch on its way turns
  the store into the plan at the answer's knowledge (`AnswerMerges`).
- `SavedCorrect`, `FirstProcessCorrect` and `SavedCursorCorrect` (`DeltaSyncProofs`): what
  the example saves, from `ExampleInvariant`.  `SyncInvariant` is false of a process that
  resumed with an empty store, so what it says of the store is asked only of one that
  did not (`FreshSound`); of the answers a resumed process keeps that they are newer than
  its state (`KnowledgeSound`).  What is about to be saved was merged (`ProcessSound`), as
  was what the file holds (`FilesSound`), and a running process is never behind its file,
  nor at another plan (`AheadOfFile`), from which the saved cursor advances.
- `StreamsCorrect`, `CursorCorrect` and `AdvanceCorrect` (`SyncStreamsProofs`).  `CursorSound`
  alone breaks when an answer lands.  `AnswerSound` is the weakest precondition of
  landing: the store that the answer makes is right up to the cursor it brings, which
  for a write, whose knowledge is not adopted, is the cursor the stream has.  It
  survives changes made while the answer travels, because they are of a knowledge the
  answer does not claim (`KnowledgeAhead`), and it needs one call per stream at a time.
- `NestCorrect`, `AgreeCorrect`, `GaveUpCorrect` and `CancelLoopCorrect` (`ErrorFlowProofs`), for
  any answers and number of attempts.  That the pipeline and `IsRetryable` agree is a fact
  about `sentinelByID` and `sentinelByStatus`; the other two come from `FlowInvariant`: what
  made a GET come back early (`ReturnSound`), and that a call begun after the
  cancellation is `Doomed`, to get no answer and a failure `IsRetryable` does not repeat.
- `FailsOnceCorrect` and `ReachesItsTestCorrect` (`FakeServerProofs`), from `FaultInvariant`: a
  fault is armed, with one handler between the unlock and the answer, or spent, never
  two of these (`OnePlace`); and while nobody else touches the server it is on its way to
  the test that armed it, or eaten by that test's retry, with the real answer on its
  way (`FaultOnItsWay`).
- `RouteCorrect` (`ClientProofs`): `OwnRoute`, for any ids, and `FixtureCorrect`
  (`FakeServerProofs`): `FixtureOfItsOperation`, for any tests and calls.  Both rest on
  `RequestsProofs`, which compares the two tables.  In both, paths have words at their
  odd places and arguments at the even ones (`MethodsPlaced`, `RowsHoled`; `import` is the
  one word at an even place), and a row is known by its verb, its length and its words
  (`RowsCoded`, `CodesApart`), so no two rows have one route (`OneRowARoute`) and every
  method has its row (`MethodsListed`).  What is left is what a server does with a path: the
  real one leaves a path without empty and without dot segments as it is (`NormalPath`, by
  induction on its prefixes), and `do` and `JoinPath` see to both (`PathOfCall`); the fake one
  takes its strings one after the other (`Flattened`), which are as many as the segments
  because its ids are ordinary.  Then a row that matches agrees with the method on its
  words, and is its row (`Matched`, `OnlyTemplate`).  `FixtureCorrect` adds the invariant
  `AnswersServed`: an attempt that took no fault is answered with what its route serves.
- `ConfigCorrect` and `AsAskedCorrect` (`ClientProofs`): `ConfigContract` and `SentAsAsked`, for
  any options, calls and payloads, from `ClientInvariant`: the client keeps the first
  failure so far (`KeptSoFar`), each setting is that of the last option that set it
  without failing (`SettingsKept`), the verdict of a call is that of its checks
  (`VerdictOfCall`), and a request is that of its call, was refused by none of them and left
  a client without an error (`RequestOfCall`).  What a body then says is a fact about
  `Fields`, `Identity` and the replacement of `splits` (`ItemChosen`).
- `BoundsCorrect` and `CauseCorrect` (`ClientProofs`): `SentWithinBounds` and `RefusedForCause`,
  for payloads of any number of items and legs.  The checks of a call are one `errFirst`
  inside another; `FirstError` says that it is Ok when all are, and otherwise the first
  that is not, for a sequence of any length (the least number of a set, `Least`).  Read one
  way (`ItemSent`) each check bounds a field of the body, read the other (`ItemRefused`) each
  verdict names something wrong.  A date goes through `WindowChecked`; the legs through
  `LegsSummed`: the sum that the code compares is what the word keeps of the exact one, so
  the two agree whenever the exact one is an amount.  That an empty segment comes from an
  empty argument (`EmptyArgument`) needs that no method's path has one of its own
  (`MethodsWellFormed`, service by service).
- `SplitCorrect` (`ValuesProofs`): `SplitAlwaysValid`, on a word of any width.  The sum of a
  sequence is defined by recursion, of which the provers know nothing; `Summed` derives from
  the least-number principle, which is well-foundedness of the naturals, that the running
  sums exist and are integers, and that adding with a wrap at each part keeps the same as
  wrapping once at the end (`WrappedAdds`).  By the same induction the first k parts sum to
  k quotients and the units handed out so far (`SplitSumsUp`).
- `ReadsCorrect` and `RendersCorrect` (`ValuesProofs`): `ReadsWhatIsWritten` and `FormatRounds`, on
  a word of any width, for texts of any length.  The value of a numeral is a recursion too:
  `ReadAs` shows that whatever takes the digits one after the other reads their value, and
  the quotients by falling powers of ten do (`DigitsValue`), as does a numeral followed by
  another (`Concatenated`).  So the two pieces of a number printed apart are read as the
  number (`PrintedApart`), for String with three decimals, for Format with those asked for.
  `Scaled` is the rounding: the magnitude and half a unit stay below the width of the word, so
  nothing wraps, also at the most negative amount.  `Groups` flattens the groups of
  `groupDigits`, each of which begins where the one before ended.
- `WindowCorrect`, `LosesCorrect` and `CalendarCorrect` (`ValuesProofs`): `WindowIsFiveYears`,
  `WindowOnlyLosesThePast` and `OneCalendar`, for any days and steps.  `CalendarInvariant` says
  that every date an application holds is a day of the calendar (`RealDay`) and every month
  one of twelve (`RealMonth`): `NewDate` and `AddMonths` normalise.  The rest is arithmetic.
  `YearLength` and `MonthLength` say how far apart years and months start, `MonthsGrow` and
  `Chronological` that days are in the order of their numbers, `DayOfNumber` that `DateOf`
  finds the day of a number.  `WindowEnds` follows 29 February, which five years on is
  1 March; a century year without a leap day makes the window one day shorter, so that it
  is 1825 to 1827 days, and `WindowMovesOn` shows that its end never moves back.

Only model-checked:

- `EveryCallReturns`, `PollingConverges` and `StreamsConverge`: liveness.

## Findings

- `example_resumes`: the package comment of `examples/delta-sync/main.go` (lines 9-10)
  says the next process resumes exactly where this one left off.  It resumes the
  cursor, but the store lives in memory only (line 59): after a restart the store has
  what changed since the saved cursor and nothing else.

- `errors_same`: README.md and the comment on `IsRetryable` (`errors.go:215`) offer it as
  the pipeline's own classification for custom loops.  The pipeline retries every
  transport failure of a GET (`retry.go:88`), `IsRetryable` only those whose chain holds a
  `net.Error` that is not the bare deadline (`errors.go:246-250`): a body cut short or
  an attempt that timed out while its body was read is retried by the one and given up
  by the other.  On answers the two agree (`AnswersAgree`).

Also met while modelling, at the edges of what the API sends, and not among the runs:
`Format` with more than three decimal digits scales in uint64 (`milliunits.go:139`),
which wraps for amounts of billions of units and more; the sum of split legs wraps in
`Milliunits.Add` (`transactions.go:428`), so legs beyond the word may pass for a total
(`SentWithinBounds` speaks of sums that fit; the run `client` has a pair of legs whose
sum does not); `Compare` puts dates of negative years, which arithmetic can reach from
year 0, before the zero date (`date.go:91`); an option's failure is reported after a
method's own checks (`plan.go:282`), so a bad argument hides it; the fake server
matches the unescaped path (`server.go:229`), so an id with a slash may reach another
fixture there but not at the API; a 429 whose Retry-After is 2^63 seconds or more is
retried after a jittered wait (`retry.go:160`, `Atoi` fails), although a shorter one
beyond the cap is handed to the caller (`retry.go:92-98`).

## Not modelled

- HTTP redirects, connection reuse and the standard library's own replays of idempotent
  requests: one `HTTPClient.Do` is one delivery.
- Logging, wording of errors, headers other than Retry-After, the size of a body
  beyond its being too long, the typed payloads of answers, and the fields of request
  bodies that no check looks at.
- A `SyncState` shared by goroutines: documented as the caller's to guard; the mutant
  `GuardedLoosely` of `SyncStreams` shows what it would do.
- A plan handle that is an alias (`last-used`, `default`): Delta documents that it
  cannot notice the plan behind it change.
- `internal/contract` apart from its table: comparisons of texts in CI, without state.
- The token source of `oauth_live_test.go`: a helper of the live tests; a credential
  that changes between attempts is `Rotate` in `RetryPipeline`.
- `scripts/`, the quickstart, split-transaction and testing-with-mock examples: straight-line.

## Plan

Done: every component of the inventory that keeps state or decides anything, each with
its runs; and the proofs of every invariant and action property that a passing run
checks: the pipeline, the waits, Delta sync, the example, the streams, the fake server,
the answers' errors, the client's configuration, bodies, refusals and routes, amounts
and their texts, and the calendar.

Next, as the code grows: a method goes into `Methods` and its row into the group of its
resource, and into `AnyCode` of `RequestsProofs`, which is where the proofs notice two rows
with one route.
