---------------------------- MODULE RetryPipeline ----------------------------
(***************************************************************************)
(* The transport core of the client (internal/transport): every API        *)
(* operation is one call of execute, which runs attempts (limiter, token,  *)
(* send, read, all under one timeout), classifies what came of each, and   *)
(* sleeps between them.                                                    *)
(*                                                                         *)
(* Around it, and not written here: the caller, who may end its context at *)
(* any moment; the network, which loses requests and answers and may       *)
(* deliver a request after its sender gave up; the server; the credential  *)
(* behind the token source; and time, which only counts timers down.       *)
(***************************************************************************)
EXTENDS Backoff, FiniteSets

CONSTANTS Calls,                            \* calls in progress on one client
          Methods,                          \* HTTP verbs they may use
          MaxAttempts, RetryWrites, Disabled,   \* RetryConfig
          MinBackoff, MaxBackoff,
          Statuses,                         \* what the server may answer
          RetryAfters,                      \* Retry-After headers of a 429
          MaxRotations                      \* bound: token rotations

\* What newClient lets through to the Core (WithRetryPolicy), and the headers
\* an answer can carry.
ASSUME CoreAssumption ==
    /\ MaxAttempts \in 1..MaxDuration
    /\ RetryWrites \in BOOLEAN /\ Disabled \in BOOLEAN
    /\ MinBackoff \in 1..MaxDuration
    /\ MaxBackoff \in MinBackoff..MaxDuration
    /\ Statuses \subseteq Nat \ {0}
    /\ MaxRotations \in Nat
    /\ RetryAfters \subseteq [form : {"none", "secs", "date"}, n : Int]

Retry == [attempts |-> MaxAttempts, min |-> MinBackoff, max |-> MaxBackoff]

Attempts == IF Disabled \/ MaxAttempts < 1 THEN 1 ELSE MaxAttempts

retryVerb(method) == RetryWrites \/ method \in {"GET", "DELETE"}

\* Mutant: every answer that is not a server error taken for data.
Success4xx(status) == status < 500

Success(status) == status \in 200..299

-----------------------------------------------------------------------------
\* What an attempt returns to execute: a result (err = "nil") or an error, with
\* the zero result.  A "hook" error is a limiter's or a token source's.
Answer == [status : Statuses, ra : RetryAfters \cup {NoHeader}]
Result == [status : Statuses \cup {0}, ra : RetryAfters \cup {NoHeader},
           err : {"nil", "hook", "send"}]
Failed(err) == [status |-> 0, ra |-> NoHeader, err |-> err]
NoAnswer == [status |-> 0, ra |-> NoHeader]

\* What the call returns: data, an undecodable success, an *Error with the
\* server's status, a transport error, a hook's error, a canceled backoff.
Outcome == [kind : {"none", "ok", "decode", "api", "send", "hook", "canceled"},
            status : Statuses \cup {0}]
Pending == [kind |-> "none", status |-> 0]

VARIABLES
    method,     \* method[c]: the verb of call c
    pc,         \* pc[c]: where call c stands in execute and attempt
    att,        \* att[c]: attempts begun
    ctx,        \* ctx[c]: the caller's context, "live" or "ended"
    tok,        \* tok[c]: version of the token the attempt carries
    last,       \* last[c]: res and sendErr of the last attempt
    timer,      \* timer[c]: what the sleeper's timer has left
    out,        \* out[c]: what the call returned
    rotation,   \* version of the credential behind the token source
    wire,       \* wire[c]: attempts whose request is in the network
    applied,    \* applied[c]: attempts whose request the server carried out
    answer,     \* answer[c]: the answer on its way to the attempt in progress
    advice,     \* advice[c]: what is left of the wait the last 429 asked for
    permits,    \* permits[c]: grants of the limiter to call c
    floor,      \* floor[c]: rotation when the attempt in progress began
    endedAt     \* endedAt[c]: att[c] when the caller's context ended

client == <<method, pc, att, tok, last, timer, out>>
network == <<wire, applied, answer>>
history == <<permits, floor, endedAt>>
vars == <<client, network, history, ctx, rotation, advice>>

Phases == {"idle", "limiter", "token", "send", "await", "classify", "delay",
           "backoff", "done"}

Init ==
    /\ method \in [Calls -> Methods]
    /\ pc = [c \in Calls |-> "idle"]
    /\ att = [c \in Calls |-> 0]
    /\ ctx = [c \in Calls |-> "live"]
    /\ tok = [c \in Calls |-> 0]
    /\ last = [c \in Calls |-> Failed("nil")]
    /\ timer = [c \in Calls |-> 0]
    /\ out = [c \in Calls |-> Pending]
    /\ rotation = 0
    /\ wire = [c \in Calls |-> {}]
    /\ applied = [c \in Calls |-> {}]
    /\ answer = [c \in Calls |-> NoAnswer]
    /\ advice = [c \in Calls |-> 0]
    /\ permits = [c \in Calls |-> 0]
    /\ floor = [c \in Calls |-> 0]
    /\ endedAt = [c \in Calls |-> 0]

-----------------------------------------------------------------------------
(* One attempt.                                                             *)

\* Mutant: the hooks consulted for the first attempt only.
BeginAttemptUnhooked(c) ==
    /\ pc' = [pc EXCEPT ![c] = IF att[c] = 0 THEN "limiter" ELSE "send"]
    /\ att' = [att EXCEPT ![c] = @ + 1]
    /\ floor' = [floor EXCEPT ![c] = rotation]

\* The head of the loop's body: the next attempt enters its limiter.
BeginAttempt(c) ==
    /\ pc' = [pc EXCEPT ![c] = "limiter"]
    /\ att' = [att EXCEPT ![c] = @ + 1]
    /\ floor' = [floor EXCEPT ![c] = rotation]

Start(c) ==
    /\ pc[c] = "idle"
    /\ BeginAttempt(c)
    /\ UNCHANGED <<method, tok, last, timer, out, network, ctx, rotation,
                   advice, permits, endedAt>>

\* attempt returned: execute goes on to classify.
AttemptReturns(c, result) ==
    /\ pc' = [pc EXCEPT ![c] = "classify"]
    /\ last' = [last EXCEPT ![c] = result]

LimiterGrants(c) ==
    /\ pc[c] = "limiter"
    /\ pc' = [pc EXCEPT ![c] = "token"]
    /\ permits' = [permits EXCEPT ![c] = @ + 1]
    /\ UNCHANGED <<method, att, tok, last, timer, out, network, ctx, rotation,
                   advice, floor, endedAt>>

TokenFetched(c) ==
    /\ pc[c] = "token"
    /\ pc' = [pc EXCEPT ![c] = "send"]
    /\ tok' = [tok EXCEPT ![c] = rotation]
    /\ UNCHANGED <<method, att, last, timer, out, network, ctx, rotation,
                   advice, history>>

\* The limiter or the token source fails, be it of its own, by the timeout of
\* the attempt or because the caller's context ended.
HookFails(c) ==
    /\ pc[c] \in {"limiter", "token"}
    /\ AttemptReturns(c, Failed("hook"))
    /\ UNCHANGED <<method, att, tok, timer, out, network, ctx, rotation,
                   advice, history>>

\* HTTPClient.Do puts the request on the wire unless the context has ended.
Send(c) ==
    /\ pc[c] = "send"
    /\ ctx[c] = "live"
    /\ pc' = [pc EXCEPT ![c] = "await"]
    /\ wire' = [wire EXCEPT ![c] = @ \cup {att[c]}]
    /\ answer' = [answer EXCEPT ![c] = NoAnswer]
    /\ UNCHANGED <<method, att, tok, last, timer, out, applied, ctx, rotation,
                   advice, history>>

\* The whole answer is read, within the size limit.
Receive(c) ==
    /\ pc[c] = "await"
    /\ answer[c] # NoAnswer
    /\ AttemptReturns(c, [status |-> answer[c].status, ra |-> answer[c].ra,
                          err |-> "nil"])
    /\ answer' = [answer EXCEPT ![c] = NoAnswer]
    /\ UNCHANGED <<method, att, tok, timer, out, wire, applied, ctx, rotation,
                   advice, history>>

\* No connection, a broken one, the attempt's timeout, the end of the caller's
\* context, a body cut short or too long.  What was sent may still arrive; a
\* Retry-After that was not read advises nobody.
SendFails(c) ==
    /\ pc[c] \in {"send", "await"}
    /\ AttemptReturns(c, Failed("send"))
    /\ answer' = [answer EXCEPT ![c] = NoAnswer]
    /\ advice' = [advice EXCEPT ![c] = 0]
    /\ UNCHANGED <<method, att, tok, timer, out, wire, applied, ctx, rotation,
                   history>>

-----------------------------------------------------------------------------
(* execute: classify the attempt, then return or sleep and try again.       *)

\* Mutants: a write retried after a transport failure; the caller's context not
\* looked at; a write retried after a 500 or 503.
AbortsHooksOnly(c) ==
    \/ last[c].err = "hook"
    \/ last[c].err = "send" /\ ctx[c] = "ended"
AbortsUncancelled(c) ==
    \/ last[c].err = "hook"
    \/ last[c].err = "send" /\ ~retryVerb(method[c])

\* classify's two verdicts on last[c]; with neither, the call is done.
Aborts(c) ==
    \/ last[c].err = "hook"
    \/ last[c].err = "send" /\ (ctx[c] = "ended" \/ ~retryVerb(method[c]))

RetriesAnyVerb(c) ==
    /\ ~Aborts(c)
    /\ \/ last[c].err = "send"
       \/ last[c].status = 429 /\ WillPark(Retry, last[c].ra, advice[c])
       \/ last[c].status \in {500, 503}

Retries(c) ==
    /\ ~Aborts(c)
    /\ \/ last[c].err = "send"
       \/ last[c].status = 429 /\ WillPark(Retry, last[c].ra, advice[c])
       \/ last[c].status \in {500, 503} /\ retryVerb(method[c])

Return(c, kind, status) ==
    /\ pc' = [pc EXCEPT ![c] = "done"]
    /\ out' = [out EXCEPT ![c] = [kind |-> kind, status |-> status]]
    /\ UNCHANGED <<method, att, tok, last, timer, network, ctx, rotation,
                   advice, history>>

\* The tail of Do: a result of the pipeline is decoded, an error is passed on.
ReturnLast(c) ==
    \/ last[c].err # "nil" /\ Return(c, last[c].err, 0)
    \/ /\ last[c].err = "nil"
       /\ IF Success(last[c].status)
          THEN \E kind \in {"ok", "decode"} : Return(c, kind, last[c].status)
          ELSE Return(c, "api", last[c].status)

\* Mutants: one attempt short; no way out of the loop's end.
FinishEarly(c) ==
    /\ pc[c] = "classify"
    /\ Retries(c) => att[c] + 1 >= Attempts
    /\ ReturnLast(c)
FinishNeverSpent(c) ==
    /\ pc[c] = "classify"
    /\ ~Retries(c)
    /\ ReturnLast(c)

\* Abort, done, or out of attempts.
Finish(c) ==
    /\ pc[c] = "classify"
    /\ Retries(c) => att[c] >= Attempts
    /\ ReturnLast(c)

\* Mutant: one attempt too many.
PrepareRetryLate(c) ==
    /\ pc[c] = "classify"
    /\ Retries(c)
    /\ att[c] <= Attempts
    /\ pc' = [pc EXCEPT ![c] = "delay"]
    /\ UNCHANGED <<method, att, tok, last, timer, out, network, ctx, rotation,
                   advice, history>>

PrepareRetry(c) ==
    /\ pc[c] = "classify"
    /\ Retries(c)
    /\ att[c] < Attempts
    /\ pc' = [pc EXCEPT ![c] = "delay"]
    /\ UNCHANGED <<method, att, tok, last, timer, out, network, ctx, rotation,
                   advice, history>>

\* retryDelay reads the header (and for a date the clock) a second time.
SetTimer(c) ==
    /\ pc[c] = "delay"
    /\ timer' \in {[timer EXCEPT ![c] = d] : d \in
          retryDelays(Retry, att[c], last[c].status, last[c].ra, advice[c])}
    /\ pc' = [pc EXCEPT ![c] = "backoff"]
    /\ UNCHANGED <<method, att, tok, last, out, network, ctx, rotation,
                   advice, history>>

\* The two arms of sleep's select: when both are ready, either is taken.
Wake(c) ==
    /\ pc[c] = "backoff"
    /\ timer[c] = 0
    /\ BeginAttempt(c)
    /\ UNCHANGED <<method, tok, last, timer, out, network, ctx, rotation,
                   advice, permits, endedAt>>

CancelSleep(c) ==
    /\ pc[c] = "backoff"
    /\ ctx[c] = "ended"
    /\ Return(c, "canceled", 0)

Step(c) ==
    \/ LimiterGrants(c) \/ TokenFetched(c) \/ HookFails(c)
    \/ Send(c) \/ Receive(c) \/ SendFails(c)
    \/ Finish(c) \/ PrepareRetry(c) \/ SetTimer(c) \/ Wake(c) \/ CancelSleep(c)

-----------------------------------------------------------------------------
(* Around the pipeline.                                                     *)

\* The caller cancels, or its deadline passes; also before the call.
EndContext(c) ==
    /\ ctx[c] = "live"
    /\ pc[c] # "done"
    /\ ctx' = [ctx EXCEPT ![c] = "ended"]
    /\ endedAt' = [endedAt EXCEPT ![c] = att[c]]
    /\ UNCHANGED <<client, network, rotation, advice, permits, floor>>

\* The credential behind the token source is refreshed.
Rotate ==
    /\ rotation < MaxRotations
    /\ rotation' = rotation + 1
    /\ UNCHANGED <<client, network, history, ctx, advice>>

Lose(c, a) ==
    /\ a \in wire[c]
    /\ wire' = [wire EXCEPT ![c] = @ \ {a}]
    /\ UNCHANGED <<client, applied, answer, history, ctx, rotation, advice>>

\* Statuses that say the request was carried out, and that it was not: a 4xx
\* is refused before any effect (429 and 401 included).  Of any other nothing
\* is known.
CarriedOut(status) == status \in 200..299
Refusal(status) == status \in 400..499

\* The server takes a request from the wire and answers it; nobody hears the
\* answer when the attempt that sent it has been given up.
Serve(c, a, status, ra, takesEffect) ==
    /\ a \in wire[c]
    /\ CarriedOut(status) => takesEffect
    /\ Refusal(status) => ~takesEffect
    /\ status # 429 => ra = NoHeader
    /\ wire' = [wire EXCEPT ![c] = @ \ {a}]
    /\ applied' = IF takesEffect THEN [applied EXCEPT ![c] = @ \cup {a}]
                                 ELSE applied
    /\ IF pc[c] = "await" /\ a = att[c]
       THEN /\ answer' = [answer EXCEPT ![c] = [status |-> status, ra |-> ra]]
            /\ advice' = [advice EXCEPT ![c] = Advised(ra)]
       ELSE UNCHANGED <<answer, advice>>
    /\ UNCHANGED <<client, history, ctx, rotation>>

\* Time passes for every timer and every advised instant alike.
Countdown(clock) == [c \in Calls |-> IF clock[c] > 0 THEN clock[c] - 1 ELSE 0]

Tick ==
    /\ \E c \in Calls : timer[c] > 0 \/ advice[c] > 0
    /\ timer' = Countdown(timer)
    /\ advice' = Countdown(advice)
    /\ UNCHANGED <<method, pc, att, tok, last, out, network, history, ctx, rotation>>

Environment ==
    \/ \E c \in Calls : EndContext(c)
    \/ \E c \in Calls, a \in 1..Attempts : Lose(c, a)
    \/ \E c \in Calls, a \in 1..Attempts, s \in Statuses,
          ra \in RetryAfters \cup {NoHeader}, e \in BOOLEAN : Serve(c, a, s, ra, e)
    \/ Rotate
    \/ Tick

Next == \/ \E c \in Calls : Start(c) \/ Step(c)
        \/ Environment

Spec == Init /\ [][Next]_vars

\* A goroutine that can run is run, a hook returns (its context has a deadline)
\* and so does HTTPClient.Do, and time passes.  Nothing is asked of the
\* network, of the server or of the caller.
FairSpec == Spec /\ WF_vars(Tick) /\ \A c \in Calls : WF_vars(Step(c))

-----------------------------------------------------------------------------
(* What the pipeline promises.                                              *)

TypeOK ==
    /\ method \in [Calls -> Methods]
    /\ pc \in [Calls -> Phases]
    /\ att \in [Calls -> 0..Attempts]
    /\ ctx \in [Calls -> {"live", "ended"}]
    /\ tok \in [Calls -> 0..MaxRotations]
    /\ last \in [Calls -> Result]
    /\ timer \in [Calls -> Nat]
    /\ out \in [Calls -> Outcome]
    /\ rotation \in 0..MaxRotations
    /\ wire \in [Calls -> SUBSET (1..Attempts)]
    /\ applied \in [Calls -> SUBSET (1..Attempts)]
    /\ answer \in [Calls -> Answer \cup {NoAnswer}]
    /\ advice \in [Calls -> Nat]
    /\ permits \in [Calls -> 0..Attempts]
    /\ floor \in [Calls -> 0..MaxRotations]
    /\ endedAt \in [Calls -> 0..Attempts]

\* A write the policy does not retry blindly, and any call of a client whose
\* retries are disabled.
SingleShot(c) == ~retryVerb(method[c]) \/ Disabled \/ MaxAttempts = 1

\* The server carries such a write out at most once, whatever is lost, late,
\* timed out or answered 429 before: classify's "a timed-out write may have
\* applied" is enough.
AtMostOnce == \A c \in Calls : SingleShot(c) =>
                  \A a, b \in applied[c] : a = b

\* When such a write comes back refused (a 4xx, a 429 among them), it has not
\* been carried out, and nothing in the network will do so later: the caller
\* may repeat it.
RefusedNeverApplies ==
    \A c \in Calls :
        SingleShot(c) /\ out[c].kind = "api" /\ Refusal(out[c].status)
            => applied[c] \cup wire[c] = {}

\* A call that reports success (or a success it could not decode) reports its
\* last attempt, and the server did carry that one out.
SuccessIsReal ==
    \A c \in Calls : out[c].kind \in {"ok", "decode"} => att[c] \in applied[c]

\* Why the three above hold.  A request is in the network or carried out, not
\* both, and belongs to an attempt that was begun; a single-shot call has no
\* request in either place whenever it may still send one, and a refusal, on
\* its way or received, means the same.
CallTracked(c) ==
    /\ wire[c] \cup applied[c] \subseteq 1..att[c]
    /\ wire[c] \cap applied[c] = {}
    /\ pc[c] \in {"limiter", "token", "send"} => att[c] \notin wire[c] \cup applied[c]
    /\ pc[c] # "await" => answer[c] = NoAnswer
    /\ pc[c] # "done" => out[c] = Pending
    /\ CarriedOut(answer[c].status) => att[c] \in applied[c]
    /\ pc[c] = "classify" /\ CarriedOut(last[c].status) => att[c] \in applied[c]
    /\ out[c].kind \in {"ok", "decode"} => att[c] \in applied[c]
    /\ SingleShot(c) =>
        /\ wire[c] \cup applied[c] \subseteq {att[c]}
        /\ \/ pc[c] \in {"limiter", "token", "send", "delay", "backoff"}
           \/ Refusal(answer[c].status)
           \/ pc[c] = "classify" /\ Refusal(last[c].status)
           \/ out[c].kind = "api" /\ Refusal(out[c].status)
           => wire[c] \cup applied[c] = {}

\* CallTracked of every call: the inductive invariant of the effects.
EffectsTracked == \A c \in Calls : CallTracked(c)

\* Between a 429 and the next attempt lies at least the server's Retry-After,
\* where the header parses, also when it is a date that comes nearer between the
\* two readings of it.
RetryAfterHonoured ==
    \A c \in Calls : pc[c] \in {"limiter", "token", "send"} => advice[c] = 0

\* Once the caller's context has ended, at most one more attempt is begun (the
\* timer may win the select against the context), and never a second.
CancelEndsRetries ==
    \A c \in Calls : ctx[c] = "ended" => att[c] <= endedAt[c] + 1

\* What is on the wire passed the limiter for this attempt, not for an earlier
\* one, and carries a token fetched for this attempt: a rotation before the
\* attempt began is always seen.
HooksPerAttempt ==
    \A c \in Calls : pc[c] \in {"send", "await"} =>
        permits[c] = att[c] /\ tok[c] >= floor[c]

\* Why: the loop runs within its attempts, and the hooks keep step with it.
LoopInvariant ==
    \A c \in Calls :
        /\ pc[c] = "idle" => att[c] = 0 /\ permits[c] = 0
        /\ pc[c] # "idle" => att[c] >= 1
        /\ pc[c] \in {"delay", "backoff"} => att[c] < Attempts
        /\ pc[c] = "limiter" => permits[c] = att[c] - 1
        /\ pc[c] \in {"token", "send", "await", "delay", "backoff"} => permits[c] = att[c]
        /\ pc[c] = "classify" => last[c].err = "hook" \/ permits[c] = att[c]
        /\ pc[c] \in {"send", "await"} => tok[c] >= floor[c]
        /\ floor[c] <= rotation

\* A failure that the pipeline retries reaches the caller only when the
\* attempts are spent, unless the caller's context ended or the server asked,
\* in a header that parses, for a longer wait than the pipeline sleeps.
GivesUpOnlyWhenSpent ==
    \A c \in Calls :
        pc[c] = "done" /\ ctx[c] = "live" /\ att[c] < Attempts =>
            CASE out[c].kind = "send" -> SingleShot(c)
              [] out[c].kind = "api" /\ out[c].status = 429 ->
                     Advised(last[c].ra) > retryAfterCap(Retry)
              [] out[c].kind = "api" /\ out[c].status \in {500, 503} -> SingleShot(c)
              [] OTHER -> TRUE

\* Every call returns: whatever the server and the network do, and without the
\* caller's help.
EveryCallReturns == \A c \in Calls : pc[c] = "limiter" ~> pc[c] = "done"

-----------------------------------------------------------------------------
(* The contract a caller relies on, without attempts, hooks or timers.      *)

OutcomeVerdict(o) ==
    IF o.kind \in {"ok", "decode"} THEN "succeeded"
    ELSE IF o.kind = "api" /\ Refusal(o.status) THEN "refused" ELSE "unknown"

Verdict(c) == IF pc[c] = "idle" THEN "idle"
              ELSE IF pc[c] # "done" THEN "open" ELSE OutcomeVerdict(out[c])

Contract == INSTANCE CallContract WITH
                Deliveries <- 1..Attempts,
                once <- [c \in Calls |-> SingleShot(c)],
                phase <- [c \in Calls |-> Verdict(c)],
                effects <- applied

\* The pipeline implements the contract.
ImplementsContract == Contract!Spec
=============================================================================
