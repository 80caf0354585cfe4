------------------------------ MODULE ErrorFlow ------------------------------
(***************************************************************************)
(* Where the errors of a call come from: an attempt fails at one of its    *)
(* steps, for a cause of its own or because its context ended, the         *)
(* pipeline judges it and tries again, and the application, in a loop of   *)
(* its own, asks IsRetryable whether to call once more.  RetryPipeline has *)
(* the timing and the network of the same steps; here it is the error      *)
(* values that count.                                                      *)
(***************************************************************************)
EXTENDS Errors, Naturals

CONSTANTS Verbs,        \* HTTP verbs of the calls
          Attempts,     \* MaxAttempts, or 1 with WithRetryDisabled
          RetryWrites,  \* the policy's: any verb may be sent again
          MaxCalls,     \* bound: calls of the application's loop
          Answers       \* [status, body, long]; long: a 429 whose Retry-After
                        \* is beyond the pipeline's cap

\* The status that each id the API documents comes with; the API keeps to it.
StatusOf(id) == CASE id = "400" -> 400  [] id = "401" -> 401  [] id = "409" -> 409
                  [] id = "429" -> 429  [] id = "500" -> 500  [] id = "503" -> 503
                  [] id \in {"403.1", "403.2", "403.3", "403.4"} -> 403
                  [] id \in {"404.1", "404.2"} -> 404

ASSUME AnswersAssumption ==
    /\ Attempts \in Nat \ {0}
    /\ RetryWrites \in BOOLEAN
    /\ \A a \in Answers : a.body.form = "error" /\ a.body.id \in DOMAIN sentinelByID
                           => a.status = StatusOf(a.body.id)

VARIABLES pc,       \* the attempt's step, or what comes between attempts
          verb,
          tries,    \* attempts begun in this call
          calls,    \* calls made by the application's loop
          late,     \* those of them begun with the context already ended
          caller,   \* the caller's context: "live", "canceled", "deadline"
          ended,    \* the error of the attempt's context; "live": none
          res,      \* the answer of the last attempt
          sendErr,  \* its failure
          err       \* what the call returned

vars == <<pc, verb, tries, calls, late, caller, ended, res, sendErr, err>>

NoAnswer == [status |-> 0, body |-> [form |-> "other"], long |-> FALSE]

\* What each step of an attempt is followed by.
After == [wait |-> "token", token |-> "send", send |-> "read"]
InAttempt == pc \in {"wait", "token", "send", "read"}

Init == /\ pc = "idle"
        /\ verb \in Verbs
        /\ tries = 0 /\ calls = 0 /\ late = 0
        /\ caller = "live" /\ ended = "live"
        /\ res = NoAnswer /\ sendErr = NoFailure /\ err = NoFailure

\* An attempt starts under a context of its own, ended if the caller's is.
Begin == /\ pc' = "wait"
         /\ ended' = caller
         /\ res' = NoAnswer /\ sendErr' = NoFailure

Call == /\ pc = "idle"
        /\ calls < MaxCalls
        /\ Begin
        /\ tries' = 1
        /\ calls' = calls + 1
        /\ late' = IF caller = "live" THEN late ELSE late + 1
        /\ err' = NoFailure
        /\ UNCHANGED <<verb, caller>>

CallerEnds(how) == /\ caller = "live" /\ pc # "idle"
                   /\ caller' = how
                   /\ ended' = IF InAttempt /\ ended = "live" THEN how ELSE ended
                   /\ UNCHANGED <<pc, verb, tries, calls, late, res, sendErr, err>>

TimesOut == /\ InAttempt /\ ended = "live"
            /\ ended' = "deadline"
            /\ UNCHANGED <<pc, verb, tries, calls, late, caller, res, sendErr, err>>

\* A step done.  The transport looks at the context before it sends; a hook
\* need not.
Proceed == /\ pc \in DOMAIN After
           /\ pc = "send" => ended = "live"
           /\ pc' = After[pc]
           /\ UNCHANGED <<verb, tries, calls, late, caller, ended, res, sendErr, err>>

\* How a step fails.  An ended context fails whatever asks the network, the
\* token source too.  Client.Do wraps all it returns; reading the body does
\* not wrap, and gives the context's bare error when that ended.
Cause(own) == IF ended = "live" THEN own ELSE {ended}
Chains(step) ==
    CASE step = "wait"  -> {<<"hook", "wrap", c>> : c \in {"plain"} \cup Cause({})}
      [] step = "token" -> {<<"hook", "wrap", "plain">>}
                           \cup {<<"hook", "wrap", "url", c>> : c \in Cause({"op"})}
      [] step = "send"  -> {<<"wrap", "url", c>> : c \in Cause({"op", "eof", "plain"})}
      [] step = "read"  -> {<<"wrap", "plain">>, <<"wrap", "op", "plain">>}
                           \cup {<<"wrap", c>> : c \in Cause({"eof"})}
      [] OTHER -> {}

Fail(chain) == /\ InAttempt /\ chain \in Chains(pc)
               /\ pc' = "failed"
               /\ sendErr' = Failure(chain)
               /\ UNCHANGED <<verb, tries, calls, late, caller, ended, res, err>>

Answer(a) == /\ pc = "read"
             /\ pc' = "answered"
             /\ res' = a
             /\ UNCHANGED <<verb, tries, calls, late, caller, ended, sendErr, err>>

-----------------------------------------------------------------------------
retryVerb == RetryWrites \/ verb \in {"GET", "DELETE"}

\* Mutant: 503 counted among the answers for the caller to decode.
classifyNo503 ==
    IF pc = "failed"
    THEN "hook" \notin Layers(sendErr) /\ caller = "live" /\ retryVerb
    ELSE \/ res.status = 429 /\ ~res.long
         \/ res.status = 500 /\ retryVerb

\* Whether to try again, were there attempts left.
classify ==
    IF pc = "failed"
    THEN "hook" \notin Layers(sendErr) /\ caller = "live" /\ retryVerb
    ELSE \/ res.status = 429 /\ ~res.long
         \/ res.status \in {500, 503} /\ retryVerb

\* The error of the last attempt as its caller sees it: out of its hookError.
Unhooked(chain) == IF chain[1] = "hook" THEN Tail(chain) ELSE chain
LastError == IF pc = "failed"
             THEN Failure(Unhooked(sendErr.chain))
             ELSE Decoded(res.status, res.body)

Judge == /\ pc \in {"failed", "answered"}
         /\ IF classify /\ tries < Attempts
            THEN pc' = "sleep" /\ UNCHANGED err
            ELSE pc' = "returned" /\ err' = LastError
         /\ UNCHANGED <<verb, tries, calls, late, caller, ended, res, sendErr>>

Wake == /\ pc = "sleep"
        /\ Begin
        /\ tries' = tries + 1
        /\ UNCHANGED <<verb, calls, late, caller, err>>

Interrupted == /\ pc = "sleep" /\ caller # "live"
               /\ pc' = "returned"
               /\ err' = Failure(<<"wrap", caller>>)
               /\ UNCHANGED <<verb, tries, calls, late, caller, ended, res, sendErr>>

\* The application's loop: requeue or drop.
Requeue == /\ pc = "returned" /\ IsRetryable(err)
           /\ pc' = "idle"
           /\ UNCHANGED <<verb, tries, calls, late, caller, ended, res, sendErr, err>>

Next == \/ Call \/ TimesOut \/ Proceed \/ Judge \/ Wake \/ Interrupted \/ Requeue
        \/ \E how \in {"canceled", "deadline"} : CallerEnds(how)
        \/ \E c \in Chains(pc) : Fail(c)
        \/ \E a \in Answers : Answer(a)

Spec == Init /\ [][Next]_vars

-----------------------------------------------------------------------------
\* Every error decoded from an answer of a known class is of that class and of
\* no other, whatever its body, and of a specific sentinel of the class only
\* when the API sent that sub-code.
SubCodes(status) ==
    CASE status = 403 -> {"ErrSubscriptionLapsed", "ErrTrialExpired",
                          "ErrUnauthorizedScope", "ErrDataLimitReached"}
      [] status = 404 -> {"ErrRouteNotFound", "ErrResourceNotFound"}
      [] OTHER -> {}

SentinelsNest ==
    pc = "answered" /\ res.status \in DOMAIN sentinelByStatus =>
        LET specific == Satisfies(LastError) \ {sentinelByStatus[res.status]}
        IN  /\ Is(LastError, sentinelByStatus[res.status])
            /\ specific \subseteq SubCodes(res.status)
            /\ specific = {} <=> \/ res.body.form # "error"
                                \/ res.body.id \notin DOMAIN sentinelByID
                                \/ res.status \notin {403, 404}

\* The built-in pipeline applies IsRetryable's semantics to answers: a GET is
\* tried again after an answer just when a loop of the caller's would, save a
\* 429 that asks for too long a wait.
AnswersAgree ==
    pc = "answered" /\ verb = "GET" /\ ~res.long => (classify <=> IsRetryable(LastError))

\* A GET that came back before its attempts were spent, its context alive, is
\* not worth repeating, unless the server asked for a long wait or the token
\* source failed on the network.
GaveUpForGood ==
    pc = "returned" /\ verb = "GET" /\ caller = "live" /\ tries < Attempts /\ IsRetryable(err) =>
        res.long \/ "hook" \in Layers(sendErr)

\* Cancellation is the caller's decision: its loop makes at most one more call.
CancelEndsRequeue == caller = "canceled" => late <= 1

\* The README: IsRetryable exposes the same classification for custom loops.
SameClassification ==
    pc \in {"failed", "answered"} /\ verb = "GET" => (classify => IsRetryable(LastError))
=============================================================================
