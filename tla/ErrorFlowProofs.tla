--------------------------- MODULE ErrorFlowProofs ---------------------------
(***************************************************************************)
(* Theorems about ErrorFlow, for any verbs, attempts, calls and answers:   *)
(* the classification of answers and of failures, and what a loop of the   *)
(* caller's makes of it.                                                   *)
(***************************************************************************)
EXTENDS ErrorFlow, TLAPS

-----------------------------------------------------------------------------
(* The inductive invariant.                                                 *)

Stages == {"idle", "wait", "token", "send", "read", "failed", "answered", "sleep", "returned"}

FlowOK == /\ pc \in Stages
          /\ tries \in Nat /\ late \in Nat
          /\ caller \in {"live", "canceled", "deadline"}
          /\ pc = "answered" => res \in Answers

\* A GET that came back with attempts left and its context alive failed in a
\* hook, or has an answer that classify does not try again.
ReturnSound ==
    pc = "returned" /\ verb = "GET" /\ caller = "live" /\ tries < Attempts =>
        \/ "hook" \in Layers(sendErr)
        \/ /\ res \in Answers
           /\ err = Decoded(res.status, res.body)
           /\ ~(res.status = 429 /\ ~res.long) /\ res.status \notin {500, 503}

\* A call begun after the cancellation: its attempt's context has ended, so it
\* gets no answer, and no failure of it makes a loop call again.
Doomed ==
    /\ pc \in {"wait", "token", "send", "failed", "returned"}
    /\ pc \in {"wait", "token", "send"} => ended = "canceled"
    /\ pc = "failed" => ~IsRetryable(LastError)
    /\ pc = "returned" => ~IsRetryable(err)

CancelSound == /\ caller = "live" => late = 0
               /\ caller = "canceled" /\ late # 0 => late = 1 /\ Doomed

FlowInvariant == FlowOK /\ ReturnSound /\ CancelSound

-----------------------------------------------------------------------------
(* What IsRetryable makes of an error.                                      *)

Retryables == {"ErrRateLimited", "ErrServerError", "ErrServiceUnavailable"}

\* The three ids that are retryable, and the three statuses, are the same.
LEMMA RetryableKeys ==
    ASSUME NEW status, NEW id, id \in DOMAIN sentinelByID => status = StatusOf(id)
    PROVE  (\E s \in Retryables : s \in Lookup(sentinelByID, id) \cup Lookup(sentinelByStatus, status))
              <=> status \in {429, 500, 503}
<1>1. \A s \in Retryables : s \in Lookup(sentinelByID, id) => status \in {429, 500, 503}
  BY DEF Lookup, sentinelByID, StatusOf, Retryables
<1>2. \A s \in Retryables : s \in Lookup(sentinelByStatus, status) => status \in {429, 500, 503}
  BY DEF Lookup, sentinelByStatus, Retryables
<1>3. /\ Lookup(sentinelByStatus, 429) = {"ErrRateLimited"}
      /\ Lookup(sentinelByStatus, 500) = {"ErrServerError"}
      /\ Lookup(sentinelByStatus, 503) = {"ErrServiceUnavailable"}
  BY DEF Lookup, sentinelByStatus
<1>4. status \in {429, 500, 503} => \E s \in Retryables : s \in Lookup(sentinelByStatus, status)
  BY <1>3 DEF Retryables
<1> QED
  BY <1>1, <1>2, <1>4

\* An API error is judged by its class alone.
LEMMA ApiErrors ==
    ASSUME NEW status, NEW id, id \in DOMAIN sentinelByID => status = StatusOf(id),
           NEW e, e = [chain |-> <<"api">>, status |-> status, id |-> id]
    PROVE  /\ Satisfies(e) = Lookup(sentinelByID, id) \cup Lookup(sentinelByStatus, status)
           /\ IsRetryable(e) <=> status \in {429, 500, 503}
<1>1. e.chain = <<"api">> /\ e.status = status /\ e.id = id
  OBVIOUS
<1>2. "api" \in Layers(e)
  BY <1>1 DEF Layers, ToSet
<1>3. Satisfies(e) = Lookup(sentinelByID, id) \cup Lookup(sentinelByStatus, status)
  BY <1>1, <1>2 DEF Satisfies
<1>4. (\E s \in Retryables : Is(e, s)) <=> status \in {429, 500, 503}
  BY <1>3, RetryableKeys DEF Is
<1> QED
  BY <1>2, <1>3, <1>4 DEF IsRetryable, Retryables

\* An error that is not the API's is judged by its chain alone: never when it is
\* a cancellation or has no net.Error in it.
LEMMA OtherErrors ==
    ASSUME NEW chain, "api" \notin ToSet(chain),
           "canceled" \in ToSet(chain) \/ \A i \in 1..Len(chain) : chain[i] \notin NetErrors
    PROVE  ~IsRetryable(Failure(chain))
<1>1. PICK e : e = Failure(chain)
  OBVIOUS
<1>2. e.chain = chain
  BY <1>1 DEF Failure
<1>3. Layers(e) = ToSet(chain) /\ Satisfies(e) = {}
  BY <1>2 DEF Layers, Satisfies
<1> QED
  BY <1>1, <1>2, <1>3 DEF IsRetryable, Is

\* What Do returns of an answer is worth repeating just when its status is.
LEMMA AnswerErrors ==
    ASSUME NEW a \in Answers
    PROVE  IsRetryable(Decoded(a.status, a.body)) <=> a.status \in {429, 500, 503}
<1>1. CASE a.status \in 200..299
  <2>1. \/ Decoded(a.status, a.body) = Failure(<<>>)
        \/ Decoded(a.status, a.body) = Failure(<<"wrap", "plain">>)
    BY <1>1 DEF Decoded, decodeData, NoFailure
  <2>2. ~IsRetryable(Failure(<<>>))
    BY OtherErrors DEF ToSet
  <2>3. ~IsRetryable(Failure(<<"wrap", "plain">>))
    BY OtherErrors DEF ToSet, NetErrors
  <2>4. ~IsRetryable(Decoded(a.status, a.body))
    BY <2>1, <2>2, <2>3
  <2>5. a.status \notin {429, 500, 503}
    BY <1>1
  <2> QED
    BY <2>4, <2>5
<1>2. CASE a.status \notin 200..299
  <2>1. PICK id : id = IF a.body.form = "error" THEN a.body.id ELSE NoID
    OBVIOUS
  <2>2. id \in DOMAIN sentinelByID => a.status = StatusOf(id)
    BY <2>1, AnswersAssumption DEF NoID, sentinelByID
  <2>3. PICK s : s = a.status
    OBVIOUS
  <2>4. PICK e : e = [chain |-> <<"api">>, status |-> s, id |-> id]
    OBVIOUS
  <2>5. Decoded(a.status, a.body) = e
    BY <1>2, <2>1, <2>3, <2>4 DEF Decoded, decodeWireError
  <2>6. id \in DOMAIN sentinelByID => s = StatusOf(id)
    BY <2>2, <2>3
  <2>7. IsRetryable(e) <=> s \in {429, 500, 503}
    BY <2>4, <2>6, ApiErrors
  <2>8. IsRetryable(Decoded(a.status, a.body)) = IsRetryable(e)
    BY <2>5
  <2> QED
    BY <2>3, <2>7, <2>8
<1> QED
  BY <1>1, <1>2

\* Whatever an attempt made under a canceled context fails of, it is not worth
\* repeating: the hook's own failure, or the cancellation, wrapped or not.
LEMMA CanceledFailures ==
    ASSUME ended = "canceled", NEW step \in {"wait", "token", "send"},
           NEW chain \in Chains(step)
    PROVE  ~IsRetryable(Failure(Unhooked(chain)))
<1>1. \/ chain = <<"hook", "wrap", "plain">> \/ chain = <<"hook", "wrap", "canceled">>
      \/ chain = <<"hook", "wrap", "url", "canceled">> \/ chain = <<"wrap", "url", "canceled">>
  BY DEF Chains, Cause
<1>2. \/ Unhooked(chain) = <<"wrap", "plain">> \/ Unhooked(chain) = <<"wrap", "canceled">>
      \/ Unhooked(chain) = <<"wrap", "url", "canceled">>
  <2>1. Tail(<<"hook", "wrap", "plain">>) = <<"wrap", "plain">>
    OBVIOUS
  <2>2. Tail(<<"hook", "wrap", "canceled">>) = <<"wrap", "canceled">>
    OBVIOUS
  <2>3. Tail(<<"hook", "wrap", "url", "canceled">>) = <<"wrap", "url", "canceled">>
    OBVIOUS
  <2>4. CASE chain = <<"wrap", "url", "canceled">>
    <3>1. chain[1] = "wrap"
      BY <2>4
    <3> QED
      BY <2>4, <3>1 DEF Unhooked
  <2>5. CASE chain # <<"wrap", "url", "canceled">>
    <3>1. chain[1] = "hook"
      BY <1>1, <2>5
    <3>2. Unhooked(chain) = Tail(chain)
      BY <3>1 DEF Unhooked
    <3> QED
      BY <1>1, <2>1, <2>2, <2>3, <2>5, <3>2
  <2> QED
    BY <2>4, <2>5
<1>3. ~IsRetryable(Failure(<<"wrap", "plain">>))
  BY OtherErrors DEF ToSet, NetErrors
<1>4. ~IsRetryable(Failure(<<"wrap", "canceled">>))
  BY OtherErrors DEF ToSet, NetErrors
<1>5. ~IsRetryable(Failure(<<"wrap", "url", "canceled">>))
  <2>1. \A x : x \in ToSet(<<"wrap", "url", "canceled">>) <=> x \in {"wrap", "url", "canceled"}
    BY DEF ToSet
  <2> QED
    BY <2>1, OtherErrors
<1> QED
  BY <1>2, <1>3, <1>4, <1>5

-----------------------------------------------------------------------------
(* The two tables.                                                          *)

\* An id names the sentinel of its class, or one of the class's sub-codes; no
\* class is a sub-code.
LEMMA TablesNest ==
    /\ \A id \in DOMAIN sentinelByID :
          IF StatusOf(id) \in {403, 404} THEN sentinelByID[id] \in SubCodes(StatusOf(id))
          ELSE sentinelByID[id] = sentinelByStatus[StatusOf(id)]
    /\ \A status \in DOMAIN sentinelByStatus : sentinelByStatus[status] \notin SubCodes(status)
<1>1. ASSUME NEW id \in DOMAIN sentinelByID
      PROVE  IF StatusOf(id) \in {403, 404} THEN sentinelByID[id] \in SubCodes(StatusOf(id))
             ELSE sentinelByID[id] = sentinelByStatus[StatusOf(id)]
  <2>1. CASE id \in {"403.1", "403.2", "403.3", "403.4"}
    BY <2>1 DEF sentinelByID, StatusOf, SubCodes
  <2>2. CASE id \in {"404.1", "404.2"}
    BY <2>2 DEF sentinelByID, StatusOf, SubCodes
  <2>3. CASE id \in {"400", "401", "409", "429", "500", "503"}
    BY <2>3 DEF sentinelByID, sentinelByStatus, StatusOf
  <2> QED
    BY <2>1, <2>2, <2>3 DEF sentinelByID
<1>2. \A status \in DOMAIN sentinelByStatus : sentinelByStatus[status] \notin SubCodes(status)
  BY DEF sentinelByStatus, SubCodes
<1> QED
  BY <1>1, <1>2

\* What errors.Is finds of an error of a known class: the class, and a sub-code
\* of it when the API sent one.
LEMMA SatisfiesNest ==
    ASSUME NEW status \in DOMAIN sentinelByStatus,
           NEW id, id \in DOMAIN sentinelByID => status = StatusOf(id),
           NEW e, e = [chain |-> <<"api">>, status |-> status, id |-> id],
           NEW specific, specific = Satisfies(e) \ {sentinelByStatus[status]}
    PROVE  /\ Is(e, sentinelByStatus[status])
           /\ specific \subseteq SubCodes(status)
           /\ specific = {} <=> id \notin DOMAIN sentinelByID \/ status \notin {403, 404}
<1>1. Satisfies(e) = Lookup(sentinelByID, id) \cup {sentinelByStatus[status]}
  BY ApiErrors DEF Lookup
<1>2. specific = Lookup(sentinelByID, id) \ {sentinelByStatus[status]}
  BY <1>1
<1>3. CASE id \notin DOMAIN sentinelByID
  BY <1>1, <1>2, <1>3 DEF Lookup, Is
<1>4. CASE id \in DOMAIN sentinelByID /\ status \in {403, 404}
  <2>1. specific = {sentinelByID[id]} /\ sentinelByID[id] \in SubCodes(status)
    BY <1>2, <1>4, TablesNest DEF Lookup
  <2> QED
    BY <1>1, <1>4, <2>1 DEF Is
<1>5. CASE id \in DOMAIN sentinelByID /\ status \notin {403, 404}
  <2>1. specific = {}
    BY <1>2, <1>5, TablesNest DEF Lookup
  <2> QED
    BY <1>1, <1>5, <2>1 DEF Is
<1> QED
  BY <1>3, <1>4, <1>5

-----------------------------------------------------------------------------
(* The steps.                                                               *)

LEMMA FlowInit == Init => FlowInvariant
BY DEF Init, FlowInvariant, FlowOK, Stages, ReturnSound, CancelSound

\* The program stays within its steps.
LEMMA FlowStep == FlowOK /\ [Next]_vars => FlowOK'
<1> SUFFICES ASSUME FlowOK, [Next]_vars PROVE FlowOK'
  OBVIOUS
<1> USE DEF FlowOK, Stages
<1>1. CASE Call
  BY <1>1 DEF Call, Begin
<1>2. CASE TimesOut
  BY <1>2 DEF TimesOut, InAttempt
<1>3. CASE Proceed
  BY <1>3 DEF Proceed, After
<1>4. CASE Judge
  BY <1>4 DEF Judge
<1>5. CASE Wake
  BY <1>5 DEF Wake, Begin
<1>6. CASE Interrupted
  BY <1>6 DEF Interrupted
<1>7. CASE Requeue
  BY <1>7 DEF Requeue
<1>8. ASSUME NEW how \in {"canceled", "deadline"}, CallerEnds(how) PROVE FlowOK'
  BY <1>8 DEF CallerEnds
<1>9. ASSUME NEW c, Fail(c) PROVE FlowOK'
  BY <1>9 DEF Fail
<1>10. ASSUME NEW a \in Answers, Answer(a) PROVE FlowOK'
  BY <1>10 DEF Answer
<1>11. CASE UNCHANGED vars
  BY <1>11 DEF vars
<1> QED
  BY <1>1, <1>2, <1>3, <1>4, <1>5, <1>6, <1>7, <1>8, <1>9, <1>10, <1>11 DEF Next

\* A call returns what its last attempt left, judged once and for all, and an
\* interrupted sleep has an ended context.
LEMMA ReturnStep == FlowOK /\ ReturnSound /\ [Next]_vars => ReturnSound'
<1> SUFFICES ASSUME FlowOK, ReturnSound, [Next]_vars PROVE ReturnSound'
  OBVIOUS
<1>1. CASE Judge
  <2>1. UNCHANGED <<verb, tries, caller, res, sendErr>>
    BY <1>1 DEF Judge
  <2>2. SUFFICES ASSUME pc' = "returned", verb = "GET", caller = "live", tries < Attempts
                 PROVE  \/ "hook" \in Layers(sendErr)
                        \/ /\ res \in Answers /\ err' = Decoded(res.status, res.body)
                           /\ ~(res.status = 429 /\ ~res.long) /\ res.status \notin {500, 503}
    BY <2>1 DEF ReturnSound
  <2>3. ~classify /\ err' = LastError /\ pc \in {"failed", "answered"}
    BY <1>1, <2>2 DEF Judge
  <2>4. CASE pc = "failed"
    BY <2>2, <2>3, <2>4 DEF classify, retryVerb
  <2>5. CASE pc = "answered"
    BY <2>2, <2>3, <2>5 DEF classify, retryVerb, LastError, FlowOK
  <2> QED
    BY <2>3, <2>4, <2>5
<1>2. CASE Interrupted
  BY <1>2 DEF Interrupted, ReturnSound
<1>3. ASSUME NEW how \in {"canceled", "deadline"}, CallerEnds(how) PROVE ReturnSound'
  BY <1>3 DEF CallerEnds, ReturnSound
<1>4. CASE UNCHANGED vars
  BY <1>4 DEF vars, ReturnSound
<1>5. CASE Call \/ TimesOut \/ Proceed \/ Wake \/ Requeue
           \/ (\E c \in Chains(pc) : Fail(c)) \/ (\E a \in Answers : Answer(a))
  <2>1. pc' # "returned"
    BY <1>5 DEF Call, Begin, TimesOut, InAttempt, Proceed, After, Wake, Requeue, Fail, Answer
  <2> QED
    BY <2>1 DEF ReturnSound
<1> QED
  BY <1>1, <1>2, <1>3, <1>4, <1>5 DEF Next

\* After the cancellation a loop calls once more at most, and what that call
\* returns ends it.
LEMMA CancelStep == FlowOK /\ CancelSound /\ [Next]_vars => CancelSound'
<1> SUFFICES ASSUME FlowOK, CancelSound, [Next]_vars PROVE CancelSound'
  OBVIOUS
<1>1. CASE Call
  <2>1. late = 0 \/ caller # "canceled"
    BY <1>1 DEF Call, CancelSound, Doomed
  <2> QED
    BY <1>1, <2>1 DEF Call, Begin, CancelSound, Doomed
<1>2. CASE TimesOut
  BY <1>2 DEF TimesOut, InAttempt, CancelSound, Doomed
<1>3. CASE Proceed
  BY <1>3 DEF Proceed, After, CancelSound, Doomed
<1>4. CASE Judge
  <2>1. UNCHANGED <<late, caller>>
    BY <1>4 DEF Judge
  <2>2. ASSUME caller = "canceled", late # 0 PROVE Doomed'
    <3>1. pc = "failed" /\ ~IsRetryable(LastError)
      BY <1>4, <2>2 DEF Judge, CancelSound, Doomed
    <3>2. ~classify
      BY <2>2, <3>1 DEF classify
    <3>3. pc' = "returned" /\ err' = LastError
      BY <1>4, <3>2 DEF Judge
    <3> QED
      BY <3>1, <3>3 DEF Doomed
  <2> QED
    BY <2>1, <2>2 DEF CancelSound
<1>5. CASE Wake
  BY <1>5 DEF Wake, CancelSound, Doomed
<1>6. CASE Interrupted
  BY <1>6 DEF Interrupted, CancelSound, Doomed
<1>7. CASE Requeue
  BY <1>7 DEF Requeue, CancelSound, Doomed
<1>8. ASSUME NEW how \in {"canceled", "deadline"}, CallerEnds(how) PROVE CancelSound'
  BY <1>8 DEF CallerEnds, CancelSound
<1>9. ASSUME NEW c \in Chains(pc), Fail(c) PROVE CancelSound'
  <2>1. UNCHANGED <<late, caller, ended>> /\ pc' = "failed" /\ sendErr' = Failure(c)
    BY <1>9 DEF Fail
  <2>2. ASSUME caller = "canceled", late # 0 PROVE Doomed'
    <3>1. pc \in {"wait", "token", "send"} /\ ended = "canceled"
      BY <1>9, <2>2 DEF Fail, InAttempt, CancelSound, Doomed
    <3>2. ~IsRetryable(Failure(Unhooked(c)))
      BY <1>9, <3>1, CanceledFailures
    <3>3. LastError' = Failure(Unhooked(c))
      BY <2>1 DEF LastError, Failure
    <3> QED
      BY <2>1, <3>2, <3>3 DEF Doomed
  <2> QED
    BY <2>1, <2>2 DEF CancelSound
<1>10. ASSUME NEW a \in Answers, Answer(a) PROVE CancelSound'
  BY <1>10 DEF Answer, CancelSound, Doomed
<1>11. CASE UNCHANGED vars
  <2>1. Doomed' <=> Doomed
    BY <1>11 DEF vars, Doomed, LastError
  <2> QED
    BY <1>11, <2>1 DEF vars, CancelSound
<1> QED
  BY <1>1, <1>2, <1>3, <1>4, <1>5, <1>6, <1>7, <1>8, <1>9, <1>10, <1>11 DEF Next

-----------------------------------------------------------------------------
(* The theorems.                                                            *)

\* What every state of a call keeps: the steps of attempt, the verdict of
\* classify with the error it goes with, and the end of a canceled loop.
THEOREM FlowCorrect == Spec => []FlowInvariant
<1>1. Init => FlowInvariant
  BY FlowInit
<1>2. FlowInvariant /\ [Next]_vars => FlowInvariant'
  BY FlowStep, ReturnStep, CancelStep DEF FlowInvariant
<1> QED
  BY <1>1, <1>2, PTL DEF Spec

\* classify and IsRetryable give a GET's answer the same verdict, a long 429
\* left aside, for every answer that pairs ids and statuses as the API does.
THEOREM AgreeCorrect == Spec => []AnswersAgree
<1>1. FlowInvariant => AnswersAgree
  <2> SUFFICES ASSUME FlowOK, pc = "answered", verb = "GET", ~res.long
               PROVE  classify <=> IsRetryable(LastError)
    BY DEF FlowInvariant, AnswersAgree
  <2>1. classify <=> res.status \in {429, 500, 503}
    BY DEF classify, retryVerb
  <2>2. LastError = Decoded(res.status, res.body) /\ res \in Answers
    BY DEF LastError, FlowOK
  <2> QED
    BY <2>1, <2>2, AnswerErrors
<1> QED
  BY <1>1, FlowCorrect, PTL

\* A GET that came back early with a retryable error had its reason in classify:
\* a hook's failure, or a Retry-After beyond the cap.
THEOREM GaveUpCorrect == Spec => []GaveUpForGood
<1>1. FlowInvariant => GaveUpForGood
  BY AnswerErrors DEF FlowInvariant, ReturnSound, GaveUpForGood
<1> QED
  BY <1>1, FlowCorrect, PTL

\* IsRetryable asks for a cancellation before it looks for a net.Error: a loop
\* that requeues what is retryable makes one more call after it, and stops.
THEOREM CancelLoopCorrect == Spec => []CancelEndsRequeue
<1>1. FlowInvariant => CancelEndsRequeue
  BY DEF FlowInvariant, FlowOK, CancelSound, CancelEndsRequeue
<1> QED
  BY <1>1, FlowCorrect, PTL

\* decodeWireError and Error.Is: an answer of a known class is an error of that
\* class and of no other, and of the sub-code the API sent.
THEOREM NestCorrect == Spec => []SentinelsNest
<1>1. FlowInvariant => SentinelsNest
  <2> SUFFICES ASSUME FlowOK, pc = "answered", res.status \in DOMAIN sentinelByStatus
               PROVE  LET specific == Satisfies(LastError) \ {sentinelByStatus[res.status]}
                      IN  /\ Is(LastError, sentinelByStatus[res.status])
                          /\ specific \subseteq SubCodes(res.status)
                          /\ specific = {} <=> \/ res.body.form # "error"
                                              \/ res.body.id \notin DOMAIN sentinelByID
                                              \/ res.status \notin {403, 404}
    BY DEF FlowInvariant, SentinelsNest
  <2>1. PICK id : id = IF res.body.form = "error" THEN res.body.id ELSE NoID
    OBVIOUS
  <2>2. PICK status : status = res.status
    OBVIOUS
  <2>3. PICK e : e = [chain |-> <<"api">>, status |-> status, id |-> id]
    OBVIOUS
  <2>4. PICK specific : specific = Satisfies(e) \ {sentinelByStatus[status]}
    OBVIOUS
  <2>5. status \in DOMAIN sentinelByStatus /\ status \notin 200..299
    BY <2>2 DEF sentinelByStatus
  <2>6. LastError = e
    BY <2>1, <2>2, <2>3, <2>5 DEF LastError, Decoded, decodeWireError
  <2>7. id \in DOMAIN sentinelByID => status = StatusOf(id)
    BY <2>1, <2>2, AnswersAssumption DEF FlowOK, NoID, sentinelByID
  <2>8. /\ Is(e, sentinelByStatus[status])
        /\ specific \subseteq SubCodes(status)
        /\ specific = {} <=> id \notin DOMAIN sentinelByID \/ status \notin {403, 404}
    BY <2>3, <2>4, <2>5, <2>7, SatisfiesNest
  <2>9. id \notin DOMAIN sentinelByID <=> \/ res.body.form # "error"
                                          \/ res.body.id \notin DOMAIN sentinelByID
    BY <2>1 DEF NoID, sentinelByID
  <2> QED
    BY <2>2, <2>4, <2>6, <2>8, <2>9
<1> QED
  BY <1>1, FlowCorrect, PTL
=============================================================================
