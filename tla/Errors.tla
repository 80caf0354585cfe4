-------------------------------- MODULE Errors -------------------------------
(***************************************************************************)
(* The errors a call returns and the questions asked of them (errors.go).  *)
(*                                                                         *)
(* An error is the chain of what it wraps, the outermost layer first.      *)
(* "api" is *Error, whose status and id are beside the chain; "url" and    *)
(* "op" are net.Errors that wrap something; "deadline" and "canceled" are  *)
(* the bare values of package context, the first of them a net.Error too.  *)
(***************************************************************************)
EXTENDS Sequences, SequencesExt

NoID == ""
Failure(chain) == [chain |-> chain, status |-> 0, id |-> NoID]
NoFailure == Failure(<<>>)

Layers(err) == ToSet(err.chain)

\* Mutant: a sub-code under the sentinel of another one's class.
sentinelByIDSwapped == [id \in {"403.3", "404.1"} |->
                           IF id = "403.3" THEN "ErrRouteNotFound" ELSE "ErrUnauthorizedScope"]

sentinelByID ==
    [id \in {"400", "401", "403.1", "403.2", "403.3", "403.4", "404.1", "404.2",
             "409", "429", "500", "503"} |->
        CASE id = "400"   -> "ErrBadRequest"          [] id = "401"   -> "ErrNotAuthorized"
          [] id = "403.1" -> "ErrSubscriptionLapsed"  [] id = "403.2" -> "ErrTrialExpired"
          [] id = "403.3" -> "ErrUnauthorizedScope"   [] id = "403.4" -> "ErrDataLimitReached"
          [] id = "404.1" -> "ErrRouteNotFound"       [] id = "404.2" -> "ErrResourceNotFound"
          [] id = "409"   -> "ErrConflict"            [] id = "429"   -> "ErrRateLimited"
          [] id = "500"   -> "ErrServerError"         [] id = "503"   -> "ErrServiceUnavailable"]

sentinelByStatus ==
    [status \in {400, 401, 403, 404, 409, 429, 500, 503} |->
        CASE status = 400 -> "ErrBadRequest"   [] status = 401 -> "ErrNotAuthorized"
          [] status = 403 -> "ErrForbidden"    [] status = 404 -> "ErrNotFound"
          [] status = 409 -> "ErrConflict"     [] status = 429 -> "ErrRateLimited"
          [] status = 500 -> "ErrServerError"  [] status = 503 -> "ErrServiceUnavailable"]

Lookup(table, key) == IF key \in DOMAIN table THEN {table[key]} ELSE {}

\* The sentinels an error is, in the sense of errors.Is.
Satisfies(err) == IF "api" \notin Layers(err) THEN {}
                  ELSE Lookup(sentinelByID, err.id) \cup Lookup(sentinelByStatus, err.status)
Is(err, sentinel) == sentinel \in Satisfies(err)

\* Mutant: a body that is no envelope is taken for a failure of the decoder.
decodeWireErrorStrict(status, body) ==
    IF body.form = "error" THEN [chain |-> <<"api">>, status |-> status, id |-> body.id]
    ELSE Failure(<<"wrap", "plain">>)

\* The envelope's id when there is one; the status whatever the body.
decodeWireError(status, body) ==
    [chain |-> <<"api">>, status |-> status, id |-> IF body.form = "error" THEN body.id ELSE NoID]

\* decodeData: a success must carry data.
decodeData(body) == IF body.form = "data" THEN NoFailure ELSE Failure(<<"wrap", "plain">>)

\* The end of Do, with what execute left.
Decoded(status, body) ==
    IF status \in 200..299 THEN decodeData(body) ELSE decodeWireError(status, body)

NetErrors == {"url", "op", "deadline"}

\* Mutant: the net.Error walk before the question of cancellation.
IsRetryableNetFirst(err) ==
    \/ \E s \in {"ErrRateLimited", "ErrServerError", "ErrServiceUnavailable"} : Is(err, s)
    \/ /\ Layers(err) \cap {"argument", "api"} = {}
       /\ \E i \in 1..(Len(err.chain) - 1) : err.chain[i] \in NetErrors

\* An API answer by its class; a cancellation never; else a net.Error, unless
\* the first one found is the bare deadline.
IsRetryable(err) ==
    \/ \E s \in {"ErrRateLimited", "ErrServerError", "ErrServiceUnavailable"} : Is(err, s)
    \/ /\ Layers(err) \cap {"argument", "api", "canceled"} = {}
       /\ \E i \in 1..Len(err.chain) :
             /\ err.chain[i] \in NetErrors
             /\ \A j \in 1..(i - 1) : err.chain[j] \notin NetErrors
             /\ ~(i = Len(err.chain) /\ err.chain[i] = "deadline")
=============================================================================
