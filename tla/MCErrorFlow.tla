----------------------------- MODULE MCErrorFlow -----------------------------
(***************************************************************************)
(* Every status the API documents and two it does not, with the ids it may *)
(* carry, without an envelope, and with a 429 that asks for too long.      *)
(***************************************************************************)
EXTENDS ErrorFlow

IdsOf(status) == CASE status = 403 -> {"403.1", "403.2", "403.3", "403.4", "403.9"}
                   [] status = 404 -> {"404.1", "404.2"}
                   [] status = 418 -> {NoID}
                   [] OTHER -> {ToString(status)}

Bodies(status) == {[form |-> "other"]} \cup
                  IF status = 200 THEN {[form |-> "data"]}
                  ELSE {[form |-> "error", id |-> id] : id \in IdsOf(status)}

AnAnswer(status, long) == {[status |-> status, body |-> b, long |-> long] : b \in Bodies(status)}

AllAnswers == UNION {AnAnswer(s, FALSE) : s \in {200, 400, 401, 403, 404, 409, 418, 429, 500, 502, 503}}
              \cup AnAnswer(429, TRUE)
=============================================================================
