---------------------------- MODULE CallContract -----------------------------
(***************************************************************************)
(* What a caller of the client may rely on when it issues one API          *)
(* operation: how often the server carries it out, and what the verdict    *)
(* that comes back says about that.  An effect may come late, after the    *)
(* caller has its verdict.                                                 *)
(***************************************************************************)
CONSTANTS Calls,
          Deliveries    \* what may carry a call's effect to the server

VARIABLES once,     \* once[c]: call c is a write that must not be repeated
          phase,    \* phase[c]: where the caller stands
          effects   \* effects[c]: the deliveries that took effect

vars == <<once, phase, effects>>

Verdicts == {"succeeded", "refused", "unknown"}

Init == /\ once \in [Calls -> BOOLEAN]
        /\ phase = [c \in Calls |-> "idle"]
        /\ effects = [c \in Calls |-> {}]

Open(c) == /\ phase[c] = "idle"
           /\ phase' = [phase EXCEPT ![c] = "open"]
           /\ UNCHANGED <<once, effects>>

\* A write takes effect once, and never after its refusal.
Effect(c, d) == /\ phase[c] # "idle"
                /\ once[c] => effects[c] = {} /\ phase[c] # "refused"
                /\ effects' = [effects EXCEPT ![c] = @ \cup {d}]
                /\ UNCHANGED <<once, phase>>

\* Success is reported of an effect; a write is refused only without one.
Close(c, verdict) ==
    /\ phase[c] = "open"
    /\ verdict = "succeeded" => effects[c] # {}
    /\ verdict = "refused" /\ once[c] => effects[c] = {}
    /\ phase' = [phase EXCEPT ![c] = verdict]
    /\ UNCHANGED <<once, effects>>

Next == \E c \in Calls : \/ Open(c)
                         \/ \E d \in Deliveries : Effect(c, d)
                         \/ \E v \in Verdicts : Close(c, v)

Spec == Init /\ [][Next]_vars
=============================================================================
