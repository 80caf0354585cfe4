--------------------------- MODULE SnapshotReplica ---------------------------
(***************************************************************************)
(* What an application that syncs wants to believe: its replica is always  *)
(* the exact state its plan had at some server knowledge, and it only ever *)
(* moves on to a later one, unless it is dropped as a whole.               *)
(***************************************************************************)
EXTENDS Integers

CONSTANTS Plans, NoPlan, Empty, MaxKnowledge

VARIABLES past,     \* past[p][k]: plan p at knowledge k
          plan,     \* the plan replicated, or NoPlan
          cursor,   \* the knowledge the replica has reached
          replica   \* its content

vars == <<plan, cursor, replica>>

Init == plan = NoPlan /\ cursor = 0 /\ replica = Empty

\* The first sync chooses the plan; the others advance it.
Sync(p, k) == /\ plan \in {NoPlan, p}
              /\ k >= cursor
              /\ plan' = p /\ cursor' = k
              /\ replica' = past[p][k]

Drop == plan' = NoPlan /\ cursor' = 0 /\ replica' = Empty

\* The replica is no longer known to be one of any plan: it can be dropped,
\* and nothing else.
Disown == plan # NoPlan /\ plan' = NoPlan /\ UNCHANGED <<cursor, replica>>

Next == \/ \E p \in Plans, k \in 1..MaxKnowledge :
               Sync(p, k) /\ (plan = NoPlan => cursor = 0)
        \/ Drop
        \/ Disown

Spec == Init /\ [][Next]_vars
=============================================================================
