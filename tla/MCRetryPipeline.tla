--------------------------- MODULE MCRetryPipeline ---------------------------
(***************************************************************************)
(* RetryPipeline on small instances: the headers the .cfg files choose     *)
(* from.  With Second = 1, MaxBackoff = 2 and Minute = 3, three ticks is   *)
(* the longest wait the pipeline sleeps through and five is beyond it; no  *)
(* int of 8 bits holds 128 seconds, a header the code cannot read.         *)
(***************************************************************************)
EXTENDS RetryPipeline

ShortAndLong == {[form |-> "secs", n |-> 1], [form |-> "secs", n |-> 5],
                 [form |-> "secs", n |-> 128],
                 [form |-> "date", n |-> 3], [form |-> "date", n |-> 5]}
OneShort == {[form |-> "secs", n |-> 2]}
=============================================================================
