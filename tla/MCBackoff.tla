------------------------------ MODULE MCBackoff ------------------------------
(***************************************************************************)
(* Backoff over a whole call: a client is built with some policy and then  *)
(* waits before retry 1, 2, 3, ...  The word is narrow (WordBits of the    *)
(* .cfg), so the policies and headers tried reach its last bit.            *)
(***************************************************************************)
EXTENDS Backoff

CONSTANTS Durations,    \* values tried for the policy's fields
          Headers,      \* numbers tried for Retry-After
          MaxRetry      \* bound: retries of one call, past the end of the word

VARIABLES policy,   \* the policy in force
          retry,    \* retries so far
          wait,     \* the last wait
          asked     \* what the server asked for before it, unbounded; 0: nothing
              \* that the code can read

waitVars == <<policy, retry, wait, asked>>

\* Values that reach the first and last bit of an 8-bit word, and the refused
\* ones: zero and negative.  Of the headers, 63 is the last that needs no clamp,
\* 127 the last that parses.  The constants of the .cfg name these sets.
SomeDurations == {-1, 0, 1, 2, 31, 32, 127}
SomeHeaders == {-1, 0, 5, 12, 13, 63, 64, 127, 128}

\* The client's own defaults, scaled to the word.
Default == [attempts |-> 3, min |-> 3, max |-> 40]

\* The numbers are Go's: durations of the word, the defaults among them, and
\* headers of any size.
ASSUME TriedAssumption == /\ Durations \subseteq Int
                          /\ \A d \in Durations : d <= MaxDuration
                          /\ Default.max <= MaxDuration
                          /\ Headers \subseteq Int
                          /\ MaxRetry \in 0..(WordBits + 1)

TriedRetryAfters == {NoHeader} \cup [form : {"secs", "date"}, n : Headers]

WaitsInit == /\ \E a \in {-1, 0, 2}, lo \in Durations, hi \in Durations :
              policy = WithRetryPolicy([attempts |-> a, min |-> lo, max |-> hi], Default)
        /\ retry = 0
        /\ wait = 0
        /\ asked = 0

Wait(status, ra) ==
    /\ retry' = retry + 1
    /\ wait' \in retryDelays(policy, retry + 1, status, ra, ra.n)
    /\ asked' = IF status = 429 THEN Advised(ra) ELSE 0
    /\ UNCHANGED policy

WaitAfter429 == /\ retry < MaxRetry
                /\ \E ra \in TriedRetryAfters : /\ WillPark(policy, ra, ra.n)
                                           /\ Wait(429, ra)

\* After a 500 or 503, or after an attempt without an answer (status 0); a
\* Retry-After on such an answer is there to be ignored.
WaitAfterFailure == /\ retry < MaxRetry
                    /\ \/ Wait(0, NoHeader)
                       \/ Wait(503, [form |-> "secs", n |-> 5])

WaitsNext == WaitAfter429 \/ WaitAfterFailure
WaitsSpec == WaitsInit /\ [][WaitsNext]_waitVars

-----------------------------------------------------------------------------
\* The policy in force is always one the arithmetic was written for, and a
\* wait is a number of the word that the sleeper really sleeps: never zero,
\* never negative, never past the cap that the pipeline promises its caller.
\* Without advice it lies in the interval retryDelay documents,
\* [MinBackoff, min(MaxBackoff, MinBackoff * 2^i)), in exact arithmetic: no
\* shift of the doubling overflows, however large the policy or the retry.
WaitBounded ==
    /\ policy \in Policy
    /\ policy.min <= policy.max
    /\ retry > 0 => wait \in 1..retryAfterCap(policy)
    /\ retry > 0 /\ asked = 0 =>
           /\ wait >= policy.min
           /\ wait > policy.min => wait < policy.max /\ wait < policy.min * 2^retry

\* A wait that follows a 429 is never shorter than the Retry-After, where the
\* header parses.  When its seconds are an int but do not fit in a Duration
\* (64..127 here), or its date lies beyond one, the wait is the longest there is
\* (about 292 years in the code), and that only under a MaxBackoff of as much.
\* A number that no int holds (128 here) asks for nothing the code can read; the
\* wait is then the jittered one of WaitBounded.
AdviceHonoured ==
    asked > 0 => wait >= asked \/ (wait = MaxDuration /\ policy.max = MaxDuration)

\* The ceiling of the jitter never comes down from one retry to the next, as
\* it would if MinBackoff << i wrapped.
CeilingNeverFalls ==
    [][retry > 0 => JitterUpper(policy, retry') >= JitterUpper(policy, retry)]_waitVars

=============================================================================
