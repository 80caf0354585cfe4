------------------------------- MODULE Backoff -------------------------------
(***************************************************************************)
(* How long the retry pipeline waits between two attempts: the policy that *)
(* client.go accepts and the arithmetic of internal/transport/retry.go.    *)
(*                                                                         *)
(* A duration is an int64 of nanoseconds in the code and an integer of     *)
(* WordBits bits here, so that an overflow of the code is one of the model.*)
(* Second and Minute are the two durations the code names.                 *)
(***************************************************************************)
EXTENDS Integers

CONSTANTS WordBits,         \* width of time.Duration (64 in the code)
          Second, Minute    \* time.Second and time.Minute

ASSUME WordAssumption == WordBits \in Nat \ {0}

\* What the provers are not able to compute: the powers of two of the word.
ASSUME PowerAssumption ==
    \A i \in 0..WordBits : 2^i \in Nat \ {0} /\ 2^(i+1) = 2 * 2^i

MaxDuration == 2^(WordBits - 1) - 1

ASSUME UnitAssumption ==
    /\ Second \in 1..MaxDuration
    /\ Minute \in Second..(MaxDuration - 1)

\* Two's complement: what a WordBits-bit register keeps of x.
Wrap(x) == LET r == x % 2^WordBits
           IN  IF r > MaxDuration THEN r - 2^WordBits ELSE r

Least(x, y) == IF x < y THEN x ELSE y

-----------------------------------------------------------------------------
(* The policy.  WithRetryPolicy replaces zero fields by their defaults and  *)
(* then refuses what the arithmetic below could not bear.                   *)

Policy == [attempts : 1..MaxDuration, min : 1..MaxDuration, max : 1..MaxDuration]

OrDefault(x, default) == IF x = 0 THEN default ELSE x

Resolve(p, default) == [attempts |-> OrDefault(p.attempts, default.attempts),
                        min      |-> OrDefault(p.min, default.min),
                        max      |-> OrDefault(p.max, default.max)]

\* Mutant: a non-positive MinBackoff accepted.
AcceptedAnyMin(p) == p.attempts >= 1 /\ p.max >= p.min

Accepted(p) == /\ p.attempts >= 1
               /\ p.min > 0
               /\ p.max >= p.min

\* The policy in force after the option ran: a refused one changes nothing
\* (and the client's calls then fail before any I/O).
WithRetryPolicy(p, default) ==
    IF Accepted(Resolve(p, default)) THEN Resolve(p, default) ELSE default

-----------------------------------------------------------------------------
(* The Retry-After header, as the two readers of it see it.                 *)

\* "secs" carries the number, "date" an instant; "none" stands for a header
\* that is absent or is neither.
NoHeader == [form |-> "none", n |-> 0]

\* Seconds are read where strconv.Atoi gives a non-negative int, which is as
\* wide as a Duration (the clamp compiles with no narrower one).  It fails on a
\* number that no int holds, and no date parses then: the header says nothing.
ReadAsSeconds(ra) == ra.form = "secs" /\ ra.n \in 0..MaxDuration

\* The wait asked for by a header that parses, in exact arithmetic.
Advised(ra) == IF ReadAsSeconds(ra) THEN ra.n * Second
               ELSE IF ra.form = "date" /\ ra.n > 0 THEN ra.n ELSE 0

\* Mutant: no clamp before the multiplication.
RetryAfterDelayUnclamped(ra, left) ==
    IF ReadAsSeconds(ra) THEN Wrap(ra.n * Second)
    ELSE IF ra.form = "date" /\ left > 0 THEN Least(left, MaxDuration) ELSE 0

\* left is the time that remains until the instant of a "date" header, read
\* from the clock at each call; time.Until saturates.
RetryAfterDelay(ra, left) ==
    IF ReadAsSeconds(ra)
    THEN IF ra.n > MaxDuration \div Second THEN MaxDuration ELSE Wrap(ra.n * Second)
    ELSE IF ra.form = "date" /\ left > 0 THEN Least(left, MaxDuration) ELSE 0

retryAfterCap(p) == IF p.max > Minute THEN p.max ELSE Minute

\* Mutant: every 429 slept through, its wait cut at the cap.
WillParkAlways(p, ra, left) == TRUE

\* A 429 is slept through only when its wait is one the pipeline will sleep.
WillPark(p, ra, left) == RetryAfterDelay(ra, left) <= retryAfterCap(p)

-----------------------------------------------------------------------------
(* retryDelay: every wait that may precede retry i (1-based).               *)

\* x >> i of a non-negative x.
ShiftRight(x, i) == x \div 2^i

\* Mutants: the doubling one retry ahead; the doubling before the test.
JitterUpperAhead(p, i) ==
    IF i < WordBits - 1 /\ p.min <= ShiftRight(p.max, i)
    THEN Wrap(p.min * 2^(i + 1)) ELSE p.max
JitterUpperDoubled(p, i) ==
    IF Wrap(p.min * 2^i) < p.max THEN Wrap(p.min * 2^i) ELSE p.max

\* The end of the jitter interval, by the overflow-free doubling test.
JitterUpper(p, i) ==
    IF i < WordBits - 1 /\ p.min <= ShiftRight(p.max, i)
    THEN Wrap(p.min * 2^i)
    ELSE p.max

\* MinBackoff + rand * (upper - MinBackoff), rand in [0, 1), truncated.
Jittered(p, i) ==
    IF JitterUpper(p, i) <= p.min
    THEN {p.min}
    ELSE p.min .. (JitterUpper(p, i) - 1)

retryDelays(p, i, status, ra, left) ==
    IF status = 429 /\ RetryAfterDelay(ra, left) > 0
    THEN {Least(RetryAfterDelay(ra, left), retryAfterCap(p))}
    ELSE Jittered(p, i)
=============================================================================
