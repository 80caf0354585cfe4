------------------------- MODULE RetryPipelineProofs -------------------------
(***************************************************************************)
(* The waits, for every policy the client accepts, every retry and every   *)
(* width of the word: their arithmetic, which the pipeline's proofs build  *)
(* on, and then the waits of a whole call, as MCBackoff makes them.        *)
(*                                                                         *)
(* Then RetryPipeline, for any number of calls, attempts, statuses and     *)
(* headers.  First the types, with LoopInvariant because the bound on the  *)
(* attempts is what keeps the loop within them; then EffectsTracked, the   *)
(* inductive invariant behind the promises about effects; then those       *)
(* promises; then the refinement of CallContract; last, when the loop goes *)
(* on and when it stops.                                                   *)
(***************************************************************************)
EXTENDS RetryPipeline, MCBackoff, TLAPS

-----------------------------------------------------------------------------
(* The arithmetic of the waits.                                             *)

\* A shift right and a shift left of the same amount do not grow a number.
LEMMA QuotientTimes == ASSUME NEW x \in Nat, NEW y \in Nat, NEW q \in Nat \ {0},
                              x <= y \div q
                       PROVE  x * q \in Nat /\ x * q <= y
  BY SMTT(20)

\* The word holds its largest duration and twice that range when wrapped.
LEMMA WordSize == /\ 2^WordBits \in Nat \ {0}
                  /\ MaxDuration \in Nat
                  /\ 2^WordBits = 2 * (MaxDuration + 1)
<1>1. WordBits - 1 \in 0..WordBits /\ WordBits \in 0..WordBits
  BY WordAssumption
<1>2. (WordBits - 1) + 1 = WordBits
  BY WordAssumption
<1>3. /\ 2^WordBits \in Nat \ {0}
      /\ 2^(WordBits - 1) \in Nat \ {0}
      /\ 2^((WordBits - 1) + 1) = 2 * 2^(WordBits - 1)
  BY <1>1, PowerAssumption
<1>4. 2^WordBits = 2 * 2^(WordBits - 1)
  BY <1>2, <1>3
<1> QED
  BY <1>3, <1>4 DEF MaxDuration

\* A number that fits in the word is not changed by it.
LEMMA WrapFits == ASSUME NEW x \in 0..MaxDuration
                  PROVE  Wrap(x) = x
<1>1. \A m \in Nat \ {0} : x < m => x % m = x
  BY WordSize, SMTT(20)
<1>2. x % 2^WordBits = x
  BY <1>1, WordSize
<1> QED
  BY <1>2, WordSize DEF Wrap

\* A Retry-After is read as a wait that fits in the word: the clamp comes
\* before the multiplication can overflow.
LEMMA RetryAfterFits ==
    ASSUME NEW ra \in [form : {"none", "secs", "date"}, n : Int],
           NEW left \in Int
    PROVE  RetryAfterDelay(ra, left) \in 0..MaxDuration
<1>1. Second \in Nat \ {0} /\ MaxDuration \in Nat
  BY WordSize, UnitAssumption
<1>2. CASE ReadAsSeconds(ra) /\ ra.n <= MaxDuration \div Second
  <2>1. ra.n * Second \in 0..MaxDuration
    BY <1>1, <1>2, QuotientTimes DEF ReadAsSeconds
  <2>2. Wrap(ra.n * Second) = ra.n * Second
    BY <2>1, WrapFits
  <2>3. MaxDuration \div Second \in Int /\ ra.n \in Int
    BY <1>1
  <2> QED
    BY <1>1, <1>2, <2>1, <2>2, <2>3 DEF RetryAfterDelay
<1>3. CASE ReadAsSeconds(ra) /\ ra.n > MaxDuration \div Second
  BY <1>1, <1>3 DEF RetryAfterDelay
<1>4. CASE ~ReadAsSeconds(ra)
  BY <1>1, <1>4 DEF RetryAfterDelay, Least
<1> QED
  <2>1. MaxDuration \div Second \in Int /\ ra.n \in Int
    BY <1>1
  <2> QED
    BY <1>2, <1>3, <1>4, <2>1

\* The ceiling of the jitter is the documented min(MaxBackoff, MinBackoff * 2^i)
\* in exact arithmetic, or MaxBackoff where the shift is not tried.
LEMMA CeilingFits ==
    ASSUME NEW p \in Policy, p.min <= p.max, NEW i \in Nat \ {0}
    PROVE  JitterUpper(p, i) \in p.min..p.max
<1>0. p.min \in 1..MaxDuration /\ p.max \in 1..MaxDuration /\ MaxDuration \in Nat
  BY WordSize DEF Policy
<1>1. CASE i < WordBits - 1 /\ p.min <= ShiftRight(p.max, i)
  <2>1. i \in 0..WordBits
    BY <1>1, WordAssumption
  <2>2. 2^i \in Nat \ {0}
    BY <2>1, PowerAssumption
  <2>3. p.min * 2^i \in Nat /\ p.min * 2^i <= p.max
    BY <1>0, <1>1, <2>2, QuotientTimes DEF ShiftRight
  <2>4. Wrap(p.min * 2^i) = p.min * 2^i
    BY <1>0, <2>3, WrapFits
  <2>5. \A x \in Nat, q \in Nat \ {0} : x <= x * q
    BY SMTT(20)
  <2>6. p.min <= p.min * 2^i
    BY <1>0, <2>2, <2>5
  <2> QED
    BY <1>0, <1>1, <2>3, <2>4, <2>6 DEF JitterUpper
<1>2. CASE ~(i < WordBits - 1 /\ p.min <= ShiftRight(p.max, i))
  BY <1>0, <1>2 DEF JitterUpper
<1> QED
  BY <1>1, <1>2

\* Whatever the policy, the retry and the answer, the wait is positive and
\* never longer than the cap the pipeline promises.
THEOREM DelayBounds ==
    ASSUME NEW p \in Policy, p.min <= p.max, NEW i \in Nat \ {0},
           NEW status \in Nat,
           NEW ra \in [form : {"none", "secs", "date"}, n : Int],
           NEW left \in Int,
           NEW d \in retryDelays(p, i, status, ra, left)
    PROVE  d \in 1..retryAfterCap(p)
<1>0. p.min \in 1..MaxDuration /\ p.max \in 1..MaxDuration /\ MaxDuration \in Nat
  BY WordSize DEF Policy
<1>1. retryAfterCap(p) \in Nat /\ retryAfterCap(p) >= p.max
  BY <1>0, UnitAssumption DEF retryAfterCap
<1>2. RetryAfterDelay(ra, left) \in 0..MaxDuration
  BY RetryAfterFits
<1>3. CASE status = 429 /\ RetryAfterDelay(ra, left) > 0
  <2>1. d = Least(RetryAfterDelay(ra, left), retryAfterCap(p))
    BY <1>3 DEF retryDelays
  <2> QED
    BY <1>0, <1>1, <1>2, <1>3, <2>1 DEF Least
<1>4. CASE ~(status = 429 /\ RetryAfterDelay(ra, left) > 0)
  <2>1. d \in Jittered(p, i)
    BY <1>4 DEF retryDelays
  <2>2. JitterUpper(p, i) \in p.min..p.max
    BY CeilingFits
  <2> QED
    BY <1>0, <1>1, <2>1, <2>2 DEF Jittered
<1> QED
  BY <1>3, <1>4

-----------------------------------------------------------------------------
(* What WaitBounded and CeilingNeverFalls of MCBackoff say, for every       *)
(* policy and width.                                                        *)

\* The doubling test finds the smaller of MaxBackoff and MinBackoff * 2^i without
\* computing a product that might not fit.
LEMMA CeilingIsExact ==
    ASSUME NEW p \in Policy, p.min <= p.max, NEW i \in 1..(WordBits + 1)
    PROVE  /\ p.min * 2^i \in Nat
           /\ JitterUpper(p, i) <= p.min * 2^i
           /\ p.min * 2^i <= p.max => JitterUpper(p, i) = p.min * 2^i
<1>0. /\ p.min \in 1..MaxDuration /\ p.max \in 1..MaxDuration /\ MaxDuration \in Nat
      /\ WordBits \in Nat \ {0} /\ 2^i \in Nat \ {0}
  <2>1. 2^WordBits \in Nat \ {0} /\ 2^(WordBits + 1) = 2 * 2^WordBits
    BY WordAssumption, PowerAssumption
  <2>2. i \in 0..WordBits \/ i = WordBits + 1
    BY WordAssumption
  <2> QED
    BY <2>1, <2>2, WordSize, WordAssumption, PowerAssumption DEF Policy
<1>1. \A x, y \in Nat, q \in Nat \ {0} : x * q \in Nat /\ (x <= y \div q <=> x * q <= y)
  BY SMTT(30)
<1>2. p.min * 2^i \in Nat /\ (p.min <= ShiftRight(p.max, i) <=> p.min * 2^i <= p.max)
  BY <1>0, <1>1 DEF ShiftRight
<1>3. CASE i < WordBits - 1
  <2>1. CASE p.min * 2^i <= p.max
    <3>1. Wrap(p.min * 2^i) = p.min * 2^i
      BY <1>0, <1>2, <2>1, WrapFits
    <3> QED
      BY <1>0, <1>2, <1>3, <2>1, <3>1 DEF JitterUpper
  <2>2. CASE ~(p.min * 2^i <= p.max)
    BY <1>0, <1>2, <1>3, <2>2 DEF JitterUpper
  <2> QED
    BY <2>1, <2>2
<1>4. CASE ~(i < WordBits - 1)
  <2>1. JitterUpper(p, i) = p.max
    BY <1>4 DEF JitterUpper
  <2>2. MaxDuration < 2^i
    <3>1. i = WordBits - 1 \/ i = WordBits \/ i = WordBits + 1
      BY <1>0, <1>4
    <3>2. /\ 2^(WordBits - 1) \in Nat \ {0} /\ 2^WordBits = 2 * (MaxDuration + 1)
          /\ 2^(WordBits + 1) = 2 * 2^WordBits
      BY <1>0, WordSize, PowerAssumption
    <3>3. CASE i = WordBits - 1
      BY <3>2, <3>3 DEF MaxDuration
    <3>4. CASE i = WordBits
      BY <1>0, <3>2, <3>4
    <3>5. CASE i = WordBits + 1
      BY <1>0, <3>2, <3>5
    <3> QED
      BY <3>1, <3>3, <3>4, <3>5
  <2>3. \A x, q \in Nat \ {0} : q <= x * q
    BY SMTT(20)
  <2>4. 2^i <= p.min * 2^i
    BY <1>0, <2>3
  <2> QED
    BY <1>0, <1>2, <2>1, <2>2, <2>4
<1> QED
  BY <1>3, <1>4

\* Without advice the wait lies in the interval that retryDelay documents,
\* [MinBackoff, min(MaxBackoff, MinBackoff * 2^i)), in exact arithmetic; it is
\* MinBackoff itself where that interval is empty.
THEOREM DelayInterval ==
    ASSUME NEW p \in Policy, p.min <= p.max, NEW i \in 1..(WordBits + 1),
           NEW status, NEW ra, NEW left,
           status # 429 \/ RetryAfterDelay(ra, left) = 0,
           NEW d \in retryDelays(p, i, status, ra, left)
    PROVE  d >= p.min /\ (d > p.min => d < p.max /\ d < p.min * 2^i)
<1>0. /\ p.min \in 1..MaxDuration /\ p.max \in 1..MaxDuration /\ MaxDuration \in Nat
      /\ i \in Nat \ {0}
  BY WordSize, WordAssumption DEF Policy
<1>1. d \in Jittered(p, i)
  BY DEF retryDelays
<1>2. JitterUpper(p, i) \in p.min..p.max
  BY <1>0, CeilingFits
<1>3. p.min * 2^i \in Nat /\ JitterUpper(p, i) <= p.min * 2^i
  BY CeilingIsExact
<1>4. CASE JitterUpper(p, i) <= p.min
  BY <1>0, <1>1, <1>4 DEF Jittered
<1>5. CASE ~(JitterUpper(p, i) <= p.min)
  BY <1>0, <1>1, <1>2, <1>3, <1>5 DEF Jittered
<1> QED
  BY <1>4, <1>5

\* From one retry to the next the ceiling of the jitter never comes down: the
\* shift never wraps.
THEOREM CeilingGrows ==
    ASSUME NEW p \in Policy, p.min <= p.max, NEW i \in Nat \ {0}
    PROVE  JitterUpper(p, i + 1) >= JitterUpper(p, i)
<1>0. p.min \in 1..MaxDuration /\ p.max \in 1..MaxDuration /\ WordBits \in Nat \ {0}
  BY WordAssumption DEF Policy
<1>1. MaxDuration \in Nat
  BY WordSize
<1>2. JitterUpper(p, i) \in p.min..p.max
  BY CeilingFits
<1>3. CASE i + 1 < WordBits - 1 /\ p.min * 2^(i + 1) <= p.max
  <2>1. i \in 1..(WordBits + 1) /\ i + 1 \in 1..(WordBits + 1) /\ i \in 0..WordBits
    BY <1>0, <1>3
  <2>2. 2^i \in Nat \ {0} /\ 2^(i + 1) = 2 * 2^i
    BY <2>1, PowerAssumption
  <2>3. p.min * 2^i <= p.min * 2^(i + 1)
    <3>1. \A x \in Nat, q \in Nat : x * q <= x * (2 * q)
      BY SMTT(20)
    <3> QED
      BY <1>0, <1>1, <2>2, <3>1
  <2>4. JitterUpper(p, i + 1) = p.min * 2^(i + 1) /\ p.min * 2^(i + 1) \in Nat
    BY <1>3, <2>1, CeilingIsExact
  <2>5. JitterUpper(p, i) <= p.min * 2^i /\ p.min * 2^i \in Nat
    BY <2>1, CeilingIsExact
  <2> QED
    BY <1>0, <1>1, <1>2, <2>3, <2>4, <2>5
<1>4. CASE ~(i + 1 < WordBits - 1 /\ p.min * 2^(i + 1) <= p.max)
  <2>1. JitterUpper(p, i + 1) = p.max
    <3>1. CASE ~(i + 1 < WordBits - 1)
      BY <3>1 DEF JitterUpper
    <3>2. CASE i + 1 < WordBits - 1
      <4>1. i + 1 \in 0..WordBits
        BY <1>0, <3>2
      <4>2. 2^(i + 1) \in Nat \ {0}
        BY <4>1, PowerAssumption
      <4>3. ~(p.min * 2^(i + 1) <= p.max)
        BY <1>4, <3>2
      <4>4. ~(p.min <= ShiftRight(p.max, i + 1))
        BY <1>0, <1>1, <4>2, <4>3, QuotientTimes DEF ShiftRight
      <4> QED
        BY <4>4 DEF JitterUpper
    <3> QED
      BY <3>1, <3>2
  <2> QED
    BY <1>0, <1>1, <1>2, <2>1
<1> QED
  BY <1>3, <1>4

-----------------------------------------------------------------------------
(* The waits of a whole call.  The invariants are inductive as they stand,  *)
(* once the retry is known to be counted.                                   *)

WaitInvariant == retry \in 0..MaxRetry /\ WaitBounded /\ AdviceHonoured

\* What the option lets through is a policy the arithmetic was written for, as
\* are the defaults that a refused one leaves.
LEMMA PolicyInForce ==
    ASSUME NEW a \in {-1, 0, 2}, NEW lo \in Durations, NEW hi \in Durations,
           NEW p, p = WithRetryPolicy([attempts |-> a, min |-> lo, max |-> hi], Default)
    PROVE  p \in Policy /\ p.min <= p.max
<1>1. /\ lo \in Int /\ lo <= MaxDuration /\ hi \in Int /\ hi <= MaxDuration
      /\ MaxDuration \in Nat /\ MaxDuration >= 40
  BY TriedAssumption, WordSize DEF Default
<1>2. Default \in Policy /\ Default.min <= Default.max
  BY <1>1 DEF Default, Policy
<1>3. PICK given : given = [attempts |-> a, min |-> lo, max |-> hi]
  OBVIOUS
<1>4. PICK r : r = Resolve(given, Default)
  OBVIOUS
<1>5. /\ r = [attempts |-> r.attempts, min |-> r.min, max |-> r.max]
      /\ r.attempts \in {-1, 2, 3}
      /\ r.min \in Int /\ r.min <= MaxDuration /\ r.max \in Int /\ r.max <= MaxDuration
  BY <1>1, <1>3, <1>4 DEF Resolve, OrDefault, Default
<1>6. Accepted(r) => r \in Policy /\ r.min <= r.max
  BY <1>1, <1>5 DEF Accepted, Policy
<1>7. p = IF Accepted(r) THEN r ELSE Default
  BY <1>3, <1>4 DEF WithRetryPolicy
<1> QED
  BY <1>2, <1>6, <1>7

\* A header the pipeline sleeps through is waited out, or there is no longer
\* wait; one that asks for nothing, or for a number of seconds that no int holds,
\* leaves the wait to the jitter.
LEMMA AdviceWaited ==
    ASSUME NEW p \in Policy, NEW i, NEW ra \in [form : {"none", "secs", "date"}, n : Int],
           WillPark(p, ra, ra.n), NEW d \in retryDelays(p, i, 429, ra, ra.n)
    PROVE  /\ Advised(ra) = 0 => RetryAfterDelay(ra, ra.n) = 0
           /\ Advised(ra) > 0 => d >= Advised(ra) \/ (d = MaxDuration /\ p.max = MaxDuration)
           /\ Advised(ra) \in Nat
<1>0. /\ p.max \in 1..MaxDuration /\ MaxDuration \in Nat /\ Second \in Nat \ {0}
      /\ Minute \in 1..(MaxDuration - 1)
  BY WordSize, UnitAssumption DEF Policy
<1>1. RetryAfterDelay(ra, ra.n) \in 0..MaxDuration /\ RetryAfterDelay(ra, ra.n) <= retryAfterCap(p)
  BY RetryAfterFits DEF WillPark
<1>2. RetryAfterDelay(ra, ra.n) > 0 => d = RetryAfterDelay(ra, ra.n)
  BY <1>0, <1>1 DEF retryDelays, Least, retryAfterCap
<1>3. RetryAfterDelay(ra, ra.n) = MaxDuration => p.max = MaxDuration
  BY <1>0, <1>1 DEF retryAfterCap
<1>4. CASE ~ReadAsSeconds(ra) /\ ~(ra.form = "date" /\ ra.n > 0)
  BY <1>4 DEF Advised, RetryAfterDelay
<1>5. CASE ReadAsSeconds(ra)
  <2>1. CASE ra.n <= MaxDuration \div Second
    <3>1. ra.n * Second \in 0..MaxDuration
      <4>1. ra.n \in Nat
        BY <1>0, <1>5 DEF ReadAsSeconds
      <4> QED
        BY <1>0, <2>1, <4>1, QuotientTimes
    <3>2. RetryAfterDelay(ra, ra.n) = ra.n * Second
      <4>1. MaxDuration \div Second \in Int
        BY <1>0
      <4> QED
        BY <1>5, <2>1, <3>1, <4>1, WrapFits DEF RetryAfterDelay
    <3>3. Advised(ra) = ra.n * Second
      BY <1>5 DEF Advised
    <3> QED
      BY <1>0, <1>2, <3>1, <3>2, <3>3
  <2>2. CASE ~(ra.n <= MaxDuration \div Second)
    <3>1. RetryAfterDelay(ra, ra.n) = MaxDuration
      <4>1. MaxDuration \div Second \in Int
        BY <1>0
      <4> QED
        BY <1>5, <2>2, <4>1 DEF RetryAfterDelay
    <3>2. ra.n > 0 /\ Advised(ra) = ra.n * Second
      <4>1. MaxDuration \div Second \in Nat
        BY <1>0
      <4> QED
        BY <1>5, <2>2, <4>1 DEF Advised, ReadAsSeconds
    <3>3. ra.n * Second \in Nat \ {0}
      BY <1>0, <3>2
    <3> QED
      BY <1>0, <1>2, <1>3, <3>1, <3>2, <3>3
  <2> QED
    BY <2>1, <2>2
<1>6. CASE ra.form = "date" /\ ra.n > 0
  <2>1. RetryAfterDelay(ra, ra.n) = Least(ra.n, MaxDuration)
    BY <1>6 DEF RetryAfterDelay, ReadAsSeconds
  <2>2. Advised(ra) = ra.n
    BY <1>6 DEF Advised, ReadAsSeconds
  <2> QED
    BY <1>0, <1>2, <1>3, <1>6, <2>1, <2>2 DEF Least
<1> QED
  BY <1>4, <1>5, <1>6

LEMMA WaitInit == WaitsInit => WaitInvariant
<1> SUFFICES ASSUME WaitsInit PROVE WaitInvariant
  OBVIOUS
<1>1. policy \in Policy /\ policy.min <= policy.max
  BY PolicyInForce DEF WaitsInit
<1>2. 0 \in 0..MaxRetry
  BY TriedAssumption, WordAssumption
<1> QED
  BY <1>1, <1>2 DEF WaitsInit, WaitInvariant, WaitBounded, AdviceHonoured

\* A wait, whatever it follows, keeps to the bounds and to the advice.
LEMMA WaitStep == WaitInvariant /\ [WaitsNext]_waitVars => WaitInvariant'
<1> SUFFICES ASSUME WaitInvariant, [WaitsNext]_waitVars PROVE WaitInvariant'
  OBVIOUS
<1>1. policy \in Policy /\ policy.min <= policy.max /\ retry \in 0..MaxRetry /\ MaxRetry \in 0..(WordBits + 1)
  BY TriedAssumption DEF WaitInvariant, WaitBounded
<1>2. ASSUME NEW status \in Nat, NEW ra \in [form : {"none", "secs", "date"}, n : Int],
             retry < MaxRetry, Wait(status, ra), status = 429 => WillPark(policy, ra, ra.n)
      PROVE  WaitInvariant'
  <2>1. PICK i : i = retry + 1
    OBVIOUS
  <2>2. PICK p : p = policy
    OBVIOUS
  <2>3. /\ p \in Policy /\ p.min <= p.max /\ i \in Nat \ {0} /\ i \in 1..(WordBits + 1)
        /\ i \in 0..MaxRetry
    BY <1>1, <1>2, <2>1, <2>2, WordAssumption
  <2>4. /\ retry' = i /\ policy' = p /\ wait' \in retryDelays(p, i, status, ra, ra.n)
        /\ asked' = IF status = 429 THEN Advised(ra) ELSE 0
    BY <1>2, <2>1, <2>2 DEF Wait
  <2>5. PICK d : d = wait'
    OBVIOUS
  <2>6. d \in retryDelays(p, i, status, ra, ra.n) /\ ra.n \in Int
    BY <2>4, <2>5
  <2>7. d \in 1..retryAfterCap(p)
    BY <2>3, <2>6, DelayBounds
  <2>8. status = 429 => /\ Advised(ra) = 0 => RetryAfterDelay(ra, ra.n) = 0
                        /\ Advised(ra) > 0 => d >= Advised(ra) \/ (d = MaxDuration /\ p.max = MaxDuration)
    <3> SUFFICES ASSUME status = 429
                 PROVE  /\ Advised(ra) = 0 => RetryAfterDelay(ra, ra.n) = 0
                        /\ Advised(ra) > 0 => d >= Advised(ra) \/ (d = MaxDuration /\ p.max = MaxDuration)
      OBVIOUS
    <3>1. WillPark(p, ra, ra.n) /\ d \in retryDelays(p, i, 429, ra, ra.n)
      BY <1>2, <2>2, <2>6
    <3> QED
      BY <2>3, <3>1, AdviceWaited
  <2>9. asked' = 0 => d >= p.min /\ (d > p.min => d < p.max /\ d < p.min * 2^i)
    <3> SUFFICES ASSUME asked' = 0 PROVE d >= p.min /\ (d > p.min => d < p.max /\ d < p.min * 2^i)
      OBVIOUS
    <3>1. status = 429 => RetryAfterDelay(ra, ra.n) = 0
      BY <2>4, <2>8
    <3> QED
      BY <2>3, <2>6, <3>1, DelayInterval
  <2>10. WaitBounded'
    BY <2>3, <2>4, <2>5, <2>7, <2>9 DEF WaitBounded
  <2>11. AdviceHonoured'
    BY <2>4, <2>5, <2>8 DEF AdviceHonoured
  <2> QED
    BY <2>3, <2>4, <2>10, <2>11 DEF WaitInvariant
<1>3. CASE WaitAfter429
  <2>1. PICK ra \in TriedRetryAfters : WillPark(policy, ra, ra.n) /\ Wait(429, ra)
    BY <1>3 DEF WaitAfter429
  <2>2. ra \in [form : {"none", "secs", "date"}, n : Int]
    <3>1. CASE ra = NoHeader
      BY <3>1 DEF NoHeader
    <3>2. CASE ra \in [form : {"secs", "date"}, n : Headers]
      <4>1. ra.form \in {"secs", "date"} /\ ra.n \in Int /\ ra = [form |-> ra.form, n |-> ra.n]
        BY <3>2, TriedAssumption
      <4> QED
        BY <4>1
    <3> QED
      BY <2>1, <3>1, <3>2 DEF TriedRetryAfters
  <2> QED
    BY <1>2, <1>3, <2>1, <2>2 DEF WaitAfter429
<1>4. CASE WaitAfterFailure
  <2>1. NoHeader \in [form : {"none", "secs", "date"}, n : Int]
    BY DEF NoHeader
  <2>2. PICK five : five = [form |-> "secs", n |-> 5]
    OBVIOUS
  <2>3. five \in [form : {"none", "secs", "date"}, n : Int]
    BY <2>2
  <2> QED
    BY <1>2, <1>4, <2>1, <2>2, <2>3 DEF WaitAfterFailure
<1>5. CASE UNCHANGED waitVars
  BY <1>5 DEF waitVars, WaitInvariant, WaitBounded, AdviceHonoured
<1> QED
  BY <1>3, <1>4, <1>5 DEF WaitsNext

LEMMA WaitsCorrect == WaitsSpec => []WaitInvariant
  BY WaitInit, WaitStep, PTL DEF WaitsSpec

\* Whatever the word, the policy and the answers, every wait of a call is
\* positive, within the cap, and without advice within the documented interval.
THEOREM BoundedCorrect == WaitsSpec => []WaitBounded
<1>1. WaitInvariant => WaitBounded
  BY DEF WaitInvariant
<1> QED
  BY <1>1, WaitsCorrect, PTL

\* Whatever the word, the policy and the header that parses, a 429 that is slept
\* through is waited out.
THEOREM AdviceHonouredCorrect == WaitsSpec => []AdviceHonoured
<1>1. WaitInvariant => AdviceHonoured
  BY DEF WaitInvariant
<1> QED
  BY <1>1, WaitsCorrect, PTL

\* Along a call the ceiling of the jitter never comes down.
THEOREM NeverFallsCorrect == WaitsSpec => CeilingNeverFalls
<1>1. WaitInvariant /\ [WaitsNext]_waitVars
        => [retry > 0 => JitterUpper(policy, retry') >= JitterUpper(policy, retry)]_waitVars
  <2> SUFFICES ASSUME WaitInvariant, WaitsNext, retry > 0
               PROVE  JitterUpper(policy, retry') >= JitterUpper(policy, retry)
    OBVIOUS
  <2>1. retry' = retry + 1
    BY DEF WaitsNext, WaitAfter429, WaitAfterFailure, Wait
  <2>2. policy \in Policy /\ policy.min <= policy.max /\ retry \in Nat \ {0}
    BY DEF WaitInvariant, WaitBounded
  <2> QED
    BY <2>1, <2>2, CeilingGrows
<1> QED
  BY <1>1, WaitsCorrect, PTL DEF WaitsSpec, CeilingNeverFalls

-----------------------------------------------------------------------------
(* The pipeline: its constants and its types.                               *)

\* The policy that CoreAssumption lets through is one DelayBounds speaks of, and
\* execute makes at least one attempt.
LEMMA RetryFacts == /\ Retry \in Policy
                    /\ Retry.min <= Retry.max
                    /\ Attempts \in Nat \ {0}
                    /\ MaxRotations \in Nat
  BY CoreAssumption, WordSize DEF Retry, Policy, Attempts

\* A client without retries, and one with a policy of one attempt, makes one.
LEMMA OneAttempt == Disabled \/ MaxAttempts = 1 => Attempts = 1
  BY DEF Attempts

\* Every Retry-After an answer can carry, the absent one included, is a header
\* record that RetryAfterDelay reads.
LEMMA HeaderTypes == RetryAfters \cup {NoHeader} \subseteq
                        [form : {"none", "secs", "date"}, n : Int]
  BY CoreAssumption DEF NoHeader

\* What an attempt hands to classify has a status and a header of the same kinds
\* as an answer, so the waits computed from it are those of DelayBounds.
LEMMA ResultTypes == ASSUME NEW r \in Result
                     PROVE  /\ r.status \in Nat
                            /\ r.ra \in [form : {"none", "secs", "date"}, n : Int]
<1>1. r.status \in Statuses \cup {0} /\ r.ra \in RetryAfters \cup {NoHeader}
  BY DEF Result
<1>2. \A s \in Statuses : s \in Nat
  BY CoreAssumption
<1> QED
  BY <1>1, <1>2, HeaderTypes

\* The exact wait a Retry-After asks for is a natural number, so a clock can count
\* it down to zero.
LEMMA AdvisedIsNat == ASSUME NEW ra \in RetryAfters \cup {NoHeader}
                      PROVE  Advised(ra) \in Nat
<1>1. ra.n \in Int /\ Second \in Nat \ {0}
  BY HeaderTypes, UnitAssumption, WordSize
<1>2. \A x \in Int, y \in Nat \ {0} : x > 0 => x * y \in Nat
  BY SMTT(20)
<1> QED
  BY <1>1, <1>2 DEF Advised, ReadAsSeconds

\* The state before any call is well typed, and its loop not begun.
LEMMA TypeInit == Init => TypeOK /\ LoopInvariant
  BY RetryFacts DEF Init, TypeOK, LoopInvariant, Phases, Failed, Result, NoHeader,
     Outcome, Pending, NoAnswer, Answer

\* No step of a call, of the caller, of the network or of time takes a variable
\* out of its type, the loop past its attempts or a hook out of step with it.
LEMMA TypeStep == TypeOK /\ LoopInvariant /\ [Next]_vars => TypeOK' /\ LoopInvariant'
<1> SUFFICES ASSUME TypeOK, LoopInvariant, [Next]_vars
             PROVE  TypeOK' /\ LoopInvariant'
  OBVIOUS
<1> USE RetryFacts DEF TypeOK, LoopInvariant, client, network, history, Phases
<1>1. ASSUME NEW c \in Calls, Start(c)
      PROVE  TypeOK' /\ LoopInvariant'
  BY <1>1 DEF Start, BeginAttempt
<1>2. ASSUME NEW c \in Calls, LimiterGrants(c)
      PROVE  TypeOK' /\ LoopInvariant'
  BY <1>2 DEF LimiterGrants
<1>3. ASSUME NEW c \in Calls, TokenFetched(c)
      PROVE  TypeOK' /\ LoopInvariant'
  BY <1>3 DEF TokenFetched
<1>4. ASSUME NEW c \in Calls, HookFails(c)
      PROVE  TypeOK' /\ LoopInvariant'
  BY <1>4 DEF HookFails, AttemptReturns, Failed, Result, NoHeader
<1>5. ASSUME NEW c \in Calls, Send(c)
      PROVE  TypeOK' /\ LoopInvariant'
  BY <1>5 DEF Send, NoAnswer, Answer
<1>6. ASSUME NEW c \in Calls, Receive(c)
      PROVE  TypeOK' /\ LoopInvariant'
  BY <1>6 DEF Receive, AttemptReturns, NoAnswer, Answer, Result
<1>7. ASSUME NEW c \in Calls, SendFails(c)
      PROVE  TypeOK' /\ LoopInvariant'
  BY <1>7 DEF SendFails, AttemptReturns, Failed, Result, NoHeader, NoAnswer, Answer
<1>8. ASSUME NEW c \in Calls, Finish(c)
      PROVE  TypeOK' /\ LoopInvariant'
  <2>1. \E kind \in {"ok", "decode", "api", "send", "hook"}, s \in Statuses \cup {0} :
            pc[c] = "classify" /\ Return(c, kind, s)
    BY <1>8 DEF Finish, ReturnLast, Result
  <2> QED
    BY <2>1 DEF Return, Outcome
<1>9. ASSUME NEW c \in Calls, PrepareRetry(c)
      PROVE  TypeOK' /\ LoopInvariant'
  BY <1>9 DEF PrepareRetry, Retries, Aborts
<1>10. ASSUME NEW c \in Calls, SetTimer(c)
       PROVE  TypeOK' /\ LoopInvariant'
  <2>1. PICK d \in retryDelays(Retry, att[c], last[c].status, last[c].ra, advice[c]) :
            timer' = [timer EXCEPT ![c] = d]
    BY <1>10 DEF SetTimer
  <2>2. att[c] \in Nat \ {0} /\ advice[c] \in Nat
    BY <1>10 DEF SetTimer
  <2>3. last[c] \in Result
    OBVIOUS
  <2>4. /\ last[c].status \in Nat
        /\ last[c].ra \in [form : {"none", "secs", "date"}, n : Int]
    BY <2>3, ResultTypes
  <2>6. d \in 1..retryAfterCap(Retry)
    BY <2>1, <2>2, <2>4, DelayBounds
  <2>7. d \in Nat
    BY <2>6, UnitAssumption, WordSize DEF retryAfterCap, Policy
  <2> QED
    BY <1>10, <2>1, <2>7 DEF SetTimer
<1>11. ASSUME NEW c \in Calls, Wake(c)
       PROVE  TypeOK' /\ LoopInvariant'
  BY <1>11 DEF Wake, BeginAttempt
<1>12. ASSUME NEW c \in Calls, CancelSleep(c)
       PROVE  TypeOK' /\ LoopInvariant'
  BY <1>12 DEF CancelSleep, Return, Outcome
<1>13. ASSUME NEW c \in Calls, EndContext(c)
       PROVE  TypeOK' /\ LoopInvariant'
  BY <1>13 DEF EndContext
<1>14. ASSUME NEW c \in Calls, NEW a \in 1..Attempts, Lose(c, a)
       PROVE  TypeOK' /\ LoopInvariant'
  BY <1>14 DEF Lose
<1>15. ASSUME NEW c \in Calls, NEW a \in 1..Attempts, NEW s \in Statuses,
              NEW ra \in RetryAfters \cup {NoHeader}, NEW e \in BOOLEAN,
              Serve(c, a, s, ra, e)
       PROVE  TypeOK' /\ LoopInvariant'
  <2>1. Advised(ra) \in Nat
    BY AdvisedIsNat
  <2>2. [status |-> s, ra |-> ra] \in Answer
    BY DEF Answer
  <2> QED
    BY <1>15, <2>1, <2>2 DEF Serve
<1>16. ASSUME Rotate
       PROVE  TypeOK' /\ LoopInvariant'
  BY <1>16 DEF Rotate
<1>17. ASSUME Tick
       PROVE  TypeOK' /\ LoopInvariant'
  BY <1>17 DEF Tick, Countdown
<1>18. ASSUME UNCHANGED vars
       PROVE  TypeOK' /\ LoopInvariant'
  BY <1>18 DEF vars
<1> HIDE DEF TypeOK, LoopInvariant, client, network, history
<1>19. ASSUME NEW c \in Calls, Step(c)
       PROVE  TypeOK' /\ LoopInvariant'
  BY <1>2, <1>3, <1>4, <1>5, <1>6, <1>7, <1>8, <1>9, <1>10, <1>11, <1>12, <1>19
     DEF Step
<1>20. CASE Environment
  BY <1>13, <1>14, <1>15, <1>16, <1>17, <1>20 DEF Environment
<1> QED
  BY <1>1, <1>18, <1>19, <1>20 DEF Next

\* Every variable keeps its type, and the loop its bounds, in every behaviour.
THEOREM TypeCorrect == Spec => [](TypeOK /\ LoopInvariant)
<1>1. Init => TypeOK /\ LoopInvariant
  BY TypeInit
<1>2. TypeOK /\ LoopInvariant /\ [Next]_vars => TypeOK' /\ LoopInvariant'
  BY TypeStep
<1> QED
  BY <1>1, <1>2, PTL DEF Spec

-----------------------------------------------------------------------------
(* The effects of a call.                                                   *)

\* A status says that a request was carried out or that it was refused, never
\* both; no status (0) says neither; Do takes for data what was carried out.
LEMMA Classes == \A s : ~(CarriedOut(s) /\ Refusal(s))
                     /\ ~CarriedOut(0) /\ ~Refusal(0)
                     /\ (Success(s) <=> CarriedOut(s))
  BY DEF CarriedOut, Refusal, Success

\* Before any call nothing is in the network and nothing has been carried out.
LEMMA EffectsInit == Init => EffectsTracked
  BY Classes DEF Init, EffectsTracked, CallTracked, Failed, Pending, NoAnswer

\* The argument of AtMostOnce, step by step: no step of execute leaves a
\* single-shot call able to send again while an earlier request of it is in the
\* network or has been carried out.
LEMMA EffectsStep ==
    TypeOK /\ LoopInvariant /\ EffectsTracked /\ [Next]_vars => EffectsTracked'
<1> SUFFICES ASSUME TypeOK, LoopInvariant, EffectsTracked, [Next]_vars
             PROVE  EffectsTracked'
  OBVIOUS
<1> USE RetryFacts, Classes DEF TypeOK, EffectsTracked, CallTracked, client, network,
        history, SingleShot
<1>1. ASSUME NEW c \in Calls, Start(c)
      PROVE  EffectsTracked'
  BY <1>1 DEF Start, BeginAttempt, LoopInvariant
<1>2. ASSUME NEW c \in Calls, LimiterGrants(c)
      PROVE  EffectsTracked'
  BY <1>2 DEF LimiterGrants
<1>3. ASSUME NEW c \in Calls, TokenFetched(c)
      PROVE  EffectsTracked'
  BY <1>3 DEF TokenFetched
<1>4. ASSUME NEW c \in Calls, HookFails(c)
      PROVE  EffectsTracked'
  BY <1>4 DEF HookFails, AttemptReturns, Failed
<1>5. ASSUME NEW c \in Calls, Send(c)
      PROVE  EffectsTracked'
  <2> SUFFICES ASSUME NEW d \in Calls
               PROVE  CallTracked(d)'
    BY DEF EffectsTracked
  <2>1. CASE d # c
    BY <1>5, <2>1 DEF Send
  <2>2. CASE d = c
    <3>1. /\ pc'[c] = "await" /\ att'[c] = att[c] /\ out'[c] = Pending
          /\ wire'[c] = wire[c] \cup {att[c]} /\ applied'[c] = applied[c]
          /\ answer'[c] = NoAnswer /\ last'[c] = last[c] /\ method'[c] = method[c]
      BY <1>5 DEF Send
    <3>2. /\ wire[c] \cup applied[c] \subseteq 1..att[c]
          /\ att[c] \notin wire[c] \cup applied[c] /\ att[c] >= 1
          /\ SingleShot(c) => wire[c] \cup applied[c] = {}
      BY <1>5 DEF Send, LoopInvariant
    <3> QED
      BY <2>2, <3>1, <3>2 DEF NoAnswer, Pending
  <2> QED
    BY <2>1, <2>2
<1>6. ASSUME NEW c \in Calls, Receive(c)
      PROVE  EffectsTracked'
  BY <1>6 DEF Receive, AttemptReturns, NoAnswer
<1>7. ASSUME NEW c \in Calls, SendFails(c)
      PROVE  EffectsTracked'
  BY <1>7 DEF SendFails, AttemptReturns, Failed, NoAnswer
<1>8. ASSUME NEW c \in Calls, Finish(c)
      PROVE  EffectsTracked'
  <2>1. ASSUME last[c].err # "nil", Return(c, last[c].err, 0)
        PROVE  EffectsTracked'
    <3>1. last[c].err \in {"hook", "send"}
      BY <2>1 DEF Result
    <3>2. out' = [out EXCEPT ![c] = [kind |-> last[c].err, status |-> 0]] /\ pc[c] = "classify"
      BY <1>8, <2>1 DEF Finish, Return
    <3>3. UNCHANGED <<method, att, last, network>> /\ pc' = [pc EXCEPT ![c] = "done"]
      BY <2>1 DEF Return
    <3> QED
      BY <3>1, <3>2, <3>3
  <2>2. ASSUME NEW kind \in {"ok", "decode"}, last[c].err = "nil",
               Success(last[c].status), Return(c, kind, last[c].status)
        PROVE  EffectsTracked'
    BY <1>8, <2>2 DEF Finish, Return
  <2>3. ASSUME last[c].err = "nil", Return(c, "api", last[c].status)
        PROVE  EffectsTracked'
    BY <1>8, <2>3 DEF Finish, Return
  <2> QED
    BY <1>8, <2>1, <2>2, <2>3 DEF Finish, ReturnLast
<1>9. ASSUME NEW c \in Calls, PrepareRetry(c)
      PROVE  EffectsTracked'
  \* Only a 429 lets a single-shot call go on, and a 429 is a refusal.
  <2>1. SingleShot(c) => Refusal(last[c].status)
    BY <1>9, OneAttempt DEF PrepareRetry, Retries, Aborts, Refusal, LoopInvariant
  <2> SUFFICES ASSUME NEW d \in Calls
               PROVE  CallTracked(d)'
    BY DEF EffectsTracked
  <2>2. CASE d # c
    BY <1>9, <2>2 DEF PrepareRetry
  <2>3. CASE d = c
    <3>1. SingleShot(c) => wire[c] \cup applied[c] = {}
      BY <1>9, <2>1 DEF PrepareRetry
    <3>2. pc'[c] = "delay" /\ UNCHANGED <<att, wire, applied, answer, last, out, method>>
      BY <1>9 DEF PrepareRetry
    <3>3. answer[c] = NoAnswer /\ out[c] = Pending
      BY <1>9 DEF PrepareRetry
    <3> QED
      BY <2>3, <3>1, <3>2, <3>3 DEF NoAnswer, Pending
  <2> QED
    BY <2>2, <2>3
<1>10. ASSUME NEW c \in Calls, SetTimer(c)
       PROVE  EffectsTracked'
  BY <1>10 DEF SetTimer
<1>11. ASSUME NEW c \in Calls, Wake(c)
       PROVE  EffectsTracked'
  <2> SUFFICES ASSUME NEW d \in Calls
               PROVE  CallTracked(d)'
    BY DEF EffectsTracked
  <2>1. CASE d # c
    BY <1>11, <2>1 DEF Wake, BeginAttempt
  <2>2. CASE d = c
    <3>1. /\ pc'[c] = "limiter" /\ att'[c] = att[c] + 1
          /\ UNCHANGED <<wire, applied, answer, last, out, method>>
      BY <1>11 DEF Wake, BeginAttempt
    <3>2. /\ answer[c] = NoAnswer /\ out[c] = Pending /\ att[c] \in Nat
          /\ SingleShot(c) => wire[c] \cup applied[c] = {}
      BY <1>11 DEF Wake
    <3>3. /\ wire[c] \cup applied[c] \subseteq 1..(att[c] + 1)
          /\ att[c] + 1 \notin wire[c] \cup applied[c]
      <4>1. wire[c] \cup applied[c] \subseteq 1..att[c]
        OBVIOUS
      <4>2. 1..att[c] \subseteq 1..(att[c] + 1) /\ att[c] + 1 \notin 1..att[c]
        BY <3>2
      <4> QED
        BY <4>1, <4>2
    <3> QED
      BY <2>2, <3>1, <3>2, <3>3 DEF NoAnswer, Pending
  <2> QED
    BY <2>1, <2>2
<1>12. ASSUME NEW c \in Calls, CancelSleep(c)
       PROVE  EffectsTracked'
  BY <1>12 DEF CancelSleep, Return
<1>13. ASSUME NEW c \in Calls, EndContext(c)
       PROVE  EffectsTracked'
  BY <1>13 DEF EndContext
<1>14. ASSUME NEW c \in Calls, NEW a \in 1..Attempts, Lose(c, a)
       PROVE  EffectsTracked'
  BY <1>14 DEF Lose
<1>15. ASSUME NEW c \in Calls, NEW a \in 1..Attempts, NEW s \in Statuses,
              NEW ra \in RetryAfters \cup {NoHeader}, NEW e \in BOOLEAN,
              Serve(c, a, s, ra, e)
       PROVE  EffectsTracked'
  <2>1. CASE pc[c] = "await" /\ a = att[c]
    BY <1>15, <2>1 DEF Serve
  <2>2. CASE ~(pc[c] = "await" /\ a = att[c])
    BY <1>15, <2>2 DEF Serve
  <2> QED
    BY <2>1, <2>2
<1>16. ASSUME Rotate
       PROVE  EffectsTracked'
  BY <1>16 DEF Rotate
<1>17. ASSUME Tick
       PROVE  EffectsTracked'
  BY <1>17 DEF Tick
<1>18. ASSUME UNCHANGED vars
       PROVE  EffectsTracked'
  BY <1>18 DEF vars
<1> HIDE DEF TypeOK, EffectsTracked, CallTracked, client, network, history, SingleShot
<1>19. ASSUME NEW c \in Calls, Step(c)
       PROVE  EffectsTracked'
  BY <1>2, <1>3, <1>4, <1>5, <1>6, <1>7, <1>8, <1>9, <1>10, <1>11, <1>12, <1>19
     DEF Step
<1>20. CASE Environment
  BY <1>13, <1>14, <1>15, <1>16, <1>17, <1>20 DEF Environment
<1> QED
  BY <1>1, <1>18, <1>19, <1>20 DEF Next

\* In every behaviour a request of a call is in the network or carried out, not
\* both, and a single-shot call that may still send has neither: what classify's
\* "a timed-out write may have applied" has to guarantee.
THEOREM EffectsCorrect == Spec => []EffectsTracked
<1>1. Init => EffectsTracked
  BY EffectsInit
<1>2. TypeOK /\ LoopInvariant /\ EffectsTracked /\ [Next]_vars => EffectsTracked'
  BY EffectsStep
<1> QED
  BY <1>1, <1>2, TypeCorrect, PTL DEF Spec

\* A write the policy does not retry blindly is carried out at most once: every
\* request of it, in the network or carried out, is the last attempt's.
THEOREM AtMostOnceCorrect == Spec => []AtMostOnce
<1>1. EffectsTracked => AtMostOnce
  BY DEF EffectsTracked, CallTracked, AtMostOnce
<1> QED
  BY <1>1, EffectsCorrect, PTL

\* A refused write was not carried out and never will be.
THEOREM RefusedCorrect == Spec => []RefusedNeverApplies
<1>1. EffectsTracked => RefusedNeverApplies
  BY DEF EffectsTracked, CallTracked, RefusedNeverApplies
<1> QED
  BY <1>1, EffectsCorrect, PTL

\* Success is reported of an attempt the server carried out.
THEOREM SuccessCorrect == Spec => []SuccessIsReal
<1>1. EffectsTracked => SuccessIsReal
  BY DEF EffectsTracked, CallTracked, SuccessIsReal
<1> QED
  BY <1>1, EffectsCorrect, PTL

\* Every request on the wire passed the limiter and the token source for its own
\* attempt.
THEOREM HooksCorrect == Spec => []HooksPerAttempt
<1>1. LoopInvariant => HooksPerAttempt
  BY DEF LoopInvariant, HooksPerAttempt
<1> QED
  BY <1>1, TypeCorrect, PTL

-----------------------------------------------------------------------------
(* The pipeline implements CallContract: starting opens a call, returning   *)
(* closes it, the server's carrying it out is the effect; every other step  *)
(* is hidden.                                                               *)

\* The state before any call is one in which the contract's caller has asked for
\* nothing.
LEMMA ContractInit == Init => Contract!Init
  BY DEF Init, Contract!Init, Verdict, SingleShot, retryVerb

\* A step that leaves verbs, verdicts and effects alone is a stutter.
LEMMA ContractStutter ==
    ASSUME UNCHANGED method, UNCHANGED applied,
           \A c \in Calls : Verdict(c)' = Verdict(c)
    PROVE  UNCHANGED Contract!vars
  BY DEF Contract!vars, SingleShot

\* A step of one call's verdict is a step of the contract's phase.
LEMMA ContractPhase ==
    ASSUME NEW c \in Calls, NEW v,
           \A d \in Calls : Verdict(d)' = IF d = c THEN v ELSE Verdict(d)
    PROVE  [d \in Calls |-> Verdict(d)]'
                = [[d \in Calls |-> Verdict(d)] EXCEPT ![c] = v]
  OBVIOUS

\* A call that returns closes, with a verdict its effects justify.
LEMMA ContractReturn ==
    ASSUME TypeOK, EffectsTracked, EffectsTracked', NEW c \in Calls,
           NEW kind, NEW s, Return(c, kind, s), pc[c] \notin {"idle", "done"}
    PROVE  Contract!Next
<1> DEFINE v == OutcomeVerdict([kind |-> kind, status |-> s])
<1>1. v \in Contract!Verdicts
  BY DEF OutcomeVerdict, Contract!Verdicts
<1>2. /\ pc'[c] = "done" /\ out'[c] = [kind |-> kind, status |-> s]
      /\ \A d \in Calls : d # c => pc'[d] = pc[d] /\ out'[d] = out[d]
      /\ UNCHANGED <<method, applied>>
  BY DEF Return, TypeOK, network
<1>3. \A d \in Calls : Verdict(d)' = IF d = c THEN v ELSE Verdict(d)
  BY <1>2 DEF Verdict
<1>4. Verdict(c) = "open"
  BY DEF Verdict
<1>5. v = "succeeded" => applied[c] # {}
  BY <1>2 DEF OutcomeVerdict, EffectsTracked, CallTracked
<1>6. v = "refused" /\ SingleShot(c) => applied[c] = {}
  <2>1. v = "refused" => kind = "api" /\ Refusal(s)
    BY DEF OutcomeVerdict
  <2>2. SingleShot(c)' <=> SingleShot(c)
    BY <1>2 DEF SingleShot
  <2> QED
    BY <1>2, <2>1, <2>2 DEF EffectsTracked, CallTracked
<1>7. [d \in Calls |-> Verdict(d)]' = [[d \in Calls |-> Verdict(d)] EXCEPT ![c] = v]
  BY <1>3, ContractPhase
<1>8. UNCHANGED [d \in Calls |-> SingleShot(d)]
  BY <1>2 DEF SingleShot
<1> HIDE DEF v
<1>9. Contract!Close(c, v)
  BY <1>2, <1>4, <1>5, <1>6, <1>7, <1>8 DEF Contract!Close
<1> QED
  BY <1>1, <1>9 DEF Contract!Next

\* Every step of the pipeline and of its surroundings is a step of the contract
\* or hidden from it.
LEMMA ContractStep ==
    TypeOK /\ LoopInvariant /\ EffectsTracked /\ EffectsTracked' /\ [Next]_vars
        => [Contract!Next]_(Contract!vars)
<1> SUFFICES ASSUME TypeOK, LoopInvariant, EffectsTracked, EffectsTracked', [Next]_vars
             PROVE  Contract!Next \/ UNCHANGED Contract!vars
  BY DEF Contract!vars
<1> USE DEF client, network, history
<1>1. ASSUME NEW c \in Calls, Start(c)
      PROVE  Contract!Next
  <2>1. /\ pc[c] = "idle" /\ pc'[c] = "limiter" /\ UNCHANGED <<method, applied, out>>
        /\ \A d \in Calls : d # c => pc'[d] = pc[d]
    BY <1>1 DEF Start, BeginAttempt, TypeOK
  <2>2. \A d \in Calls : Verdict(d)' = IF d = c THEN "open" ELSE Verdict(d)
    BY <2>1 DEF Verdict
  <2>3. Verdict(c) = "idle"
    BY <2>1 DEF Verdict
  <2>4. [d \in Calls |-> Verdict(d)]'
            = [[d \in Calls |-> Verdict(d)] EXCEPT ![c] = "open"]
    BY <2>2, ContractPhase
  <2>5. UNCHANGED [d \in Calls |-> SingleShot(d)]
    BY <2>1 DEF SingleShot
  <2>6. Contract!Open(c)
    BY <2>1, <2>3, <2>4, <2>5 DEF Contract!Open
  <2> QED
    BY <2>6 DEF Contract!Next
<1>2. ASSUME NEW c \in Calls, Step(c), ~Finish(c), ~CancelSleep(c)
      PROVE  UNCHANGED Contract!vars
  <2>1. /\ pc[c] \notin {"idle", "done"} /\ pc'[c] \notin {"idle", "done"}
        /\ UNCHANGED <<method, applied, out>>
        /\ \A d \in Calls : d # c => pc'[d] = pc[d]
    BY <1>2 DEF Step, LimiterGrants, TokenFetched, HookFails, Send, Receive, SendFails,
       PrepareRetry, SetTimer, Wake, BeginAttempt, AttemptReturns, TypeOK
  <2>2. \A d \in Calls : Verdict(d)' = Verdict(d)
    BY <2>1 DEF Verdict
  <2> QED
    BY <2>1, <2>2, ContractStutter
<1>3. ASSUME NEW c \in Calls, Finish(c)
      PROVE  Contract!Next
  <2>1. pc[c] = "classify" /\ \E kind, s : Return(c, kind, s)
    BY <1>3 DEF Finish, ReturnLast
  <2> QED
    BY <2>1, ContractReturn
<1>4. ASSUME NEW c \in Calls, CancelSleep(c)
      PROVE  Contract!Next
  <2>1. pc[c] = "backoff" /\ Return(c, "canceled", 0)
    BY <1>4 DEF CancelSleep
  <2> QED
    BY <2>1, ContractReturn
<1>5. ASSUME NEW c \in Calls, NEW a \in 1..Attempts, NEW s \in Statuses,
             NEW ra \in RetryAfters \cup {NoHeader}, NEW e \in BOOLEAN,
             Serve(c, a, s, ra, e)
      PROVE  Contract!Next \/ UNCHANGED Contract!vars
  <2>1. UNCHANGED <<method, pc, out>> /\ a \in wire[c]
    BY <1>5 DEF Serve
  <2>2. \A d \in Calls : Verdict(d)' = Verdict(d)
    BY <2>1 DEF Verdict
  <2>3. CASE ~e
    BY <1>5, <2>1, <2>2, <2>3, ContractStutter DEF Serve
  <2>4. CASE e
    <3>1. applied' = [applied EXCEPT ![c] = @ \cup {a}]
      BY <1>5, <2>4 DEF Serve
    <3>2. SingleShot(c) => applied[c] = {} /\ Verdict(c) # "refused"
      <4>1. SingleShot(c) => applied[c] = {}
        BY <2>1 DEF EffectsTracked, CallTracked
      <4>2. SingleShot(c) /\ Verdict(c) = "refused" => wire[c] = {}
        BY DEF Verdict, OutcomeVerdict, EffectsTracked, CallTracked
      <4> QED
        BY <2>1, <4>1, <4>2
    <3>3. Verdict(c) # "idle"
      <4>1. a \in 1..att[c]
        BY <2>1 DEF EffectsTracked, CallTracked
      <4>2. att[c] # 0
        BY <4>1
      <4>3. pc[c] # "idle"
        BY <4>2 DEF LoopInvariant
      <4> QED
        BY <4>3 DEF Verdict, OutcomeVerdict
    <3>4. UNCHANGED [d \in Calls |-> SingleShot(d)] /\ UNCHANGED [d \in Calls |-> Verdict(d)]
      BY <2>1, <2>2 DEF SingleShot
    <3>5. Contract!Effect(c, a)
      BY <3>1, <3>2, <3>3, <3>4 DEF Contract!Effect
    <3> QED
      BY <3>5 DEF Contract!Next
  <2> QED
    BY <2>3, <2>4
<1>6. CASE UNCHANGED <<method, pc, out, applied>>
  <2>1. \A d \in Calls : Verdict(d)' = Verdict(d)
    BY <1>6 DEF Verdict
  <2> QED
    BY <1>6, <2>1, ContractStutter
<1>7. CASE Environment
  <2>1. ASSUME ~(\E c \in Calls, a \in 1..Attempts, s \in Statuses,
                    ra \in RetryAfters \cup {NoHeader}, e \in BOOLEAN :
                        Serve(c, a, s, ra, e))
        PROVE  UNCHANGED <<method, pc, out, applied>>
    BY <1>7, <2>1 DEF Environment, EndContext, Lose, Rotate, Tick
  <2> QED
    BY <1>5, <1>6, <2>1
<1>8. CASE UNCHANGED vars
  BY <1>6, <1>8 DEF vars
<1> QED
  BY <1>1, <1>2, <1>3, <1>4, <1>7, <1>8 DEF Next

\* The pipeline, with its attempts, hooks, timers and late requests, is an
\* implementation of the contract its callers rely on.
THEOREM PipelineImplementsContract == Spec => ImplementsContract
<1>1. Init => Contract!Init
  BY ContractInit
<1>2. TypeOK /\ LoopInvariant /\ EffectsTracked /\ EffectsTracked' /\ [Next]_vars
        => [Contract!Next]_(Contract!vars)
  BY ContractStep
<1> QED
  BY <1>1, <1>2, TypeCorrect, EffectsCorrect, PTL
     DEF Spec, ImplementsContract, Contract!Spec

-----------------------------------------------------------------------------
(* When the loop goes on and when it stops: the wait after a 429, the end   *)
(* of the caller's context, giving up.  The inductive invariants.           *)

\* What is left of a Retry-After never exceeds what the header says, and while
\* the call sleeps it never exceeds what is left of the timer.
AdviceTracked ==
    \A c \in Calls :
        /\ answer[c].status # 429 => answer[c].ra = NoHeader
        /\ last[c].status # 429 => last[c].ra = NoHeader
        /\ last[c].err # "nil" => last[c].status = 0
        /\ pc[c] \in {"idle", "limiter", "token", "send"} => advice[c] = 0
        /\ pc[c] = "await" => advice[c] <= Advised(answer[c].ra)
        /\ pc[c] \in {"classify", "delay"} => advice[c] <= Advised(last[c].ra)
        /\ pc[c] = "delay" /\ last[c].status = 429 => WillPark(Retry, last[c].ra, advice[c])
        /\ pc[c] = "backoff" => advice[c] <= timer[c]

\* An attempt begun after the caller's context ended puts nothing on the wire,
\* and its failure is the call's.
CancelTracked ==
    \A c \in Calls :
        ctx[c] = "ended" =>
            /\ endedAt[c] <= att[c] /\ att[c] <= endedAt[c] + 1
            /\ att[c] > endedAt[c] =>
                   \/ pc[c] \in {"limiter", "token", "send", "done"}
                   \/ pc[c] = "classify" /\ last[c].err \in {"hook", "send"}

\* A 429 that classify hands to the caller asks for more than the pipeline sleeps.
AdviceTooLong ==
    \A c \in Calls :
        pc[c] = "classify" /\ ~WillPark(Retry, last[c].ra, advice[c])
            => Advised(last[c].ra) > retryAfterCap(Retry)

-----------------------------------------------------------------------------
(* The arithmetic of a Retry-After.                                         *)

\* The quotient in the clamp is the largest number of seconds that fits.
LEMMA BeyondQuotient == ASSUME NEW n \in Nat, NEW x \in Nat, NEW s \in Nat \ {0},
                               n > x \div s
                        PROVE  n * s \in Nat /\ n * s > x
<1>1. x < (x \div s + 1) * s
  BY SMTT(20)
<1>2. x \div s + 1 \in Nat /\ n >= x \div s + 1
  BY SMTT(20)
<1>3. \A a \in Nat, b \in Nat : a >= b => a * s \in Nat /\ a * s >= b * s
  BY SMTT(20)
<1> QED
  BY <1>1, <1>2, <1>3

\* The pipeline's reading of seconds is what the header says, none where no int
\* holds it, unless it is the largest duration there is.
LEMMA DelayOfSeconds ==
    ASSUME NEW ra \in [form : {"none", "secs", "date"}, n : Int], NEW left \in Nat,
           ra.form = "secs"
    PROVE  \/ RetryAfterDelay(ra, left) = Advised(ra)
           \/ RetryAfterDelay(ra, left) = MaxDuration /\ Advised(ra) > MaxDuration
<1>1. Second \in Nat \ {0} /\ MaxDuration \in Nat /\ ra.n \in Int
  BY WordSize, UnitAssumption
<1>2. CASE ~ReadAsSeconds(ra)
  BY <1>2 DEF RetryAfterDelay, Advised
<1>3. CASE ReadAsSeconds(ra) /\ ra.n <= MaxDuration \div Second
  <2>1. ra.n * Second \in 0..MaxDuration
    BY <1>1, <1>3, QuotientTimes DEF ReadAsSeconds
  <2>2. Wrap(ra.n * Second) = ra.n * Second
    BY <2>1, WrapFits
  <2>3. MaxDuration \div Second \in Int
    BY <1>1
  <2> QED
    BY <1>1, <1>3, <2>2, <2>3 DEF RetryAfterDelay, Advised
<1>4. CASE ReadAsSeconds(ra) /\ ra.n > MaxDuration \div Second
  <2>1. ra.n * Second > MaxDuration
    BY <1>1, <1>4, BeyondQuotient DEF ReadAsSeconds
  <2>2. MaxDuration \div Second \in Nat
    BY <1>1
  <2> QED
    BY <1>1, <1>4, <2>1, <2>2 DEF RetryAfterDelay, Advised
<1> QED
  <2>1. MaxDuration \div Second \in Int
    BY <1>1
  <2> QED
    BY <1>1, <1>2, <1>3, <1>4, <2>1

\* A wait that the pipeline will sleep covers what is left of the advice.
LEMMA WaitCovers ==
    ASSUME retryAfterCap(Retry) < MaxDuration,
           NEW i \in Nat \ {0}, NEW status \in Nat,
           NEW ra \in [form : {"none", "secs", "date"}, n : Int], NEW left \in Nat,
           Advised(ra) \in Nat, left <= Advised(ra),
           status # 429 => ra = NoHeader,
           status = 429 => WillPark(Retry, ra, left),
           NEW d \in retryDelays(Retry, i, status, ra, left)
    PROVE  d \in Nat /\ left <= d
<1>1. retryAfterCap(Retry) \in Nat /\ MaxDuration \in Nat
  BY RetryFacts, UnitAssumption, WordSize DEF retryAfterCap, Policy
<1>2. d \in Nat
  BY <1>1, RetryFacts, DelayBounds
<1>3. CASE ra.form = "none"
  BY <1>2, <1>3 DEF Advised, ReadAsSeconds
<1>4. CASE ra.form # "none"
  <2>1. status = 429 /\ RetryAfterDelay(ra, left) <= retryAfterCap(Retry)
    BY <1>4 DEF NoHeader, WillPark
  <2>2. RetryAfterDelay(ra, left) \in Nat
    BY RetryAfterFits, <1>1
  <2>3. left <= RetryAfterDelay(ra, left)
    <3>1. CASE ra.form = "secs"
      BY <1>1, <2>1, <3>1, DelayOfSeconds
    <3>2. CASE ra.form = "date"
      BY <1>1, <2>1, <3>2 DEF RetryAfterDelay, ReadAsSeconds, Least
    <3> QED
      BY <1>4, <3>1, <3>2
  <2>4. CASE RetryAfterDelay(ra, left) > 0
    <3>1. d = Least(RetryAfterDelay(ra, left), retryAfterCap(Retry))
      BY <2>1, <2>4 DEF retryDelays
    <3> QED
      BY <1>1, <1>2, <2>1, <2>2, <2>3, <3>1 DEF Least
  <2>5. CASE ~(RetryAfterDelay(ra, left) > 0)
    BY <1>2, <2>2, <2>3, <2>5
  <2> QED
    BY <2>4, <2>5
<1> QED
  BY <1>3, <1>4

\* A wait that the pipeline will not sleep is one the server asked for.
LEMMA TooLongWasAsked ==
    ASSUME NEW ra \in [form : {"none", "secs", "date"}, n : Int], NEW left \in Nat,
           Advised(ra) \in Nat, left <= Advised(ra), ~WillPark(Retry, ra, left)
    PROVE  Advised(ra) > retryAfterCap(Retry)
<1>1. retryAfterCap(Retry) \in 1..MaxDuration /\ MaxDuration \in Nat
  BY RetryFacts, UnitAssumption, WordSize DEF retryAfterCap, Policy
<1>2. RetryAfterDelay(ra, left) \in Nat /\ RetryAfterDelay(ra, left) > retryAfterCap(Retry)
  BY <1>1, RetryAfterFits DEF WillPark
<1>3. CASE ra.form = "secs"
  BY <1>1, <1>2, <1>3, DelayOfSeconds
<1>4. CASE ra.form = "date"
  BY <1>1, <1>2, <1>4 DEF RetryAfterDelay, ReadAsSeconds, Least
<1>5. CASE ra.form = "none"
  BY <1>1, <1>2, <1>5 DEF RetryAfterDelay, ReadAsSeconds
<1> QED
  BY <1>3, <1>4, <1>5

-----------------------------------------------------------------------------
(* The wait after a 429.                                                    *)

\* Before any call nothing has been advised.
LEMMA AdviceInit == Init => AdviceTracked
  BY DEF Init, AdviceTracked, NoAnswer, Failed

\* The header goes unchanged from the answer to the result and to the timer, and
\* time counts timer and advice down together.
LEMMA AdviceStep ==
    ASSUME retryAfterCap(Retry) < MaxDuration
    PROVE  TypeOK /\ LoopInvariant /\ EffectsTracked /\ AdviceTracked /\ [Next]_vars
               => AdviceTracked'
<1> SUFFICES ASSUME TypeOK, LoopInvariant, EffectsTracked, AdviceTracked, [Next]_vars
             PROVE  AdviceTracked'
  OBVIOUS
<1>0. /\ \A c \in Calls : advice[c] \in Nat /\ timer[c] \in Nat
      /\ Advised(NoHeader) = 0
  BY DEF TypeOK, Advised, ReadAsSeconds, NoHeader
<1> USE DEF TypeOK, AdviceTracked, client, network, history
<1>1. ASSUME NEW c \in Calls, Start(c)
      PROVE  AdviceTracked'
  BY <1>1 DEF Start, BeginAttempt
<1>2. ASSUME NEW c \in Calls, LimiterGrants(c)
      PROVE  AdviceTracked'
  BY <1>2 DEF LimiterGrants
<1>3. ASSUME NEW c \in Calls, TokenFetched(c)
      PROVE  AdviceTracked'
  BY <1>3 DEF TokenFetched
<1>4. ASSUME NEW c \in Calls, HookFails(c)
      PROVE  AdviceTracked'
  BY <1>0, <1>4 DEF HookFails, AttemptReturns, Failed
<1>5. ASSUME NEW c \in Calls, Send(c)
      PROVE  AdviceTracked'
  BY <1>0, <1>5 DEF Send, NoAnswer
<1>6. ASSUME NEW c \in Calls, Receive(c)
      PROVE  AdviceTracked'
  BY <1>0, <1>6 DEF Receive, AttemptReturns, NoAnswer
<1>7. ASSUME NEW c \in Calls, SendFails(c)
      PROVE  AdviceTracked'
  BY <1>0, <1>7 DEF SendFails, AttemptReturns, Failed, NoAnswer
<1>8. ASSUME NEW c \in Calls, Finish(c)
      PROVE  AdviceTracked'
  BY <1>8 DEF Finish, ReturnLast, Return
<1>9. ASSUME NEW c \in Calls, PrepareRetry(c)
      PROVE  AdviceTracked'
  <2>1. last[c].status = 429 => WillPark(Retry, last[c].ra, advice[c])
    BY <1>9 DEF PrepareRetry, Retries
  <2> QED
    BY <1>9, <2>1 DEF PrepareRetry
<1>10. ASSUME NEW c \in Calls, SetTimer(c)
       PROVE  AdviceTracked'
  <2>1. PICK d \in retryDelays(Retry, att[c], last[c].status, last[c].ra, advice[c]) :
            timer' = [timer EXCEPT ![c] = d]
    BY <1>10 DEF SetTimer
  <2>2. /\ att[c] \in Nat \ {0} /\ last[c] \in Result
        /\ last[c].ra \in RetryAfters \cup {NoHeader}
    BY <1>10, RetryFacts DEF SetTimer, LoopInvariant, Result
  <2>3. /\ last[c].status \in Nat /\ Advised(last[c].ra) \in Nat
        /\ last[c].ra \in [form : {"none", "secs", "date"}, n : Int]
    BY <2>2, ResultTypes, AdvisedIsNat
  <2>4. /\ advice[c] <= Advised(last[c].ra)
        /\ last[c].status # 429 => last[c].ra = NoHeader
        /\ last[c].status = 429 => WillPark(Retry, last[c].ra, advice[c])
    BY <1>10 DEF SetTimer
  <2>5. advice[c] <= d
    BY <1>0, <2>1, <2>2, <2>3, <2>4, WaitCovers
  <2> QED
    BY <1>10, <2>1, <2>5 DEF SetTimer
<1>11. ASSUME NEW c \in Calls, Wake(c)
       PROVE  AdviceTracked'
  BY <1>0, <1>11 DEF Wake, BeginAttempt
<1>12. ASSUME NEW c \in Calls, CancelSleep(c)
       PROVE  AdviceTracked'
  BY <1>12 DEF CancelSleep, Return
<1>13. ASSUME NEW c \in Calls, EndContext(c)
       PROVE  AdviceTracked'
  BY <1>13 DEF EndContext
<1>14. ASSUME NEW c \in Calls, NEW a \in 1..Attempts, Lose(c, a)
       PROVE  AdviceTracked'
  BY <1>14 DEF Lose
<1>15. ASSUME NEW c \in Calls, NEW a \in 1..Attempts, NEW s \in Statuses,
              NEW ra \in RetryAfters \cup {NoHeader}, NEW e \in BOOLEAN,
              Serve(c, a, s, ra, e)
       PROVE  AdviceTracked'
  <2>1. Advised(ra) \in Nat
    BY AdvisedIsNat
  <2> QED
    BY <1>15, <2>1 DEF Serve
<1>16. ASSUME Rotate
       PROVE  AdviceTracked'
  BY <1>16 DEF Rotate
<1>17. ASSUME Tick
       PROVE  AdviceTracked'
  <2>1. \A c \in Calls : /\ advice'[c] \in Nat /\ advice'[c] <= advice[c]
                         /\ advice[c] = 0 => advice'[c] = 0
                         /\ advice[c] <= timer[c] => advice'[c] <= timer'[c]
    BY <1>0, <1>17 DEF Tick, Countdown
  <2>2. \A c \in Calls : WillPark(Retry, last[c].ra, advice[c])
                           => WillPark(Retry, last[c].ra, advice'[c])
    <3> SUFFICES ASSUME NEW c \in Calls, WillPark(Retry, last[c].ra, advice[c])
                 PROVE  WillPark(Retry, last[c].ra, advice'[c])
      OBVIOUS
    <3>1. MaxDuration \in Nat /\ retryAfterCap(Retry) \in Nat
      BY RetryFacts, UnitAssumption, WordSize DEF retryAfterCap, Policy
    <3>2. CASE last[c].ra.form = "date"
      BY <1>0, <2>1, <3>1, <3>2 DEF WillPark, RetryAfterDelay, ReadAsSeconds, Least
    <3>3. CASE last[c].ra.form # "date"
      BY <3>3 DEF WillPark, RetryAfterDelay
    <3> QED
      BY <3>2, <3>3
  <2>3. \A c \in Calls : /\ last[c].ra \in RetryAfters \cup {NoHeader}
                         /\ answer[c].ra \in RetryAfters \cup {NoHeader}
    BY DEF Result, Answer, NoAnswer
  <2>4. \A c \in Calls : /\ Advised(last[c].ra) \in Nat
                         /\ Advised(answer[c].ra) \in Nat
    BY <2>3, AdvisedIsNat
  <2>5. UNCHANGED <<pc, last, answer>>
    BY <1>17 DEF Tick
  <2> QED
    BY <1>0, <2>1, <2>2, <2>4, <2>5
<1>18. ASSUME UNCHANGED vars
       PROVE  AdviceTracked'
  BY <1>18 DEF vars
<1> HIDE DEF TypeOK, AdviceTracked, client, network, history
<1>19. ASSUME NEW c \in Calls, Step(c)
       PROVE  AdviceTracked'
  BY <1>2, <1>3, <1>4, <1>5, <1>6, <1>7, <1>8, <1>9, <1>10, <1>11, <1>12, <1>19
     DEF Step
<1>20. CASE Environment
  BY <1>13, <1>14, <1>15, <1>16, <1>17, <1>20 DEF Environment
<1> QED
  BY <1>1, <1>18, <1>19, <1>20 DEF Next

\* The invariant of the advice, in every behaviour.
THEOREM AdviceCorrect ==
    ASSUME retryAfterCap(Retry) < MaxDuration
    PROVE  Spec => []AdviceTracked
<1>1. Init => AdviceTracked
  BY AdviceInit
<1>2. TypeOK /\ LoopInvariant /\ EffectsTracked /\ AdviceTracked /\ [Next]_vars
        => AdviceTracked'
  BY AdviceStep
<1> QED
  BY <1>1, <1>2, TypeCorrect, EffectsCorrect, PTL DEF Spec

\* Between a 429 and the next attempt lies at least what the server asked for in
\* a header that parses, whichever headers it sends: with any policy whose cap is
\* not the largest duration itself (292 years).
THEOREM RetryAfterCorrect ==
    ASSUME retryAfterCap(Retry) < MaxDuration
    PROVE  Spec => []RetryAfterHonoured
<1>1. AdviceTracked => RetryAfterHonoured
  BY DEF AdviceTracked, RetryAfterHonoured
<1>2. Spec => []AdviceTracked
  BY AdviceCorrect
<1> QED
  BY <1>1, <1>2, PTL

-----------------------------------------------------------------------------
(* The end of the caller's context.                                         *)

\* Before any call no context has ended.
LEMMA CancelInit == Init => CancelTracked
  BY DEF Init, CancelTracked

\* After the context ended one more attempt may begin, by the timer; nothing of
\* it reaches the network, so classify ends the call.
LEMMA CancelStep == TypeOK /\ LoopInvariant /\ CancelTracked /\ [Next]_vars => CancelTracked'
<1> SUFFICES ASSUME TypeOK, LoopInvariant, CancelTracked, [Next]_vars
             PROVE  CancelTracked'
  OBVIOUS
<1>0. \A c \in Calls : att[c] \in Nat /\ endedAt[c] \in Nat
  BY RetryFacts DEF TypeOK
<1> USE <1>0 DEF TypeOK, CancelTracked, client, network, history
<1>1. ASSUME NEW c \in Calls, Start(c)
      PROVE  CancelTracked'
  BY <1>1 DEF Start, BeginAttempt, LoopInvariant
<1>2. ASSUME NEW c \in Calls, LimiterGrants(c)
      PROVE  CancelTracked'
  BY <1>2 DEF LimiterGrants
<1>3. ASSUME NEW c \in Calls, TokenFetched(c)
      PROVE  CancelTracked'
  BY <1>3 DEF TokenFetched
<1>4. ASSUME NEW c \in Calls, HookFails(c)
      PROVE  CancelTracked'
  BY <1>4 DEF HookFails, AttemptReturns, Failed
<1>5. ASSUME NEW c \in Calls, Send(c)
      PROVE  CancelTracked'
  BY <1>5 DEF Send
<1>6. ASSUME NEW c \in Calls, Receive(c)
      PROVE  CancelTracked'
  BY <1>6 DEF Receive, AttemptReturns
<1>7. ASSUME NEW c \in Calls, SendFails(c)
      PROVE  CancelTracked'
  BY <1>7 DEF SendFails, AttemptReturns, Failed
<1>8. ASSUME NEW c \in Calls, Finish(c)
      PROVE  CancelTracked'
  BY <1>8 DEF Finish, ReturnLast, Return
<1>9. ASSUME NEW c \in Calls, PrepareRetry(c)
      PROVE  CancelTracked'
  BY <1>9 DEF PrepareRetry, Retries, Aborts
<1>10. ASSUME NEW c \in Calls, SetTimer(c)
       PROVE  CancelTracked'
  BY <1>10 DEF SetTimer
<1>11. ASSUME NEW c \in Calls, Wake(c)
       PROVE  CancelTracked'
  BY <1>11 DEF Wake, BeginAttempt
<1>12. ASSUME NEW c \in Calls, CancelSleep(c)
       PROVE  CancelTracked'
  BY <1>12 DEF CancelSleep, Return
<1>13. ASSUME NEW c \in Calls, EndContext(c)
       PROVE  CancelTracked'
  BY <1>13 DEF EndContext
<1>14. ASSUME NEW c \in Calls, NEW a \in 1..Attempts, Lose(c, a)
       PROVE  CancelTracked'
  BY <1>14 DEF Lose
<1>15. ASSUME NEW c \in Calls, NEW a \in 1..Attempts, NEW s \in Statuses,
              NEW ra \in RetryAfters \cup {NoHeader}, NEW e \in BOOLEAN,
              Serve(c, a, s, ra, e)
       PROVE  CancelTracked'
  BY <1>15 DEF Serve
<1>16. ASSUME Rotate
       PROVE  CancelTracked'
  BY <1>16 DEF Rotate
<1>17. ASSUME Tick
       PROVE  CancelTracked'
  BY <1>17 DEF Tick
<1>18. ASSUME UNCHANGED vars
       PROVE  CancelTracked'
  BY <1>18 DEF vars
<1> HIDE DEF TypeOK, CancelTracked, client, network, history
<1>19. ASSUME NEW c \in Calls, Step(c)
       PROVE  CancelTracked'
  BY <1>2, <1>3, <1>4, <1>5, <1>6, <1>7, <1>8, <1>9, <1>10, <1>11, <1>12, <1>19
     DEF Step
<1>20. CASE Environment
  BY <1>13, <1>14, <1>15, <1>16, <1>17, <1>20 DEF Environment
<1> QED
  BY <1>1, <1>18, <1>19, <1>20 DEF Next

\* A call whose context ended begins at most one more attempt.
THEOREM CancelCorrect == Spec => []CancelEndsRetries
<1>1. Init => CancelTracked
  BY CancelInit
<1>2. TypeOK /\ LoopInvariant /\ CancelTracked /\ [Next]_vars => CancelTracked'
  BY CancelStep
<1>3. CancelTracked => CancelEndsRetries
  BY DEF CancelTracked, CancelEndsRetries
<1> QED
  BY <1>1, <1>2, <1>3, TypeCorrect, PTL DEF Spec

-----------------------------------------------------------------------------
(* Giving up.                                                               *)

\* A wait refused by the pipeline is one the server asked for, also when the cap
\* is the largest duration and nothing is refused.
LEMMA TooLongCorrect == Spec => []AdviceTooLong
<1>1. CASE retryAfterCap(Retry) < MaxDuration
  <2>1. TypeOK /\ AdviceTracked => AdviceTooLong
    <3> SUFFICES ASSUME TypeOK, AdviceTracked, NEW c \in Calls, pc[c] = "classify",
                        ~WillPark(Retry, last[c].ra, advice[c])
                 PROVE  Advised(last[c].ra) > retryAfterCap(Retry)
      BY DEF AdviceTooLong
    <3>1. /\ last[c] \in Result /\ advice[c] \in Nat
          /\ advice[c] <= Advised(last[c].ra)
      BY DEF TypeOK, AdviceTracked
    <3>2. last[c].ra \in RetryAfters \cup {NoHeader}
      BY <3>1 DEF Result
    <3>3. /\ Advised(last[c].ra) \in Nat
          /\ last[c].ra \in [form : {"none", "secs", "date"}, n : Int]
      BY <3>1, <3>2, AdvisedIsNat, ResultTypes
    <3> QED
      BY <3>1, <3>3, TooLongWasAsked
  <2>2. Spec => []AdviceTracked
    BY <1>1, AdviceCorrect
  <2> QED
    BY <2>1, <2>2, TypeCorrect, PTL
<1>2. CASE ~(retryAfterCap(Retry) < MaxDuration)
  <2>1. TypeOK => AdviceTooLong
    <3> SUFFICES ASSUME TypeOK, NEW c \in Calls
                 PROVE  WillPark(Retry, last[c].ra, advice[c])
      BY DEF AdviceTooLong
    <3>1. last[c] \in Result /\ advice[c] \in Nat
      BY DEF TypeOK
    <3>2. RetryAfterDelay(last[c].ra, advice[c]) \in 0..MaxDuration
      BY <3>1, ResultTypes, RetryAfterFits
    <3>3. retryAfterCap(Retry) \in Nat /\ MaxDuration \in Nat
      BY RetryFacts, UnitAssumption, WordSize DEF retryAfterCap, Policy
    <3> QED
      BY <1>2, <3>2, <3>3 DEF WillPark
  <2> QED
    BY <2>1, TypeCorrect, PTL
<1> QED
  BY <1>1, <1>2

\* Before any call none has given up.
LEMMA GivingUpInit == Init => GivesUpOnlyWhenSpent
  BY DEF Init, GivesUpOnlyWhenSpent

\* A step that returns nothing takes nothing back.
LEMMA GivingUpStutter ==
    ASSUME GivesUpOnlyWhenSpent,
           \A c \in Calls : pc'[c] = "done" =>
               /\ pc[c] = "done" /\ ctx'[c] = ctx[c] /\ att'[c] = att[c]
               /\ out'[c] = out[c] /\ last'[c] = last[c] /\ method'[c] = method[c]
    PROVE  GivesUpOnlyWhenSpent'
  BY DEF GivesUpOnlyWhenSpent, SingleShot

\* Finish is the only step that hands a retried failure to the caller.
LEMMA GivingUpStep ==
    TypeOK /\ AdviceTooLong /\ GivesUpOnlyWhenSpent /\ [Next]_vars => GivesUpOnlyWhenSpent'
<1> SUFFICES ASSUME TypeOK, AdviceTooLong, GivesUpOnlyWhenSpent, [Next]_vars
             PROVE  GivesUpOnlyWhenSpent'
  OBVIOUS
<1> USE DEF client, network, history
<1>1. ASSUME NEW c \in Calls, Start(c) \/ Wake(c)
      PROVE  GivesUpOnlyWhenSpent'
  BY <1>1, GivingUpStutter DEF Start, Wake, BeginAttempt, TypeOK
<1>2. ASSUME NEW c \in Calls, \/ LimiterGrants(c) \/ TokenFetched(c) \/ Send(c)
                              \/ PrepareRetry(c) \/ SetTimer(c)
      PROVE  GivesUpOnlyWhenSpent'
  BY <1>2, GivingUpStutter
     DEF LimiterGrants, TokenFetched, Send, PrepareRetry, SetTimer, TypeOK
<1>3. ASSUME NEW c \in Calls, HookFails(c) \/ Receive(c) \/ SendFails(c)
      PROVE  GivesUpOnlyWhenSpent'
  BY <1>3, GivingUpStutter DEF HookFails, Receive, SendFails, AttemptReturns, TypeOK
<1>4. ASSUME NEW c \in Calls, Finish(c)
      PROVE  GivesUpOnlyWhenSpent'
  <2>1. PICK kind, s : Return(c, kind, s) /\ pc[c] = "classify"
                       /\ \/ last[c].err # "nil" /\ kind = last[c].err
                          \/ kind \in {"ok", "decode"}
                          \/ last[c].err = "nil" /\ kind = "api" /\ s = last[c].status
    BY <1>4 DEF Finish, ReturnLast
  <2>2. /\ pc' = [pc EXCEPT ![c] = "done"] /\ UNCHANGED <<ctx, att, last, method>>
        /\ out' = [out EXCEPT ![c] = [kind |-> kind, status |-> s]]
    BY <2>1 DEF Return
  <2>3. Retries(c) => att[c] >= Attempts
    BY <1>4 DEF Finish
  <2>4. last[c] \in Result /\ att[c] \in Nat /\ Attempts \in Nat
    BY RetryFacts DEF TypeOK
  <2>5. Advised(last[c].ra) > retryAfterCap(Retry)
            \/ WillPark(Retry, last[c].ra, advice[c])
    BY <2>1 DEF AdviceTooLong
  <2>6. ASSUME ctx[c] = "live", att[c] < Attempts
        PROVE  /\ kind = "send" => SingleShot(c)
               /\ kind = "api" /\ s = 429 => Advised(last[c].ra) > retryAfterCap(Retry)
               /\ kind = "api" /\ s \in {500, 503} => SingleShot(c)
    <3>1. ~Retries(c)
      BY <2>3, <2>4, <2>6
    <3>2. kind = "send" => SingleShot(c)
      BY <2>1, <2>4, <2>6, <3>1 DEF Retries, Aborts, SingleShot, Result
    <3>3. kind = "api" => ~Aborts(c) /\ s = last[c].status
      BY <2>1, <2>4 DEF Aborts, Result
    <3> QED
      BY <2>5, <3>1, <3>2, <3>3 DEF Retries, SingleShot
  <2>7. UNCHANGED [d \in Calls |-> SingleShot(d)]
    BY <2>2 DEF SingleShot
  <2> SUFFICES ASSUME NEW d \in Calls, pc'[d] = "done", ctx'[d] = "live", att'[d] < Attempts
               PROVE  (CASE out[d].kind = "send" -> SingleShot(d)
                         [] out[d].kind = "api" /\ out[d].status = 429 ->
                                Advised(last[d].ra) > retryAfterCap(Retry)
                         [] out[d].kind = "api" /\ out[d].status \in {500, 503} ->
                                SingleShot(d)
                         [] OTHER -> TRUE)'
    BY DEF GivesUpOnlyWhenSpent
  <2>8. CASE d # c
    <3>1. pc[d] = "done" /\ ctx[d] = "live" /\ att[d] < Attempts /\ out'[d] = out[d]
      BY <2>2, <2>8 DEF TypeOK
    <3> QED
      BY <2>2, <3>1 DEF GivesUpOnlyWhenSpent, SingleShot
  <2>9. CASE d = c
    <3>1. out'[c].kind = kind /\ out'[c].status = s
      BY <2>2 DEF TypeOK
    <3> QED
      BY <2>2, <2>6, <2>9, <3>1 DEF SingleShot
  <2> QED
    BY <2>8, <2>9
<1>5. ASSUME NEW c \in Calls, CancelSleep(c)
      PROVE  GivesUpOnlyWhenSpent'
  <2>1. /\ ctx[c] = "ended" /\ pc' = [pc EXCEPT ![c] = "done"]
        /\ UNCHANGED <<ctx, att, last, method>>
        /\ \A d \in Calls : d # c => out'[d] = out[d] /\ pc'[d] = pc[d]
    BY <1>5 DEF CancelSleep, Return, TypeOK
  <2> QED
    BY <2>1 DEF GivesUpOnlyWhenSpent, SingleShot
<1>6. ASSUME NEW c \in Calls, EndContext(c)
      PROVE  GivesUpOnlyWhenSpent'
  BY <1>6, GivingUpStutter DEF EndContext, TypeOK
<1>7. CASE Environment /\ ~\E c \in Calls : EndContext(c)
  <2>1. UNCHANGED <<pc, ctx, att, out, last, method>>
    BY <1>7 DEF Environment, Lose, Serve, Rotate, Tick
  <2> QED
    BY <2>1, GivingUpStutter
<1>8. CASE UNCHANGED vars
  BY <1>8, GivingUpStutter DEF vars
<1> QED
  BY <1>1, <1>2, <1>3, <1>4, <1>5, <1>6, <1>7, <1>8 DEF Next, Step, Environment

\* A failure that the pipeline retries comes back only with its attempts spent, its
\* context ended or a wait asked for that is beyond the cap.
THEOREM GivingUpCorrect == Spec => []GivesUpOnlyWhenSpent
<1>1. Init => GivesUpOnlyWhenSpent
  BY GivingUpInit
<1>2. TypeOK /\ AdviceTooLong /\ GivesUpOnlyWhenSpent /\ [Next]_vars
        => GivesUpOnlyWhenSpent'
  BY GivingUpStep
<1> QED
  BY <1>1, <1>2, TypeCorrect, TooLongCorrect, PTL DEF Spec
=============================================================================
