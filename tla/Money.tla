-------------------------------- MODULE Money --------------------------------
(***************************************************************************)
(* Amounts: milliunits.go, on a word of WordBits bits instead of 64, so    *)
(* that an overflow of the code is one of the model.  A decimal text is    *)
(* its sign, the digits before and those after its point; a rendered       *)
(* amount leaves out the symbol and the separators' own characters.        *)
(***************************************************************************)
EXTENDS Integers, Sequences, SequencesExt

CONSTANTS WordBits,     \* width of int64 (64 in the code)
          MaxDigits     \* the clamp of DecimalDigits (10 in the code)

\* Format's scale itself fits in a word, as 10^10 does in 64 bits.
ASSUME MoneyAssumption == /\ WordBits \in Nat \ {0, 1}
                          /\ MaxDigits \in Nat
                          /\ 10^MaxDigits < 2^WordBits

\* What the solvers do not compute of powers of two.
ASSUME HalvesAssumption == /\ 2^(WordBits - 1) \in Nat \ {0}
                           /\ 2^WordBits = 2 * 2^(WordBits - 1)

\* Nor of powers of ten: a number of the word has at most w digits, a unit
\* is a thousand milliunits.
ASSUME TensAssumption ==
    \E w \in 1..WordBits : /\ 2^WordBits <= 10^w
                           /\ 10^0 = 1
                           /\ \A k \in 0..(w + 3) : 10^(k + 1) = 10 * 10^k

MinMilliunits == -(2^(WordBits - 1))
Milliunits == MinMilliunits .. (2^(WordBits - 1) - 1)

\* What a signed and an unsigned word keep of x.
Wrapped(x) == ((x - MinMilliunits) % 2^WordBits) + MinMilliunits
Unsigned(x) == x % 2^WordBits

Add(m, o) == Wrapped(m + o)
Abs(m) == IF m < 0 THEN Wrapped(-m) ELSE m

\* Go's quotient and remainder, truncated toward zero.
Quo(m, n) == IF m >= 0 THEN m \div n ELSE -((-m) \div n)
Rem(m, n) == m - n * Quo(m, n)

\* Mutant: the remainder of a negative amount handed out with the wrong sign.
SplitEvenUp(m, n) ==
    [i \in 1..n |-> Quo(m, n) + (IF i <= Abs(Rem(m, n)) THEN 1 ELSE 0)]

\* The remainder goes one milliunit at a time to the first parts.
SplitEven(m, n) ==
    LET step == IF Rem(m, n) < 0 THEN -1 ELSE 1
    IN  [i \in 1..n |-> Quo(m, n) + (IF i <= Abs(Rem(m, n)) THEN step ELSE 0)]

\* The sum that TransactionSpec.validate compares with the amount, which may
\* wrap at any part, and the exact one.
SplitSum(parts) ==
    LET sum[k \in 0..Len(parts)] == IF k = 0 THEN 0 ELSE Add(sum[k - 1], parts[k])
    IN  sum[Len(parts)]
Total(parts) ==
    LET sum[k \in 0..Len(parts)] == IF k = 0 THEN 0 ELSE sum[k - 1] + parts[k]
    IN  sum[Len(parts)]

-----------------------------------------------------------------------------
(* Text.                                                                    *)

Width(n) == CHOOSE k \in 1..WordBits : n < 10^k /\ \A j \in 1..(k - 1) : n >= 10^j
Padded(n, width) == [i \in 1..width |-> (n \div 10^(width - i)) % 10]
Digits(n) == Padded(n, Width(n))    \* what Sprintf prints of n
ValueOf(digits) ==
    LET value[k \in 0..Len(digits)] == IF k = 0 THEN 0 ELSE 10 * value[k - 1] + digits[k]
    IN  value[Len(digits)]

magnitude(m) == IF m = MinMilliunits THEN 2^(WordBits - 1) ELSE IF m < 0 THEN -m ELSE m

\* Mutant: the sign lost on amounts of less than a unit.
StringOfUnits(m) == [sign |-> IF Quo(m, 1000) < 0 THEN "-" ELSE "",
                     int |-> Digits(magnitude(m) \div 1000),
                     dot |-> TRUE, frac |-> Padded(magnitude(m) % 1000, 3)]

String(m) == [sign |-> IF m < 0 THEN "-" ELSE "",
              int |-> Digits(magnitude(m) \div 1000),
              dot |-> TRUE,
              frac |-> Padded(magnitude(m) % 1000, 3)]

\* The integer strconv reads once the fraction is filled up to three digits.
Milli(t) == (IF t.sign = "-" THEN -1 ELSE 1)
              * ValueOf(t.int \o t.frac \o [i \in 1..(3 - Len(t.frac)) |-> 0])

\* Mutant: the magnitude alone checked against the word.
ParsesMagnitude(t) == /\ t.int # <<>>
                      /\ t.dot => Len(t.frac) \in 1..3
                      /\ -Milli(t) \in Milliunits \/ Milli(t) \in Milliunits

Parses(t) == /\ t.int # <<>>
             /\ t.dot => Len(t.frac) \in 1..3
             /\ Milli(t) \in Milliunits

ParseMilliunits(t) == Wrapped(Milli(t))     \* of a text that Parses

-----------------------------------------------------------------------------
(* Format: a magnitude rescaled to the requested number of decimals.        *)

Clamped(digits) == IF digits < 0 THEN 0 ELSE IF digits > MaxDigits THEN MaxDigits ELSE digits

\* Mutant: the fraction cut off.
RescaledCut(u, digits) == IF digits <= 3 THEN u \div 10^(3 - digits)
                          ELSE Unsigned(u * 10^(digits - 3))

Rescaled(u, digits) == IF digits <= 3
                       THEN LET div == 10^(3 - digits)
                            IN  Unsigned(u + div \div 2) \div div
                       ELSE Unsigned(u * 10^(digits - 3))

\* Groups of three digits from the right, the first of one to three.
\* Mutant: a full group first.
groupDigitsLeft(s) ==
    [g \in 1..((Len(s) + 2) \div 3) |->
        SubSeq(s, 3 * g - 2, IF 3 * g < Len(s) THEN 3 * g ELSE Len(s))]

groupDigits(s) ==
    LET lead == IF Len(s) % 3 = 0 THEN 3 ELSE Len(s) % 3
    IN  [g \in 1..((Len(s) + 2) \div 3) |->
            SubSeq(s, IF g = 1 THEN 1 ELSE lead + 3 * (g - 2) + 1, lead + 3 * (g - 1))]

Format(m, decimalDigits) ==
    LET digits == Clamped(decimalDigits)
        u == Rescaled(magnitude(m), digits)
    IN  [sign |-> IF m < 0 THEN "-" ELSE "",
         int |-> groupDigits(Digits(u \div 10^digits)),
         frac |-> Padded(u % 10^digits, digits)]
=============================================================================
