------------------------------- MODULE MCMoney -------------------------------
(***************************************************************************)
(* Every amount of a narrow word printed, rendered, split and read back,   *)
(* and every short decimal text read.                                      *)
(***************************************************************************)
EXTENDS Money

CONSTANTS SplitParts,            \* numbers of parts of a split
          DecimalDigits,    \* a currency format's digits
          TextDigits,       \* digits of the texts read
          Numbers,          \* integer parts to be grouped
          MaxText           \* bound: digits after the point, and one more than before it

VARIABLES amount,        \* an amount
          text,     \* the text it was read from, or printed as
          parts,    \* its split
          shown     \* its rendering, and the digits asked for

moneyVars == <<amount, text, parts, shown>>

Grouped == -9      \* an integer part is shown, without digits asked for

\* A number of parts is a positive int.
ASSUME PartsAssumption == SplitParts \subseteq 1..(2^(WordBits - 1) - 1)

\* The digits of texts are decimal.
ASSUME TextAssumption == TextDigits \subseteq 0..9 /\ MaxText \in Nat

\* The wire has at most as many decimals as a milliunit, a word has room for
\* half a unit beside an amount, and a number has at most WordBits digits.
ASSUME ShownAssumption ==
    /\ \A d \in DecimalDigits : d \in Int /\ d <= 3 /\ d # Grouped
    /\ 500 < 2^(WordBits - 1)
    /\ \A n \in Numbers : \E k \in 1..WordBits : n < 10^k /\ \A j \in 1..(k - 1) : n >= 10^j

SmallParts == 1..5
WireDigits == {-1, 0, 1, 2, 3}
SomeDigits == {0, 2, 4, 8}
SomeNumbers == {0, 7, 12, 345, 6789, 12345, 678901, 2345678}

NoAmount == [sign |-> "none"]
NotShown == [digits |-> Grouped, number |-> 0, as |-> <<>>]
AmountTexts == [sign : {"", "+", "-"}, int : BoundedSeq(TextDigits, MaxText - 1),
                dot : BOOLEAN, frac : BoundedSeq(TextDigits, MaxText)]

Fresh == text = NoAmount /\ parts = <<>> /\ shown = NotShown

MoneyInit == amount \in Milliunits /\ Fresh

Show == /\ Fresh
        /\ text' = String(amount)
        /\ UNCHANGED <<amount, parts, shown>>

Split(n) == /\ Fresh
            /\ parts' = SplitEven(amount, n)
            /\ UNCHANGED <<amount, text, shown>>

Render(d) == /\ Fresh
             /\ shown' = [digits |-> d, number |-> 0, as |-> Format(amount, d)]
             /\ UNCHANGED <<amount, text, parts>>

\* The integer part of an amount too large for the narrow word.
Group(n) == /\ Fresh
            /\ amount = 0
            /\ shown' = [digits |-> Grouped, number |-> n, as |-> groupDigits(Digits(n))]
            /\ UNCHANGED <<amount, text, parts>>

\* A text without a point has no digits after it.
Read == /\ Fresh
        /\ amount = 0
        /\ \E t \in AmountTexts : /\ ~t.dot => t.frac = <<>>
                                  /\ Parses(t)
                                  /\ amount' = ParseMilliunits(t)
                                  /\ text' = t
        /\ UNCHANGED <<parts, shown>>

MoneyNext == \/ Show
             \/ \E n \in SplitParts : Split(n)
             \/ \E d \in DecimalDigits : Render(d)
             \/ \E n \in Numbers : Group(n)
             \/ Read

-----------------------------------------------------------------------------
\* SplitEven's promise: the parts differ by at most a milliunit, their exact
\* sum is the amount, also a negative one and one of fewer units than parts,
\* and the sum that the transaction validator forms, which may wrap, is too.
SplitAlwaysValid ==
    parts # <<>> => /\ Total(parts) = amount
                    /\ SplitSum(parts) = amount
                    /\ \A i, j \in DOMAIN parts : parts[i] - parts[j] \in -1..1

\* String and ParseMilliunits are inverse on every amount of the word, the
\* most negative one, whose magnitude is no amount, included; and a text that
\* is read is worth exactly the amount it gives, whatever digits it leaves out.
ReadsWhatIsWritten ==
    text # NoAmount =>
        /\ Parses(text)
        /\ ParseMilliunits(text) = amount
        /\ amount * 10^Len(text.frac) =
               1000 * ValueOf(text.int \o text.frac) * (IF text.sign = "-" THEN -1 ELSE 1)

\* Format's promise for the digits the wire uses: the amount rounded to that
\* many decimals, half away from zero, its sign kept; and its integer part, of
\* whatever size, grouped by threes without losing a digit.
FormatRounds ==
    IF shown.digits \in DecimalDigits
    THEN LET d == Clamped(shown.digits)
             value == ValueOf(FlattenSeq(shown.as.int) \o shown.as.frac)
         IN  /\ Len(shown.as.frac) = d
             /\ shown.as.sign = "-" <=> amount < 0
             /\ 2 * (value * 10^(3 - d) - magnitude(amount)) \in (1 - 10^(3 - d)) .. 10^(3 - d)
    ELSE shown # NotShown =>
             /\ FlattenSeq(shown.as) = Digits(shown.number)
             /\ \A g \in DOMAIN shown.as : Len(shown.as[g]) \in IF g = 1 THEN 1..3 ELSE {3}
=============================================================================
