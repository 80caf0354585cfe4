------------------------------ MODULE Calendar -------------------------------
(***************************************************************************)
(* Days and plan months: date.go and month.go, and the window of scheduled *)
(* dates in scheduled.go.  A date or month is its components, all zero for *)
(* "none"; a text is its components too, so that what the strict wire form *)
(* cannot say (a year of more than four digits) stays visible.             *)
(***************************************************************************)
EXTENDS Integers

NoDate == [year |-> 0, month |-> 0, day |-> 0]
NoMonth == [year |-> 0, month |-> 0, current |-> FALSE]
CurrentMonth == [NoMonth EXCEPT !.current = TRUE]

-----------------------------------------------------------------------------
(* Go's time.Date: the proleptic Gregorian calendar, days counted from      *)
(* 1 January of the year 0, and components of any size normalized.          *)

IsLeap(y) == y % 4 = 0 /\ (y % 100 = 0 => y % 400 = 0)
MonthDays(y, m) == CASE m = 2 -> IF IsLeap(y) THEN 29 ELSE 28
                     [] m \in {4, 6, 9, 11} -> 30
                     [] OTHER -> 31

YearStart(y) == 365 * y + (y + 3) \div 4 - (y + 99) \div 100 + (y + 399) \div 400
MonthStart(y, m) ==
    YearStart(y) + <<0, 31, 59, 90, 120, 151, 181, 212, 243, 273, 304, 334>>[m]
        + (IF m > 2 /\ IsLeap(y) THEN 1 ELSE 0)

DayNumber(d) == MonthStart(d.year, d.month) + d.day - 1

DateOf(n) ==
    LET about == (400 * n) \div 146097     \* days of 400 years
        y == CHOOSE k \in (about - 1)..(about + 1) : YearStart(k) <= n /\ n < YearStart(k + 1)
        m == CHOOSE k \in 1..12 :
                 MonthStart(y, k) <= n /\ n < MonthStart(y, k) + MonthDays(y, k)
    IN  [year |-> y, month |-> m, day |-> n - MonthStart(y, m) + 1]

\* A day of this calendar: the components of every Date that is not zero.
RealDay(d) == /\ d = [year |-> d.year, month |-> d.month, day |-> d.day]
              /\ d.year \in Int /\ d.month \in 1..12
              /\ d.day \in 1..MonthDays(d.year, d.month)

NormalYear(y, m) == y + (m - 1) \div 12
NormalMonth(m) == ((m - 1) % 12) + 1

-----------------------------------------------------------------------------
(* Date.                                                                    *)

NewDate(y, m, d) == DateOf(MonthStart(NormalYear(y, m), NormalMonth(m)) + d - 1)

AddDays(d, n) == IF d = NoDate THEN d ELSE DateOf(DayNumber(d) + n)

\* The day is carried over: 31 January and a month is in March.
AddMonths(d, n) == IF d = NoDate THEN d ELSE NewDate(d.year, d.month + n, d.day)

Sign(x, y) == IF x < y THEN -1 ELSE IF x > y THEN 1 ELSE 0

\* Mutant: months compared before years.
CompareByMonth(d, o) == IF d.month # o.month THEN Sign(d.month, o.month)
                        ELSE IF d.year # o.year THEN Sign(d.year, o.year)
                        ELSE Sign(d.day, o.day)

Compare(d, o) == IF d.year # o.year THEN Sign(d.year, o.year)
                 ELSE IF d.month # o.month THEN Sign(d.month, o.month)
                 ELSE Sign(d.day, o.day)

Before(d, o) == Compare(d, o) < 0
After(d, o) == Compare(d, o) > 0

\* String and MarshalJSON: nothing, or null, for no date; %04d prints a year
\* of five digits in full and the sign of a negative one.
NoText == [form |-> "none"]
DateText(d) == IF d = NoDate THEN NoText
               ELSE [form |-> "date", year |-> d.year, month |-> d.month, day |-> d.day]

\* The years that four digits write.
LastYear == 9999
WireYears == 0..LastYear

\* Mutant: days that do not exist normalized instead of refused.
DateParsesAny(t) == t.form = "date" /\ t.year \in WireYears /\ t.month \in 1..12 /\ t.day \in 1..31

\* The wire form has four digits, a real month and a day that month has.
DateParses(t) == /\ t.form = "date"
                 /\ t.year \in WireYears
                 /\ t.month \in 1..12
                 /\ t.day \in 1..MonthDays(t.year, t.month)

ParseDate(t) == NewDate(t.year, t.month, t.day)     \* of a text it parses

-----------------------------------------------------------------------------
(* Month, with its two values that are no month.                            *)

IsConcrete(m) == m # NoMonth /\ ~m.current
NewMonth(y, m) == [year |-> NormalYear(y, m), month |-> NormalMonth(m), current |-> FALSE]
MonthOf(d) == [year |-> d.year, month |-> d.month, current |-> FALSE]

\* Mutant: the month's number wraps and its year stays.
MonthPlusSameYear(m, n) ==
    IF IsConcrete(m) THEN [m EXCEPT !.month = NormalMonth(@ + n)] ELSE m

MonthPlus(m, n) == IF IsConcrete(m) THEN NewMonth(m.year, m.month + n) ELSE m

MonthCompare(m, o) == IF m.year # o.year THEN Sign(m.year, o.year) ELSE Sign(m.month, o.month)

FirstDay(m) == IF IsConcrete(m) THEN [year |-> m.year, month |-> m.month, day |-> 1] ELSE NoDate

MonthText(m) == IF m.current THEN [form |-> "current"]
                ELSE IF m = NoMonth THEN NoText
                ELSE [form |-> "date", year |-> m.year, month |-> m.month, day |-> 1]

MonthParses(t) == t.form = "current" \/ (DateParses(t) /\ t.day = 1)
ParseMonth(t) == IF t.form = "current" THEN CurrentMonth ELSE MonthOf(ParseDate(t))

-----------------------------------------------------------------------------
(* The window of scheduled dates: from today to five years out.             *)

WindowMonths == 60
DateRequired == "date is required"
InThePast == "must not be in the past"
TooFarOut == "must be at most 5 years out"

\* The days that are within five years of d whatever the month: one of them
\* is a 29 February, unless a century without its leap year is near.
FiveYears(d) == IF \E y \in d.year..(d.year + 5) : y % 4 = 0 /\ ~IsLeap(y) THEN 1825 ELSE 1826

\* Mutant: five years of 365 days.
checkScheduledDateDays(d, today) ==
    IF d = NoDate THEN DateRequired
    ELSE IF Before(d, today) THEN InThePast
    ELSE IF After(d, AddDays(today, 365 * 5)) THEN TooFarOut
    ELSE "ok"

checkScheduledDate(d, today) ==
    IF d = NoDate THEN DateRequired
    ELSE IF Before(d, today) THEN InThePast
    ELSE IF After(d, AddMonths(today, WindowMonths)) THEN TooFarOut
    ELSE "ok"
=============================================================================
