----------------------------- MODULE MCCalendar ------------------------------
(***************************************************************************)
(* An application that schedules transactions while days go by, walks the  *)
(* plan's months and reads dates from the wire.                            *)
(***************************************************************************)
EXTENDS Calendar

CONSTANTS Clock,            \* bound: the days, by number, on which it runs
          DayShifts, MonthShifts,
          Years,            \* bound: years of the texts and of the months walked
          TextDays          \* days of the texts

VARIABLES today,
          date,     \* the date last computed or read
          month,    \* the plan month the application looks at
          dateText  \* the text date was read from

calendarVars == <<today, date, month, dateText>>

\* It has a first day; it runs, and walks, in the years the wire has.
ASSUME CalendarAssumption ==
    /\ Clock \subseteq Int /\ \A n \in Clock : DateOf(n).year \in WireYears
    /\ \E first \in Clock : \A n \in Clock : first <= n
    /\ DayShifts \subseteq Int /\ MonthShifts \subseteq Int
    /\ Years \subseteq WireYears /\ TextDays \subseteq Int

\* Around two Februaries, one of a leap year, and a year's end.
SomeDays == UNION {DayNumber([year |-> y, month |-> 2, day |-> 26])
                     .. DayNumber([year |-> y, month |-> 3, day |-> 2]) : y \in {2023, 2024}}
              \cup DayNumber([year |-> 2023, month |-> 12, day |-> 30])
                     .. DayNumber([year |-> 2024, month |-> 1, day |-> 1])
SomeDayShifts == {-366, -1, 0, 1, 366, 1825, 1826, 1827, 1828, 1829}
SomeMonthShifts == {-13, -12, -1, 1, 12, 60}
SomeYears == {0, 2023, 2024, 9999}
SomeTextDays == {1, 28, 29, 30, 31}

CalendarInit == /\ \E n \in Clock : today = DateOf(n)
                /\ date = NoDate
                /\ month \in {NoMonth, CurrentMonth, MonthOf(today)}
                /\ dateText = NoText

Midnight == /\ DayNumber(today) + 1 \in Clock
            /\ today' = AddDays(today, 1)
            /\ UNCHANGED <<date, month, dateText>>

\* The application is busy with a date or with a month.
OnDate == month = CurrentMonth
OnMonth == date = NoDate

\* It computes a date from today's, from one it read, or from no date.
Bases == {today, NoDate} \cup (IF dateText # NoText THEN {date} ELSE {})
ComputeDays(d, n) == /\ OnDate
                     /\ date' = AddDays(d, n)
                     /\ dateText' = NoText
                     /\ UNCHANGED <<today, month>>
ComputeMonths(d, n) == /\ OnDate
                       /\ date' = AddMonths(d, n)
                       /\ dateText' = NoText
                       /\ UNCHANGED <<today, month>>

WalkMonths(n) == /\ OnMonth
                 /\ MonthPlus(month, n).year \in Years
                 /\ month' = MonthPlus(month, n)
                 /\ UNCHANGED <<today, date, dateText>>

Texts == [form : {"date"}, year : Years, month : {1, 2, 12}, day : TextDays]

ReadDate == /\ OnDate
            /\ \E t \in Texts : /\ DateParses(t)
                                /\ dateText' = t
                                /\ date' = ParseDate(t)
            /\ UNCHANGED <<today, month>>

ReadMonth == /\ OnMonth
             /\ \E t \in Texts \cup {[form |-> "current"]} :
                   MonthParses(t) /\ month' = ParseMonth(t)
             /\ UNCHANGED <<today, date, dateText>>

CalendarNext == \/ Midnight
                \/ \E d \in Bases, n \in DayShifts : ComputeDays(d, n)
                \/ \E d \in Bases, n \in MonthShifts : ComputeMonths(d, n)
                \/ \E n \in MonthShifts : WalkMonths(n)
                \/ ReadDate
                \/ ReadMonth

-----------------------------------------------------------------------------
\* A scheduled date passes checkScheduledDate for five years exactly: 1826
\* days ahead always (1825 around a century with no leap year), 1828 days
\* never (a window that starts on 29 February rolls over to 1 March); it is
\* never refused as past or too far when it is neither, and no date never
\* passes.
WindowIsFiveYears ==
    LET ahead == DayNumber(date) - DayNumber(today)
        verdict == checkScheduledDate(date, today)
    IN  IF date = NoDate THEN verdict = DateRequired
        ELSE /\ ahead < 0 <=> verdict = InThePast
             /\ ahead \in 0..FiveYears(today) => verdict = "ok"
             /\ ahead > 1827 => verdict = TooFarOut

\* A date that passed the check goes on passing it as days go by, until it is
\* past: a retry or a queued write is not refused for being too far out.
WindowOnlyLosesThePast ==
    [][date' = date /\ checkScheduledDate(date, today) = "ok"
          => checkScheduledDate(date, today') \in {"ok", InThePast}]_calendarVars

\* Compare orders any two dates as the days follow each other, and no date
\* before each that the wire can carry.
OrderIsChronological ==
    date # NoDate => /\ Compare(date, today) = Sign(DayNumber(date), DayNumber(today))
                     /\ date.year >= 0 => Compare(NoDate, date) = -1

\* Month arithmetic agrees with date arithmetic on first days, across the
\* year's end in both directions, and going back returns to the month; the
\* two values that are no month stay what they are.
MonthsAgreeWithDates ==
    \A n \in MonthShifts :
        LET moved == MonthPlus(month, n)
        IN  /\ FirstDay(moved) = AddMonths(FirstDay(month), n)
            /\ MonthPlus(moved, -n) = month
            /\ IsConcrete(month) => MonthCompare(moved, month) = Sign(n, 0)

\* What the strict parser accepts is printed back the same, so no day that
\* does not exist comes in as its neighbour; and every day and month of the
\* wire's four-digit years is read back as it was printed.
WireIsStrict ==
    /\ dateText # NoText => DateText(date) = dateText
    /\ date # NoDate /\ date.year \in WireYears =>
           DateParses(DateText(date)) /\ ParseDate(DateText(date)) = date
    /\ month # NoMonth => MonthParses(MonthText(month)) /\ ParseMonth(MonthText(month)) = month

\* Dates, months and their wire forms are one calendar.
OneCalendar == OrderIsChronological /\ MonthsAgreeWithDates /\ WireIsStrict
=============================================================================
