------------------------------ MODULE MCValues -------------------------------
(***************************************************************************)
(* The values an application works with: it looks either at an amount or   *)
(* at the calendar, which have nothing to say to each other.               *)
(***************************************************************************)
EXTENDS MCMoney, MCCalendar

valuesVars == <<moneyVars, calendarVars>>

\* At rest: no amount read or shown, the first day.
MoneyRests == amount = 0 /\ Fresh
FirstDayOf(days) == DateOf(CHOOSE n \in days : \A k \in days : n <= k)
CalendarRests == today = FirstDayOf(Clock) /\ date = NoDate /\ month = NoMonth /\ dateText = NoText

ValuesInit == \/ MoneyInit /\ CalendarRests
              \/ MoneyRests /\ CalendarInit

ValuesNext == \/ CalendarRests /\ MoneyNext /\ UNCHANGED calendarVars
              \/ MoneyRests /\ CalendarNext /\ UNCHANGED moneyVars

ValuesSpec == ValuesInit /\ [][ValuesNext]_valuesVars
=============================================================================
