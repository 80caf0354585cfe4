CONSTANTS
    WordBits = 12
    MaxDigits = 3
    SplitParts <- SmallParts
    DecimalDigits <- WireDigits
    TextDigits <- SomeDigits
    Numbers <- SomeNumbers
    MaxText = 3
    Clock <- SomeDays
    DayShifts <- SomeDayShifts
    MonthShifts <- SomeMonthShifts
    Years <- SomeYears
    TextDays <- SomeTextDays
SPECIFICATION ValuesSpec
INVARIANTS
    SplitAlwaysValid
    ReadsWhatIsWritten
    FormatRounds
    WindowIsFiveYears
    OneCalendar
PROPERTY WindowOnlyLosesThePast
CHECK_DEADLOCK FALSE
