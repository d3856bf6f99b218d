SPECIFICATION Spec
CONSTANTS
    t1 = t1
    t2 = t2
    Turns <- TwoTurns
    MainTurns <- OneMainTurn
    LastDay = 5
    WeekOf <- Weeks
    MonthOf <- Months
    YearOf <- Years
    Midnight = {}
    Faults = {"crash"}
INVARIANTS DaysSummarised WeeksSummarised
CHECK_DEADLOCK FALSE
