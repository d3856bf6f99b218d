SPECIFICATION Spec
CONSTANTS
    t1 = t1
    t2 = t2
    Turns <- TwoTurns
    MainTurns <- OneMainTurn
    LastDay = 4
    WeekOf <- Weeks
    MonthOf <- Months
    YearOf <- Years
    Midnight = {"session", "write"}
    Faults = {"scan", "put", "model", "crash"}
PROPERTY SummariesGrow
CHECK_DEADLOCK FALSE
