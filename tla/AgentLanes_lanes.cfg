SPECIFICATION FairSpec
CONSTANTS
    a1 = a1
    a2 = a2
    b1 = b1
    c1 = c1
    sa = sa
    sb = sb
    Runs = {a1, a2, c1}
    Sessions = {sa}
    CronRuns = {c1}
    Timed = {a1, a2, c1}
    SessionOf <- OwnSession
    Priority <- ByTrigger
    Width <- WidthOne
    Disturb = {"recover", "interrupt", "suspend", "restart"}
    MaxDisturb = 1
INVARIANTS TypeOK SlotsHaveOwners NoIdleSlot DrainedMeansIdle
PROPERTIES ImplementsSerialTurns TurnsInOrder RunsAnswered
CHECK_DEADLOCK FALSE
