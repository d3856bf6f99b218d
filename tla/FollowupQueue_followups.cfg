SPECIFICATION FairSpec
CONSTANTS
    m1 = m1
    m2 = m2
    m3 = m3
    d1 = d1
    d2 = d2
    d3 = d3
    again = again
    Messages = {m1, m2, m3}
    Runs = {d1, d2, d3, again}
    Anonymous = {d2, d3}
    Solo = {d2}
    Abortable = {d2}
    MessageOf <- Delivered
    Author <- TwoAuthors
    Route <- TwoRoutes
    Modes = {"followup", "collect"}
    Cap = 2
    DropPolicies = {"summarize"}
    MaxForeground = 1
    MaxFailures = 1
    MaxClears = 1
    MaxForgets = 1
INVARIANTS TypeOK NothingLost RunsOnce
PROPERTIES InOrder EventuallyDrained
CHECK_DEADLOCK FALSE
