SPECIFICATION FairSpec
CONSTANTS
    digest = digest  poll = poll  reminder = reminder  m = m
    Jobs = {digest, reminder}
    Kind <- Kinds
    AgentTurn = {digest}
    DeleteAfterRun = {reminder}
    Initial = {digest}
    Position <- Positions
    Period = 2
    AtTime = 2
    Manuals = {m}
    ManualJob <- OfDigest
    Forced = {m}
    Ops = {"read", "enable", "disable", "remove", "add"}
    MaxImmediate = 1
    Stagger = 1
    Backoff = 1
    Stuck = 1
    MaxRetries = 1
    Workers = 1
    MaxTime = 3
    MaxOps = 1
    MaxMishaps = 1
INVARIANTS TypeOK NoSlotSkipped NoOverlap
PROPERTIES OneShotOnce OwedSlotsRun
CHECK_DEADLOCK FALSE
