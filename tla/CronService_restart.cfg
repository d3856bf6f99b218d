SPECIFICATION Spec
CONSTANTS
    digest = digest  poll = poll  reminder = reminder  m = m
    Jobs = {digest, poll}
    Kind <- Kinds
    AgentTurn = {}
    DeleteAfterRun = {}
    Initial = {digest, poll}
    Position <- Positions
    Period = 3
    AtTime = 2
    Manuals = {}
    ManualJob <- OfDigest
    Forced = {}
    Ops = {}
    MaxImmediate = 1
    Stagger = 1
    Backoff = 1
    Stuck = 4
    MaxRetries = 1
    Workers = 1
    MaxTime = 5
    MaxOps = 0
    MaxMishaps = 1
INVARIANTS NoSlotSkipped
CHECK_DEADLOCK FALSE
