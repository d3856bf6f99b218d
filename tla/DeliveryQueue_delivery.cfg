SPECIFICATION Spec
CONSTANTS
    Deliveries = {d1, d2}
    Notices = {d2}
    Drained = {}
    MaxRetries = 1
    MaxFaults = 2
    MaxCrashes = 1
INVARIANT NothingLost
CHECK_DEADLOCK FALSE
