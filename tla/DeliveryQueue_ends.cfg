SPECIFICATION FairSpec
CONSTANTS
    Deliveries = {d1}
    Notices = {}
    Drained = {d1}
    MaxRetries = 2
    MaxFaults = 2
    MaxCrashes = 2
INVARIANTS TypeOK OneOwner
PROPERTIES NoBlindReplay QueueEmpties
CHECK_DEADLOCK FALSE
