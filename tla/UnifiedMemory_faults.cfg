\* A save of the main process and one of a bridge; failing puts, crashes.
SPECIFICATION ProcFairSpec
CONSTANTS
    main = main
    bridge = bridge
    j1 = j1
    j2 = j2
    j3 = j3
    Jobs = {j1, j2}
    NoRecord = NoRecord
    Procs = {main, bridge}
    ProcOf <- TwoProcesses
    Payloads <- OnePayload
    Faults = {"put", "crash"}
    Nobody = Nobody
INVARIANTS
    NoOrphanLock
PROPERTIES
    NothingKilledAfterDrain
    ShutdownEnds
