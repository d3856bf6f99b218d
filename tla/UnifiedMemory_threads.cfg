\* Three saves of the main process; puts may fail.
SPECIFICATION FairSpec
CONSTANTS
    main = main
    bridge = bridge
    j1 = j1
    j2 = j2
    j3 = j3
    Jobs = {j1, j2, j3}
    NoRecord = NoRecord
    Procs = {main}
    ProcOf <- OneProcess
    Payloads <- AddAndComplete
    Faults = {"put"}
    Nobody = Nobody
INVARIANTS
    Exclusive
    SnapshotFresh
PROPERTIES
    ImplementsAtomicMemory
    SaveFinishes
