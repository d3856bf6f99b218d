--------------------------- MODULE UnifiedMemory ---------------------------
(***************************************************************************)
(* The post-turn memory pipeline of Parker: remember_node (graph.py) starts *)
(* one tracked background thread per turn (memory/utils.py), which takes    *)
(* the four namespace locks, scans the four namespaces, asks the model for  *)
(* a payload and puts one record after another (memory/unified.py).  The    *)
(* process that started it ends by draining its tracked threads for at most *)
(* 15 seconds, closes its connections and exits, which kills them (main.py, *)
(* parker_bridge.py).                                                       *)
(* The interactive process and the one-shot bridge processes share the      *)
(* PostgreSQL store but not the locks, which live in each process.          *)
(***************************************************************************)
EXTENDS MemoryRecords

CONSTANTS
    Procs,      \* processes: the main loop and bridges
    ProcOf,     \* [Jobs -> Procs]: the process a save runs in
    Payloads,   \* bound: the payloads the model may return
    Faults,     \* which of "scan", "put", "crash" can happen
    Nobody      \* no holder

ASSUME MemoryAssumption ==
    /\ ProcOf \in [Jobs -> Procs]
    /\ Payloads \subseteq Payload
    /\ Faults \subseteq {"scan", "put", "crash"}
    /\ Nobody \notin Jobs

VARIABLES
    store,     \* the shared PostgresStore: [Namespaces -> Cell]
    lock,      \* lock[p][n]: holder of process p's lock on namespace n
    pc,        \* control point of each save
    cursor,    \* next namespace (or put) of the current phase
    snap,      \* existing_facts, existing_profile, ... of each save
    plan,      \* the parsed payload of each save
    tracked,   \* tracked[p]: _background_jobs of process p
    proc,      \* life of each process
    closed,    \* close_connections() was called by the process
    blind,     \* history: namespaces whose scan failed and read as empty
    turn       \* history: the save that wrote last, the store it found when it
               \* began to write, and the saves that wrote before it

vars == <<store, lock, pc, cursor, snap, plan, tracked, proc, closed, blind, turn>>

NothingRead == [n \in Namespaces |-> NoRecord]
NoPlan == [n \in Namespaces |-> <<>>]

Init ==
    /\ store = [n \in Namespaces |-> NoRecord]
    /\ lock = [p \in Procs |-> [n \in Namespaces |-> Nobody]]
    /\ pc = [j \in Jobs |-> "unborn"]
    /\ cursor = [j \in Jobs |-> 1]
    /\ snap = [j \in Jobs |-> NothingRead]
    /\ plan = [j \in Jobs |-> NoPlan]
    /\ tracked = [p \in Procs |-> {}]
    /\ proc = [p \in Procs |-> "up"]
    /\ closed = [p \in Procs |-> FALSE]
    /\ blind = [j \in Jobs |-> {}]
    /\ turn = [writer |-> Nobody, base |-> store, over |-> {}]

----------------------------------------------------------------------------
(* The saving thread.                                                        *)

(* The job goes on to the next namespace of its phase, or to phase next.     *)
Advance(j, next) ==
    IF cursor[j] = 4
    THEN /\ pc' = [pc EXCEPT ![j] = next]
         /\ cursor' = [cursor EXCEPT ![j] = IF next = "unlock" THEN 4 ELSE 1]
    ELSE /\ pc' = pc
         /\ cursor' = [cursor EXCEPT ![j] = @ + 1]

(* The job abandons its phase: the with statement will release its locks.    *)
LeaveBlock(j) ==
    /\ pc' = [pc EXCEPT ![j] = "unlock"]
    /\ cursor' = [cursor EXCEPT ![j] = 4]

(* Profile first, then facts, projects and tasks.                            *)
PutOrder(i) == CASE i = 1 -> Profile [] i = 2 -> Facts [] OTHER -> i

(* The item the job has come to, and the store as it was before the job's    *)
(* own puts.                                                                 *)
Namespace(j) == PutOrder(cursor[j])
Item(j) == Head(plan[j][Namespace(j)])
Before(j) == IF turn.writer = j THEN turn.base ELSE store

(* The job puts a record in the place of the item's and goes on to the next. *)
PutRecord(j, record) ==
    /\ store' = [store EXCEPT ![Namespace(j)] = record]
    /\ plan' = [plan EXCEPT ![j][Namespace(j)] = Tail(@)]
    /\ turn' = [writer |-> j, base |-> Before(j),
                over |-> turn.over \union ({turn.writer} \ {j, Nobody})]

(* Faulty variants, for the mutation runs only: a lock is taken without      *)
(* waiting; the first job locks in the opposite order; the locks are given   *)
(* back before the model is asked; a put forgets the record it read; a       *)
(* failed put skips the release; a thread is started without being tracked.  *)
AcquireUnchecked(j) ==
    LET p == ProcOf[j]  n == cursor[j] IN
    /\ pc[j] = "lock"
    /\ lock' = [lock EXCEPT ![p][n] = j]
    /\ Advance(j, "scan")
    /\ UNCHANGED <<store, snap, plan, tracked, proc, closed, blind, turn>>
AcquireUnordered(j) ==
    LET p == ProcOf[j]
        n == IF j = CHOOSE k \in Jobs : TRUE THEN 5 - cursor[j] ELSE cursor[j] IN
    /\ pc[j] = "lock"
    /\ lock[p][n] = Nobody
    /\ lock' = [lock EXCEPT ![p][n] = j]
    /\ Advance(j, "scan")
    /\ UNCHANGED <<store, snap, plan, tracked, proc, closed, blind, turn>>
AskModelUnlocked(j) ==
    /\ pc[j] = "ask"
    /\ \E payload \in Payloads : plan' = [plan EXCEPT ![j] = payload]
    /\ pc' = [pc EXCEPT ![j] = "put"]
    /\ cursor' = [cursor EXCEPT ![j] = 1]
    /\ lock' = [lock EXCEPT ![ProcOf[j]] = [n \in Namespaces |-> Nobody]]
    /\ UNCHANGED <<store, snap, tracked, proc, closed, blind, turn>>
PutForgetful(j) ==
    /\ pc[j] = "put"
    /\ plan[j][Namespace(j)] # <<>>
    /\ Writes(Item(j), snap[j][Namespace(j)])
    /\ ~closed[ProcOf[j]]
    /\ PutRecord(j, Written(j, Namespace(j), Item(j), NoRecord))
    /\ UNCHANGED <<lock, pc, cursor, snap, tracked, proc, closed, blind>>
PutFailsLeaky(j) ==
    /\ pc[j] = "put"
    /\ closed[ProcOf[j]] \/ "put" \in Faults
    /\ pc' = [pc EXCEPT ![j] = "finish"]
    /\ UNCHANGED <<store, lock, cursor, snap, plan, tracked, proc, closed, blind, turn>>
SpawnUntracked(j) ==
    /\ proc[ProcOf[j]] = "up"
    /\ pc[j] = "unborn"
    /\ pc' = [pc EXCEPT ![j] = "lock"]
    /\ UNCHANGED <<store, lock, cursor, snap, plan, tracked, proc, closed, blind, turn>>

(* remember_node: save_memory_updates starts a tracked thread for the turn.  *)
Spawn(j) ==
    LET p == ProcOf[j] IN
    /\ proc[p] = "up"
    /\ pc[j] = "unborn"
    /\ pc' = [pc EXCEPT ![j] = "lock"]
    /\ tracked' = [tracked EXCEPT ![p] = @ \union {j}]
    /\ UNCHANGED <<store, lock, cursor, snap, plan, proc, closed, blind, turn>>

(* with get_ns_lock(facts), get_ns_lock(profile), ...: one after the other.  *)
Acquire(j) ==
    LET p == ProcOf[j]  n == cursor[j] IN
    /\ pc[j] = "lock"
    /\ lock[p][n] = Nobody
    /\ lock' = [lock EXCEPT ![p][n] = j]
    /\ Advance(j, "scan")
    /\ UNCHANGED <<store, snap, plan, tracked, proc, closed, blind, turn>>

(* full_scan of one namespace; it answers [] when the store raises.          *)
Scan(j) ==
    LET n == cursor[j] IN
    /\ pc[j] = "scan"
    /\ ~closed[ProcOf[j]]
    /\ snap' = [snap EXCEPT ![j][n] = store[n]]
    /\ Advance(j, "ask")
    /\ UNCHANGED <<store, lock, plan, tracked, proc, closed, blind, turn>>

ScanFails(j) ==
    LET n == cursor[j] IN
    /\ pc[j] = "scan"
    /\ closed[ProcOf[j]] \/ "scan" \in Faults
    /\ snap' = [snap EXCEPT ![j][n] = NoRecord]
    /\ blind' = [blind EXCEPT ![j] = @ \union {n}]
    /\ Advance(j, "ask")
    /\ UNCHANGED <<store, lock, plan, tracked, proc, closed, turn>>

(* The model answers with a payload that parses.                             *)
AskModel(j) ==
    /\ pc[j] = "ask"
    /\ \E payload \in Payloads : plan' = [plan EXCEPT ![j] = payload]
    /\ pc' = [pc EXCEPT ![j] = "put"]
    /\ cursor' = [cursor EXCEPT ![j] = 1]
    /\ UNCHANGED <<store, lock, snap, tracked, proc, closed, blind, turn>>

(* The model raises, or nothing could be parsed: leave the try block.        *)
NothingExtracted(j) ==
    /\ pc[j] = "ask"
    /\ LeaveBlock(j)
    /\ UNCHANGED <<store, lock, snap, plan, tracked, proc, closed, blind, turn>>

(* A "complete" of a task that the scan did not find writes nothing.         *)
SkipPut(j) ==
    /\ pc[j] = "put"
    /\ plan[j][Namespace(j)] # <<>>
    /\ ~Writes(Item(j), snap[j][Namespace(j)])
    /\ plan' = [plan EXCEPT ![j][Namespace(j)] = Tail(@)]
    /\ UNCHANGED <<store, lock, pc, cursor, snap, tracked, proc, closed, blind, turn>>

(* store.put of a record computed from what was scanned, also when an        *)
(* earlier item of this save has put that record already.                    *)
Put(j) ==
    /\ pc[j] = "put"
    /\ plan[j][Namespace(j)] # <<>>
    /\ Writes(Item(j), snap[j][Namespace(j)])
    /\ ~closed[ProcOf[j]]
    /\ PutRecord(j, Written(j, Namespace(j), Item(j), snap[j][Namespace(j)]))
    /\ UNCHANGED <<lock, pc, cursor, snap, tracked, proc, closed, blind>>

(* store.put raises: the exception is printed and the other puts are skipped. *)
PutFails(j) ==
    /\ pc[j] = "put"
    /\ plan[j][Namespace(j)] # <<>>
    /\ Writes(Item(j), snap[j][Namespace(j)])
    /\ closed[ProcOf[j]] \/ "put" \in Faults
    /\ LeaveBlock(j)
    /\ UNCHANGED <<store, lock, snap, plan, tracked, proc, closed, blind, turn>>

(* The loop over the items of a namespace has ended.                         *)
NextNamespace(j) ==
    /\ pc[j] = "put"
    /\ plan[j][Namespace(j)] = <<>>
    /\ Advance(j, "unlock")
    /\ UNCHANGED <<store, lock, snap, plan, tracked, proc, closed, blind, turn>>

(* Leaving the with statement releases the locks in reverse order.           *)
Release(j) ==
    LET p == ProcOf[j]  n == cursor[j] IN
    /\ pc[j] = "unlock"
    /\ lock' = [lock EXCEPT ![p][n] = Nobody]
    /\ IF n = 1 THEN pc' = [pc EXCEPT ![j] = "finish"] /\ cursor' = cursor
                ELSE pc' = pc /\ cursor' = [cursor EXCEPT ![j] = @ - 1]
    /\ UNCHANGED <<store, snap, plan, tracked, proc, closed, blind, turn>>

(* The runner's finally clause: the thread takes itself off the tracked set; *)
(* its local variables go with it.                                           *)
Finish(j) ==
    /\ pc[j] = "finish"
    /\ pc' = [pc EXCEPT ![j] = "done"]
    /\ tracked' = [tracked EXCEPT ![ProcOf[j]] = @ \ {j}]
    /\ snap' = [snap EXCEPT ![j] = NothingRead]
    /\ plan' = [plan EXCEPT ![j] = NoPlan]
    /\ blind' = [blind EXCEPT ![j] = {}]
    /\ UNCHANGED <<store, lock, cursor, proc, closed, turn>>

JobStep(j) ==
    \/ Acquire(j) \/ Scan(j) \/ ScanFails(j) \/ AskModel(j) \/ NothingExtracted(j)
    \/ SkipPut(j) \/ Put(j) \/ PutFails(j) \/ NextNamespace(j) \/ Release(j) \/ Finish(j)

----------------------------------------------------------------------------
(* The process.                                                              *)

InFlight(p) == {j \in Jobs : ProcOf[j] = p /\ pc[j] \notin {"unborn", "done"}}

(* The turn is answered (bridge), or the user leaves (main): start waiting.  *)
BeginDrain(p) ==
    /\ proc[p] = "up"
    /\ proc' = [proc EXCEPT ![p] = "draining"]
    /\ UNCHANGED <<store, lock, pc, cursor, snap, plan, tracked, closed, blind, turn>>

(* wait_for_background_jobs finds no tracked thread alive.                   *)
DrainDone(p) ==
    /\ proc[p] = "draining"
    /\ tracked[p] = {}
    /\ proc' = [proc EXCEPT ![p] = "drained"]
    /\ UNCHANGED <<store, lock, pc, cursor, snap, plan, tracked, closed, blind, turn>>

(* Faulty variant, for the mutation runs only: threads are joined without a  *)
(* timeout.                                                                  *)
DrainUnbounded(p) ==
    /\ proc[p] = "draining"
    /\ tracked[p] # {} /\ InFlight(p) = {}
    /\ proc' = [proc EXCEPT ![p] = "expired"]
    /\ UNCHANGED <<store, lock, pc, cursor, snap, plan, tracked, closed, blind, turn>>

(* Its deadline passes while threads are still running.                      *)
DrainExpires(p) ==
    /\ proc[p] = "draining"
    /\ tracked[p] # {}
    /\ proc' = [proc EXCEPT ![p] = "expired"]
    /\ UNCHANGED <<store, lock, pc, cursor, snap, plan, tracked, closed, blind, turn>>

(* close_connections, under whatever is still running: last thing in main's  *)
(* finally clause, after session_end, and in run_bridge before the answer.   *)
CloseConnections(p) ==
    /\ proc[p] \in {"drained", "expired"}
    /\ ~closed[p]
    /\ closed' = [closed EXCEPT ![p] = TRUE]
    /\ UNCHANGED <<store, lock, pc, cursor, snap, plan, tracked, proc, blind, turn>>

(* The process ends and its daemon threads with it.                          *)
Kill(p) ==
    /\ proc' = [proc EXCEPT ![p] = "exited"]
    /\ pc' = [j \in Jobs |-> IF j \in InFlight(p) THEN "killed" ELSE pc[j]]
    /\ lock' = [lock EXCEPT ![p] = [n \in Namespaces |-> Nobody]]
    /\ tracked' = [tracked EXCEPT ![p] = {}]
    /\ UNCHANGED <<store, cursor, snap, plan, closed, blind, turn>>

Exit(p) ==
    /\ proc[p] \in {"drained", "expired"}
    /\ closed[p]
    /\ Kill(p)

(* The process dies before that: killed, left by the exception path of       *)
(* run_bridge, which reports the error and returns without waiting, or by an *)
(* error of session_end in main.                                             *)
Crash(p) ==
    /\ "crash" \in Faults
    /\ proc[p] # "exited"
    /\ Kill(p)

ProcStep(p) == DrainDone(p) \/ DrainExpires(p) \/ CloseConnections(p) \/ Exit(p)

(* Everything has ended. *)
Halted == (\A p \in Procs : proc[p] = "exited") /\ UNCHANGED vars

Next ==
    \/ \E j \in Jobs : Spawn(j) \/ JobStep(j)
    \/ \E p \in Procs : BeginDrain(p) \/ ProcStep(p) \/ Crash(p)
    \/ Halted

Spec == Init /\ [][Next]_vars

(***************************************************************************)
(* Threads are scheduled and model calls return or raise; the wait has a    *)
(* deadline.  No turn has to be spoken, no process has to be left.          *)
(***************************************************************************)
FairSpec == /\ Spec
            /\ \A j \in Jobs : WF_vars(JobStep(j))
            /\ \A p \in Procs : WF_vars(ProcStep(p))

(* The processes alone are fair: a thread may hang for ever in a model call. *)
ProcFairSpec == Spec /\ \A p \in Procs : WF_vars(ProcStep(p))

----------------------------------------------------------------------------
Phases == {"unborn", "lock", "scan", "ask", "put", "unlock", "finish", "done", "killed"}

TypeOK ==
    /\ store \in [Namespaces -> Cell]
    /\ lock \in [Procs -> [Namespaces -> Jobs \union {Nobody}]]
    /\ pc \in [Jobs -> Phases]
    /\ cursor \in [Jobs -> 1 .. 4]
    /\ snap \in [Jobs -> [Namespaces -> Cell]]
    /\ plan \in [Jobs -> Payload]
    /\ tracked \in [Procs -> SUBSET Jobs]
    /\ proc \in [Procs -> {"up", "draining", "drained", "expired", "exited"}]
    /\ closed \in [Procs -> BOOLEAN]
    /\ blind \in [Jobs -> SUBSET Namespaces]
    /\ turn \in [writer : Jobs \union {Nobody}, base : [Namespaces -> Cell],
                over : SUBSET Jobs]

(***************************************************************************)
(* From its first scan to its last put a save holds the four locks of its   *)
(* process, so that no two saves of a process overlap there, whichever      *)
(* order the threads were started in and wherever one of them failed.       *)
(***************************************************************************)
Exclusive ==
    \A j \in Jobs : pc[j] \in {"scan", "ask", "put"} =>
        \A n \in Namespaces : lock[ProcOf[j]][n] = j

(***************************************************************************)
(* No lock outlives the save that took it: a held lock belongs to a thread  *)
(* of that process that is still inside its with statement, also after a    *)
(* failed put, an unparsable answer or the death of the process.            *)
(***************************************************************************)
NoOrphanLock ==
    \A p \in Procs, n \in Namespaces : lock[p][n] # Nobody =>
        /\ ProcOf[lock[p][n]] = p
        /\ pc[lock[p][n]] \in {"lock", "scan", "ask", "put", "unlock"}

(* The namespaces whose record j has read and not yet reached in its puts.   *)
Pending(j) ==
    CASE pc[j] = "scan" -> {n \in Namespaces : n < cursor[j]}
      [] pc[j] = "ask"  -> Namespaces
      [] pc[j] = "put"  -> {PutOrder(i) : i \in cursor[j] .. 4}
      [] OTHER          -> {}

(***************************************************************************)
(* What a save has scanned is still what the other saves left in the store, *)
(* however long the model took and at whichever of its puts it is: only its *)
(* own put of an earlier item may stand in the record it is writing.        *)
(* (It needs one process, and scans that do not fail.)                      *)
(***************************************************************************)
SnapshotFresh ==
    \A j \in Jobs : \A n \in Pending(j) \ blind[j] :
        /\ snap[j][n] = Before(j)[n]
        /\ store[n] # snap[j][n] =>
              pc[j] = "put" /\ n = Namespace(j) /\ turn.writer = j

(* The abstract memory, on the same store. *)
Atomic == INSTANCE AtomicMemory
            WITH writer <- turn.writer, base <- turn.base, over <- turn.over

(***************************************************************************)
(* The saves of one process implement a serial memory: each one writes what *)
(* it computes from the store as its predecessors left it, so that no       *)
(* update of another save to the profile, to a project's decisions or to    *)
(* created_at is lost, and none writes again after its successor.           *)
(***************************************************************************)
ImplementsAtomicMemory == Atomic!Spec

(***************************************************************************)
(* A drain that ended because nothing was tracked any more left no save     *)
(* behind: the exit that follows kills no thread.                           *)
(***************************************************************************)
NothingKilledAfterDrain ==
    [][\A j \in Jobs : pc'[j] = "killed" /\ pc[j] # "killed"
            => proc[ProcOf[j]] # "drained"]_vars

(***************************************************************************)
(* Taking four locks one after the other never blocks the saves for ever:   *)
(* each one ends, or dies with its process.                                 *)
(***************************************************************************)
SaveFinishes == \A j \in Jobs : pc[j] = "lock" ~> pc[j] \in {"done", "killed"}

(***************************************************************************)
(* A process that has begun to shut down exits, even when a save hangs in   *)
(* a model call with the locks in its hands.                                *)
(***************************************************************************)
ShutdownEnds == \A p \in Procs : proc[p] = "draining" ~> proc[p] = "exited"
============================================================================
