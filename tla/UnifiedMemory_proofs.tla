------------------------ MODULE UnifiedMemory_proofs ------------------------
(***************************************************************************)
(* Proofs about the unified memory pipeline, for every set of saves,        *)
(* processes, payloads and faults.                                          *)
(***************************************************************************)
EXTENDS UnifiedMemory, TLAPS

(* Which locks of its process a save holds at each control point.            *)
HoldsExactly(j, S) ==
    \A n \in Namespaces : lock[ProcOf[j]][n] = j <=> n \in S

JobLocks(j) ==
    /\ pc[j] = "lock" => HoldsExactly(j, {n \in Namespaces : n < cursor[j]})
    /\ pc[j] \in {"scan", "ask", "put"} => HoldsExactly(j, Namespaces)
    /\ pc[j] = "unlock" => HoldsExactly(j, {n \in Namespaces : n <= cursor[j]})
    /\ pc[j] \in {"unborn", "finish", "done", "killed"} => HoldsExactly(j, {})
    /\ pc[j] = "unborn" => cursor[j] = 1

LockInv ==
    /\ \A j \in Jobs : JobLocks(j)
    /\ \A p \in Procs, n \in Namespaces :
          lock[p][n] # Nobody => ProcOf[lock[p][n]] = p

(* Saves of one process only.                                                *)
SingleProcess == \A j, k \in Jobs : ProcOf[j] = ProcOf[k]

(* A save's turn to write begins after its question to the model, and is     *)
(* over only when the save puts no more.                                     *)
TurnInv ==
    \A j \in Jobs :
        /\ pc[j] \in {"unborn", "lock", "scan", "ask"} => turn.writer # j
        /\ pc[j] \in {"unborn", "lock", "scan", "ask", "put"} => j \notin turn.over
(* Scans fail only once the process has closed its connections.              *)
BlindInv == \A j \in Jobs : blind[j] # {} => closed[ProcOf[j]]

(* A save in flight is tracked, and a drained process tracks nothing.        *)
TrackInv ==
    /\ \A j \in Jobs : pc[j] \notin {"unborn", "done", "killed"} => j \in tracked[ProcOf[j]]
    /\ \A p \in Procs : proc[p] = "drained" => tracked[p] = {}

----------------------------------------------------------------------------
(* The record a save computes is a record. *)
LEMMA WrittenType ==
    ASSUME NEW j \in Jobs, NEW n \in Namespaces, NEW verb \in Verb, NEW old \in Cell
    PROVE  Written(j, n, verb, old) \in Cell
BY DEF Written, Contributions, Cell, Record

LEMMA PutOrderType == \A i \in 1 .. 4 : PutOrder(i) \in Namespaces
BY DEF PutOrder, Namespaces, Facts, Profile

LEMMA EmptyPlan == NoPlan \in Payload
<1>1. \A n \in Namespaces : Verbs(n) \subseteq Verb
  BY DEF Verbs, Verb, Namespaces, Facts, Profile, Projects, Tasks
<1>2. \A n \in Namespaces : NoPlan[n] = <<>> /\ NoPlan[n] \in Seq(Verb) /\ NoPlan[n] \in Seq(Verbs(n))
  BY DEF NoPlan
<1>3. NoPlan \in [Namespaces -> Seq(Verb)]
  BY <1>2 DEF NoPlan
<1>4. Len(NoPlan[Profile]) <= 1
  <2>1. Profile \in Namespaces
    BY DEF Profile, Namespaces
  <2> QED
    BY <1>2, <2>1
<1> QED
  BY <1>2, <1>3, <1>4 DEF Payload

(* The item a save has come to is one that its namespace knows, and what is  *)
(* left of the payload behind it is a payload.                               *)
LEMMA ItemType ==
    ASSUME TypeOK, NEW j \in Jobs, plan[j][Namespace(j)] # <<>>
    PROVE  /\ Namespace(j) \in Namespaces
           /\ Item(j) \in Verbs(Namespace(j))
           /\ Item(j) \in Verb
           /\ [plan EXCEPT ![j][Namespace(j)] = Tail(@)] \in [Jobs -> Payload]
<1> DEFINE n == Namespace(j)
           p == plan[j]
           q == [p EXCEPT ![n] = Tail(@)]
<1>1. n \in Namespaces
  BY PutOrderType DEF Namespace, TypeOK
<1>2. p \in Payload
  BY DEF TypeOK
<1>3. /\ p \in [Namespaces -> Seq(Verb)]
      /\ \A m \in Namespaces : p[m] \in Seq(Verbs(m))
      /\ Len(p[Profile]) <= 1
  BY <1>2 DEF Payload
<1>4. p[n] \in Seq(Verb) /\ p[n] \in Seq(Verbs(n)) /\ p[n] # <<>>
  BY <1>1, <1>3
<1>5. Item(j) = Head(p[n])
  BY DEF Item
<1>6. Head(p[n]) \in Verb /\ Head(p[n]) \in Verbs(n)
  <2>1. Head(p[n]) \in Verb
    BY <1>4
  <2>2. Head(p[n]) \in Verbs(n)
    BY <1>4
  <2> QED
    BY <2>1, <2>2
<1>7. Tail(p[n]) \in Seq(Verb) /\ Tail(p[n]) \in Seq(Verbs(n))
  <2>1. Tail(p[n]) \in Seq(Verb)
    BY <1>4
  <2>2. Tail(p[n]) \in Seq(Verbs(n))
    BY <1>4
  <2> QED
    BY <2>1, <2>2
<1>8. Len(Tail(p[n])) = Len(p[n]) - 1 /\ Len(p[n]) \in Nat
  BY <1>4
<1>9. q \in Payload
  <2>1. q \in [Namespaces -> Seq(Verb)]
    BY <1>1, <1>3, <1>7
  <2>2. \A m \in Namespaces : q[m] \in Seq(Verbs(m))
    BY <1>1, <1>3, <1>7
  <2>3. Len(q[Profile]) <= 1
    <3>1. Profile \in Namespaces
      BY DEF Profile, Namespaces
    <3>2. q[Profile] = IF Profile = n THEN Tail(p[n]) ELSE p[Profile]
      BY <1>3, <3>1
    <3>3. CASE Profile = n
      BY <1>3, <1>8, <3>2, <3>3
    <3>4. CASE Profile # n
      BY <1>3, <3>2, <3>4
    <3> QED
      BY <3>3, <3>4
  <2> QED
    BY <2>1, <2>2, <2>3 DEF Payload
<1>10. [plan EXCEPT ![j] = q] \in [Jobs -> Payload]
  BY <1>9 DEF TypeOK
<1>11. [plan EXCEPT ![j][n] = Tail(@)] = [plan EXCEPT ![j] = q]
  OBVIOUS
<1> QED
  BY <1>1, <1>5, <1>6, <1>10, <1>11

(* The store as it was before a save's own puts is a store.                  *)
LEMMA BeforeType ==
    ASSUME TypeOK, NEW j \in Jobs
    PROVE  Before(j) \in [Namespaces -> Cell]
<1>1. turn.base \in [Namespaces -> Cell] /\ store \in [Namespaces -> Cell]
  BY DEF TypeOK
<1> QED
  BY <1>1 DEF Before

LEMMA AdvanceType ==
    ASSUME pc \in [Jobs -> Phases], cursor \in [Jobs -> 1 .. 4],
           NEW j \in Jobs, NEW next \in Phases, Advance(j, next)
    PROVE  pc' \in [Jobs -> Phases] /\ cursor' \in [Jobs -> 1 .. 4]
<1>1. CASE cursor[j] = 4
  BY <1>1 DEF Advance
<1>2. CASE cursor[j] # 4
  <2>1. cursor[j] + 1 \in 1 .. 4
    BY <1>2
  <2> QED
    BY <1>2, <2>1 DEF Advance
<1> QED
  BY <1>1, <1>2

(* Every reachable state is well typed; in particular the payloads and the   *)
(* records keep their shape through any sequence of saves and faults.        *)
THEOREM TypeCorrect == Spec => []TypeOK
<1>1. Init => TypeOK
  BY MemoryAssumption, EmptyPlan
     DEF Init, TypeOK, Cell, Phases, NothingRead, Namespaces
<1>2. TypeOK /\ [Next]_vars => TypeOK'
  <2> SUFFICES ASSUME TypeOK, [Next]_vars PROVE TypeOK'
    OBVIOUS
  <2> USE MemoryAssumption DEF TypeOK, Phases
  <2>a. Namespaces = 1 .. 4
    BY DEF Namespaces
  <2>1. ASSUME NEW j \in Jobs, Spawn(j) PROVE TypeOK'
    BY <2>1 DEF Spawn
  <2>2. ASSUME NEW j \in Jobs, Acquire(j) PROVE TypeOK'
    <3>1. lock' \in [Procs -> [Namespaces -> Jobs \union {Nobody}]]
      BY <2>2, <2>a DEF Acquire
    <3> QED
      BY <2>2, <3>1, AdvanceType DEF Acquire
  <2>3. ASSUME NEW j \in Jobs, Scan(j) PROVE TypeOK'
    <3>1. snap' \in [Jobs -> [Namespaces -> Cell]]
      BY <2>3, <2>a DEF Scan
    <3> QED
      BY <2>3, <3>1, AdvanceType DEF Scan
  <2>4. ASSUME NEW j \in Jobs, ScanFails(j) PROVE TypeOK'
    <3>1. /\ snap' \in [Jobs -> [Namespaces -> Cell]]
          /\ blind' \in [Jobs -> SUBSET Namespaces]
      BY <2>4, <2>a DEF ScanFails, Cell
    <3> QED
      BY <2>4, <3>1, AdvanceType DEF ScanFails
  <2>5. ASSUME NEW j \in Jobs, AskModel(j) PROVE TypeOK'
    BY <2>5 DEF AskModel
  <2>6. ASSUME NEW j \in Jobs, NothingExtracted(j) PROVE TypeOK'
    BY <2>6 DEF NothingExtracted, LeaveBlock
  <2>7. ASSUME NEW j \in Jobs, SkipPut(j) PROVE TypeOK'
    <3>1. plan' \in [Jobs -> Payload]
      BY <2>7, ItemType DEF SkipPut
    <3> QED
      BY <2>7, <3>1 DEF SkipPut
  <2>8. ASSUME NEW j \in Jobs, Put(j) PROVE TypeOK'
    <3> DEFINE n == Namespace(j)
    <3>1. n \in Namespaces /\ Item(j) \in Verb /\ plan' \in [Jobs -> Payload]
      BY <2>8, ItemType DEF Put, PutRecord
    <3>2. snap[j][n] \in Cell
      BY <3>1
    <3>3. Written(j, n, Item(j), snap[j][n]) \in Cell
      BY <3>1, <3>2, WrittenType
    <3>4. store' \in [Namespaces -> Cell]
      BY <2>8, <3>1, <3>3 DEF Put, PutRecord
    <3>5. turn' \in [writer : Jobs \union {Nobody}, base : [Namespaces -> Cell], over : SUBSET Jobs]
      <4>1. Before(j) \in [Namespaces -> Cell]
        BY BeforeType
      <4>2. turn.over \union ({turn.writer} \ {j, Nobody}) \in SUBSET Jobs
        OBVIOUS
      <4> QED
        BY <2>8, <4>1, <4>2 DEF Put, PutRecord
    <3> QED
      BY <2>8, <3>1, <3>4, <3>5 DEF Put
  <2>9. ASSUME NEW j \in Jobs, PutFails(j) PROVE TypeOK'
    BY <2>9 DEF PutFails, LeaveBlock
  <2>15. ASSUME NEW j \in Jobs, NextNamespace(j) PROVE TypeOK'
    BY <2>15, AdvanceType DEF NextNamespace
  <2>10. ASSUME NEW j \in Jobs, Release(j) PROVE TypeOK'
    <3>1. lock' \in [Procs -> [Namespaces -> Jobs \union {Nobody}]]
      BY <2>10, <2>a DEF Release
    <3>2. pc' \in [Jobs -> Phases] /\ cursor' \in [Jobs -> 1 .. 4]
      <4>1. CASE cursor[j] = 1
        BY <2>10, <4>1 DEF Release
      <4>2. CASE cursor[j] # 1
        <5>1. cursor[j] - 1 \in 1 .. 4
          BY <4>2
        <5>2. pc' = pc /\ cursor' = [cursor EXCEPT ![j] = cursor[j] - 1]
          BY <2>10, <4>2 DEF Release
        <5>3. cursor' \in [Jobs -> 1 .. 4]
          BY <5>1, <5>2
        <5> QED
          BY <5>2, <5>3
      <4> QED
        BY <4>1, <4>2
    <3> QED
      BY <2>10, <3>1, <3>2 DEF Release
  <2>11. ASSUME NEW j \in Jobs, Finish(j) PROVE TypeOK'
    BY <2>11, EmptyPlan DEF Finish, NothingRead, Cell
  <2>12. ASSUME NEW p \in Procs,
                BeginDrain(p) \/ DrainDone(p) \/ DrainExpires(p) \/ CloseConnections(p)
         PROVE  TypeOK'
    BY <2>12 DEF BeginDrain, DrainDone, DrainExpires, CloseConnections
  <2>13. ASSUME NEW p \in Procs, Exit(p) \/ Crash(p) PROVE TypeOK'
    <3>1. Kill(p)
      BY <2>13 DEF Exit, Crash
    <3>2. pc' \in [Jobs -> Phases]
      BY <3>1 DEF Kill
    <3>3. lock' \in [Procs -> [Namespaces -> Jobs \union {Nobody}]]
      BY <3>1 DEF Kill
    <3> QED
      BY <3>1, <3>2, <3>3 DEF Kill
  <2>14. CASE UNCHANGED vars
    BY <2>14 DEF vars
  <2> QED
    BY <2>1, <2>2, <2>3, <2>4, <2>5, <2>6, <2>7, <2>8, <2>9, <2>10, <2>11, <2>12,
       <2>13, <2>14, <2>15 DEF Next, JobStep, ProcStep, Halted
<1> QED
  BY <1>1, <1>2, PTL DEF Spec

----------------------------------------------------------------------------
(* A step of one save that leaves another save's control point and its locks *)
(* alone keeps what is known about the locks of that other save.             *)
LEMMA OtherLocks ==
    ASSUME NEW k \in Jobs, JobLocks(k), pc'[k] = pc[k], cursor'[k] = cursor[k],
           \A n \in Namespaces : lock'[ProcOf[k]][n] = k <=> lock[ProcOf[k]][n] = k
    PROVE  JobLocks(k)'
BY DEF JobLocks, HoldsExactly

LEMMA LockStep == TypeOK /\ LockInv /\ [Next]_vars => LockInv'
<1> SUFFICES ASSUME TypeOK, LockInv, [Next]_vars PROVE LockInv'
  OBVIOUS
<1> USE MemoryAssumption DEF TypeOK, LockInv
<1>a. Namespaces = 1 .. 4
  BY DEF Namespaces
<1>b. \A k \in Jobs : ProcOf[k] \in Procs /\ k # Nobody
  OBVIOUS
<1>c. \A p \in Procs, m \in Namespaces : lock[p][m] # Nobody => ProcOf[lock[p][m]] = p
  OBVIOUS
<1>1. ASSUME NEW j \in Jobs, Acquire(j) PROVE LockInv'
  <2> DEFINE n == cursor[j]
  <2>1. /\ n \in Namespaces
        /\ lock[ProcOf[j]][n] = Nobody
        /\ \A p \in Procs, m \in Namespaces :
              lock'[p][m] = IF p = ProcOf[j] /\ m = n THEN j ELSE lock[p][m]
    BY <1>1, <1>a DEF Acquire
  <2>2. \A k \in Jobs \ {j} : pc'[k] = pc[k] /\ cursor'[k] = cursor[k]
    BY <1>1 DEF Acquire, Advance
  <2>3. \A k \in Jobs \ {j} : JobLocks(k)'
    <3> SUFFICES ASSUME NEW k \in Jobs \ {j} PROVE JobLocks(k)'
      OBVIOUS
    <3>1. \A m \in Namespaces : lock'[ProcOf[k]][m] = k <=> lock[ProcOf[k]][m] = k
      BY <2>1
    <3> QED
      BY <2>2, <3>1, OtherLocks
  <2>4. \A m \in Namespaces : lock'[ProcOf[j]][m] = j <=> m <= n
    <3>1. pc[j] = "lock"
      BY <1>1 DEF Acquire
    <3>2. \A m \in Namespaces : lock[ProcOf[j]][m] = j <=> m < n
      BY <3>1 DEF JobLocks, HoldsExactly
    <3> QED
      BY <2>1, <3>2, <1>a
  <2>5. JobLocks(j)'
    <3>1. CASE n = 4
      <4>1. pc'[j] = "scan"
        BY <1>1, <3>1 DEF Acquire, Advance
      <4> QED
        BY <2>4, <3>1, <4>1, <1>a DEF JobLocks, HoldsExactly
    <3>2. CASE n # 4
      <4>1. pc'[j] = "lock" /\ cursor'[j] = n + 1
        BY <1>1, <3>2 DEF Acquire, Advance
      <4>2. \A m \in Namespaces : m <= n <=> m < n + 1
        BY <1>a, <2>1
      <4>3. HoldsExactly(j, {m \in Namespaces : m < cursor[j]})'
        BY <2>4, <4>1, <4>2 DEF HoldsExactly
      <4> QED
        BY <4>1, <4>3 DEF JobLocks
    <3> QED
      BY <3>1, <3>2
  <2>6. \A p \in Procs, m \in Namespaces : lock'[p][m] # Nobody => ProcOf[lock'[p][m]] = p
    <3> SUFFICES ASSUME NEW p \in Procs, NEW m \in Namespaces, lock'[p][m] # Nobody
                 PROVE  ProcOf[lock'[p][m]] = p
      OBVIOUS
    <3>1. (lock'[p][m] = j /\ p = ProcOf[j]) \/ lock'[p][m] = lock[p][m]
      BY <2>1
    <3> QED
      BY <3>1, <1>c
  <2> QED
    BY <2>3, <2>5, <2>6
<1>2. ASSUME NEW j \in Jobs, Release(j) PROVE LockInv'
  <2> DEFINE n == cursor[j]
  <2>1. /\ n \in Namespaces
        /\ \A p \in Procs, m \in Namespaces :
              lock'[p][m] = IF p = ProcOf[j] /\ m = n THEN Nobody ELSE lock[p][m]
    BY <1>2, <1>a DEF Release
  <2>2. \A m \in Namespaces : lock[ProcOf[j]][m] = j <=> m <= n
    <3>1. pc[j] = "unlock"
      BY <1>2 DEF Release
    <3> QED
      BY <3>1 DEF JobLocks, HoldsExactly
  <2>3. \A k \in Jobs \ {j} : pc'[k] = pc[k] /\ cursor'[k] = cursor[k]
    BY <1>2 DEF Release
  <2>4. \A k \in Jobs \ {j} : JobLocks(k)'
    <3> SUFFICES ASSUME NEW k \in Jobs \ {j} PROVE JobLocks(k)'
      OBVIOUS
    <3>1. lock[ProcOf[j]][n] = j
      BY <2>1, <2>2, <1>a
    <3>2. ASSUME NEW m \in Namespaces
          PROVE  lock'[ProcOf[k]][m] = k <=> lock[ProcOf[k]][m] = k
      <4>1. CASE ProcOf[k] = ProcOf[j] /\ m = n
        BY <2>1, <3>1, <4>1, <1>b
      <4>2. CASE ~ (ProcOf[k] = ProcOf[j] /\ m = n)
        BY <2>1, <4>2, <1>b
      <4> QED
        BY <4>1, <4>2
    <3> QED
      BY <2>3, <3>2, OtherLocks
  <2>5. \A m \in Namespaces : lock'[ProcOf[j]][m] = j <=> m < n
    BY <2>1, <2>2, <1>a
  <2>6. JobLocks(j)'
    <3>1. CASE n = 1
      <4>1. pc'[j] = "finish"
        BY <1>2, <3>1 DEF Release
      <4> QED
        BY <2>5, <3>1, <4>1, <1>a DEF JobLocks, HoldsExactly
    <3>2. CASE n # 1
      <4>1. pc'[j] = "unlock" /\ cursor'[j] = n - 1
        BY <1>2, <3>2 DEF Release
      <4>2. \A m \in Namespaces : m < n <=> m <= n - 1
        BY <1>a, <2>1
      <4>3. HoldsExactly(j, {m \in Namespaces : m <= cursor[j]})'
        BY <2>5, <4>1, <4>2 DEF HoldsExactly
      <4> QED
        BY <4>1, <4>3 DEF JobLocks
    <3> QED
      BY <3>1, <3>2
  <2>7. \A p \in Procs, m \in Namespaces : lock'[p][m] # Nobody => ProcOf[lock'[p][m]] = p
    BY <2>1
  <2> QED
    BY <2>4, <2>6, <2>7
<1>3. ASSUME NEW p \in Procs, Exit(p) \/ Crash(p) PROVE LockInv'
  <2>1. Kill(p)
    BY <1>3 DEF Exit, Crash
  <2>2. \A q \in Procs : lock'[q] = IF q = p THEN [n \in Namespaces |-> Nobody] ELSE lock[q]
    BY <2>1 DEF Kill
  <2>3. \A k \in Jobs : cursor'[k] = cursor[k]
                       /\ pc'[k] = IF k \in InFlight(p) THEN "killed" ELSE pc[k]
    BY <2>1 DEF Kill
  <2>4. ASSUME NEW k \in Jobs PROVE JobLocks(k)'
    <3>1. CASE ProcOf[k] = p
      <4>1. \A n \in Namespaces : lock'[ProcOf[k]][n] # k
        BY <2>2, <3>1
      <4>2. pc'[k] \in {"unborn", "done", "killed"} /\ (pc'[k] = "unborn" => pc[k] = "unborn")
        BY <2>3, <3>1 DEF InFlight
      <4> QED
        BY <2>3, <4>1, <4>2 DEF JobLocks, HoldsExactly
    <3>2. CASE ProcOf[k] # p
      BY <2>2, <2>3, <3>2, OtherLocks DEF InFlight
    <3> QED
      BY <3>1, <3>2
  <2>5. \A q \in Procs, m \in Namespaces : lock'[q][m] # Nobody => ProcOf[lock'[q][m]] = q
    <3> SUFFICES ASSUME NEW q \in Procs, NEW m \in Namespaces, lock'[q][m] # Nobody
                 PROVE  ProcOf[lock'[q][m]] = q
      OBVIOUS
    <3>1. lock'[q][m] = lock[q][m]
      BY <2>2
    <3> QED
      BY <3>1, <1>c
  <2> QED
    BY <2>4, <2>5
<1>4. ASSUME NEW j \in Jobs,
             \/ Spawn(j) \/ Scan(j) \/ ScanFails(j) \/ AskModel(j) \/ NothingExtracted(j)
             \/ SkipPut(j) \/ Put(j) \/ PutFails(j) \/ NextNamespace(j) \/ Finish(j)
      PROVE  LockInv'
  <2>1. lock' = lock
    BY <1>4 DEF Spawn, Scan, ScanFails, AskModel, NothingExtracted, SkipPut, Put, PutRecord,
                PutFails, NextNamespace, Finish
  <2>2. \A k \in Jobs \ {j} : pc'[k] = pc[k] /\ cursor'[k] = cursor[k]
    BY <1>4 DEF Spawn, Scan, ScanFails, AskModel, NothingExtracted, SkipPut, Put, PutRecord,
                PutFails, NextNamespace, Finish, Advance, LeaveBlock
  <2>3. \/ pc[j] = "unborn" /\ pc'[j] = "lock" /\ cursor'[j] = cursor[j]
        \/ pc[j] \in {"scan", "ask", "put"} /\ pc'[j] \in {"scan", "ask", "put"}
        \/ pc[j] \in {"ask", "put"} /\ pc'[j] = "unlock" /\ cursor'[j] = 4
        \/ pc[j] = "finish" /\ pc'[j] = "done"
    BY <1>4 DEF Spawn, Scan, ScanFails, AskModel, NothingExtracted, SkipPut, Put, PutRecord,
                PutFails, NextNamespace, Finish, Advance, LeaveBlock
  <2>4. JobLocks(j)'
    BY <2>1, <2>3, <1>a DEF JobLocks, HoldsExactly
  <2>5. \A k \in Jobs \ {j} : JobLocks(k)'
    BY <2>1, <2>2, OtherLocks
  <2> QED
    BY <2>1, <2>4, <2>5
<1>5. ASSUME NEW p \in Procs,
             \/ BeginDrain(p) \/ DrainDone(p) \/ DrainExpires(p) \/ CloseConnections(p)
      PROVE  LockInv'
  BY <1>5 DEF BeginDrain, DrainDone, DrainExpires, CloseConnections, JobLocks, HoldsExactly
<1>6. CASE UNCHANGED vars
  BY <1>6 DEF vars, JobLocks, HoldsExactly
<1> QED
  BY <1>1, <1>2, <1>3, <1>4, <1>5, <1>6 DEF Next, JobStep, ProcStep, Halted

LEMMA LockInvariant == Spec => []LockInv
<1>1. Init => LockInv
  BY MemoryAssumption DEF Init, LockInv, JobLocks, HoldsExactly
<1> QED
  BY <1>1, LockStep, TypeCorrect, PTL DEF Spec

(* From the first scan to the last put a save holds its four locks.          *)
THEOREM SavesAreExclusive == Spec => []Exclusive
<1>1. LockInv => Exclusive
  BY DEF LockInv, JobLocks, HoldsExactly, Exclusive
<1> QED
  BY <1>1, LockInvariant, PTL

(* No failure of a save and no death of a process leaves a lock behind.      *)
THEOREM LocksAreReleased == Spec => []NoOrphanLock
<1>1. TypeOK /\ LockInv => NoOrphanLock
  <2> SUFFICES ASSUME TypeOK, LockInv, NEW p \in Procs, NEW n \in Namespaces,
                      lock[p][n] # Nobody
               PROVE  /\ ProcOf[lock[p][n]] = p
                      /\ pc[lock[p][n]] \in {"lock", "scan", "ask", "put", "unlock"}
    BY DEF NoOrphanLock
  <2> DEFINE j == lock[p][n]
  <2>1. j \in Jobs /\ ProcOf[j] = p
    BY DEF TypeOK, LockInv
  <2>2. pc[j] \notin {"unborn", "finish", "done", "killed"}
    BY <2>1 DEF LockInv, JobLocks, HoldsExactly
  <2>3. pc[j] \in Phases
    BY <2>1 DEF TypeOK
  <2> QED
    BY <2>1, <2>2, <2>3 DEF Phases
<1> QED
  BY <1>1, LockInvariant, TypeCorrect, PTL

----------------------------------------------------------------------------
(* Two saves of one process are never both between scan and put.             *)
LEMMA OneAtATime ==
    ASSUME TypeOK, LockInv, SingleProcess, NEW j \in Jobs, NEW k \in Jobs, j # k,
           pc[j] \in {"scan", "ask", "put"}
    PROVE  pc[k] \notin {"scan", "ask", "put"}
<1>1. ProcOf[j] = ProcOf[k] /\ 1 \in Namespaces
  BY DEF SingleProcess, Namespaces
<1>2. lock[ProcOf[j]][1] = j
  BY <1>1 DEF LockInv, JobLocks, HoldsExactly
<1>3. pc[k] \in {"scan", "ask", "put"} => lock[ProcOf[k]][1] = k
  BY <1>1 DEF LockInv, JobLocks, HoldsExactly
<1> QED
  BY <1>1, <1>2, <1>3

(* The namespaces are put in an order without repetition.                    *)
LEMMA PutOrderInjective ==
    \A i, k \in 1 .. 4 : PutOrder(i) = PutOrder(k) => i = k
BY DEF PutOrder, Facts, Profile

LEMMA TurnStep ==
    ASSUME TypeOK, LockInv, SingleProcess, TurnInv, [Next]_vars
    PROVE  TurnInv'
<1> USE MemoryAssumption DEF TypeOK
<1> DEFINE Early == {"unborn", "lock", "scan", "ask"}
           Open == {"unborn", "lock", "scan", "ask", "put"}
<1>a. \A k \in Jobs : /\ pc[k] \in Early => turn.writer # k
                      /\ pc[k] \in Open => k \notin turn.over
  BY DEF TurnInv
(* A step that leaves the turn alone and moves saves only forwards keeps it. *)
<1>b. ASSUME turn' = turn,
             \A k \in Jobs : (pc'[k] \in Early => pc[k] \in Early) /\ (pc'[k] \in Open => pc[k] \in Open)
      PROVE  TurnInv'
  BY <1>a, <1>b DEF TurnInv
<1>1. ASSUME NEW j \in Jobs, Put(j) PROVE TurnInv'
  <2>1. /\ pc[j] = "put" /\ pc' = pc
        /\ turn'.writer = j
        /\ turn'.over = turn.over \union ({turn.writer} \ {j, Nobody})
    BY <1>1 DEF Put, PutRecord
  <2>2. ASSUME NEW k \in Jobs, pc[k] \in Open PROVE k \notin turn'.over
    <3>1. k = turn.writer => k = j
      <4>1. CASE pc[k] = "put"
        BY <2>1, <4>1, OneAtATime
      <4>2. CASE pc[k] # "put"
        BY <1>a, <2>2, <4>2
      <4> QED
        BY <4>1, <4>2
    <3> QED
      BY <1>a, <2>1, <2>2, <3>1
  <2>3. ASSUME NEW k \in Jobs, pc[k] \in Early PROVE turn'.writer # k
    BY <2>1, <2>3
  <2> QED
    BY <2>1, <2>2, <2>3 DEF TurnInv
<1>2. ASSUME NEW j \in Jobs, Spawn(j) \/ JobStep(j), ~ Put(j) PROVE TurnInv'
  <2>1. turn' = turn /\ \A k \in Jobs \ {j} : pc'[k] = pc[k]
    BY <1>2 DEF JobStep, Spawn, Acquire, Scan, ScanFails, AskModel, NothingExtracted, SkipPut,
                PutFails, NextNamespace, Release, Finish, Advance, LeaveBlock
  <2>2. (pc'[j] \in Early => pc[j] \in Early) /\ (pc'[j] \in Open => pc[j] \in Open)
    BY <1>2 DEF JobStep, Spawn, Acquire, Scan, ScanFails, AskModel, NothingExtracted, SkipPut,
                PutFails, NextNamespace, Release, Finish, Advance, LeaveBlock
  <2> QED
    BY <2>1, <2>2, <1>b
<1>3. ASSUME NEW p \in Procs, BeginDrain(p) \/ ProcStep(p) \/ Crash(p) PROVE TurnInv'
  <2>1. turn' = turn /\ \A k \in Jobs : pc'[k] = pc[k] \/ pc'[k] = "killed"
    BY <1>3 DEF BeginDrain, ProcStep, DrainDone, DrainExpires, CloseConnections, Exit, Crash, Kill
  <2> QED
    BY <2>1, <1>b
<1>4. CASE UNCHANGED vars
  <2>1. turn' = turn /\ pc' = pc
    BY <1>4 DEF vars
  <2> QED
    BY <2>1, <1>b
<1> QED
  BY <1>1, <1>2, <1>3, <1>4 DEF Next, Halted

LEMMA TurnInvariant ==
    ASSUME SingleProcess
    PROVE  Spec => []TurnInv
<1>1. Init => TurnInv
  <2> SUFFICES ASSUME Init PROVE TurnInv
    OBVIOUS
  <2>1. turn.writer = Nobody /\ turn.over = {}
    BY DEF Init
  <2> QED
    BY <2>1, MemoryAssumption DEF TurnInv
<1>2. TypeOK /\ LockInv /\ TurnInv /\ [Next]_vars => TurnInv'
  BY TurnStep
<1> QED
  BY <1>1, <1>2, TypeCorrect, LockInvariant, PTL DEF Spec

(* What SnapshotFresh says of one save.                                      *)
FreshFor(k) ==
    \A n \in Pending(k) \ blind[k] :
        /\ snap[k][n] = Before(k)[n]
        /\ store[n] # snap[k][n] => pc[k] = "put" /\ n = Namespace(k) /\ turn.writer = k

(* What is pending is a namespace.                                           *)
LEMMA PendingType ==
    ASSUME TypeOK, NEW k \in Jobs
    PROVE  Pending(k) \subseteq Namespaces
<1>1. cursor[k] \in 1 .. 4
  BY DEF TypeOK
<1>2. \A i \in cursor[k] .. 4 : i \in 1 .. 4
  BY <1>1
<1>3. \A i \in cursor[k] .. 4 : PutOrder(i) \in Namespaces
  BY <1>2, PutOrderType
<1> QED
  BY <1>3 DEF Pending

LEMMA FreshStep ==
    ASSUME TypeOK, LockInv, SingleProcess, TurnInv, SnapshotFresh, [Next]_vars
    PROVE  SnapshotFresh'
<1> USE DEF TypeOK
<1>a. Namespaces = 1 .. 4
  BY DEF Namespaces
<1>f. \A k \in Jobs : FreshFor(k)
  BY DEF SnapshotFresh, FreshFor
<1>g. ASSUME \A k \in Jobs : FreshFor(k)' PROVE SnapshotFresh'
  BY <1>g DEF SnapshotFresh, FreshFor
(* A step that keeps the store and a save's position keeps its freshness,    *)
(* and so does one by which the save has less to write.                      *)
<1>b. ASSUME NEW k \in Jobs, store' = store, turn' = turn, snap'[k] = snap[k],
             blind'[k] = blind[k], pc'[k] = pc[k], cursor'[k] = cursor[k]
      PROVE  FreshFor(k)'
  <2>1. Pending(k)' = Pending(k) /\ Before(k)' = Before(k) /\ Namespace(k)' = Namespace(k)
    BY <1>b DEF Pending, Before, Namespace
  <2> QED
    BY <1>b, <2>1, <1>f DEF FreshFor
<1>c. ASSUME NEW k \in Jobs, Pending(k)' = {} PROVE FreshFor(k)'
  BY <1>c DEF FreshFor
<1>1. ASSUME NEW j \in Jobs, Scan(j) \/ ScanFails(j) PROVE SnapshotFresh'
  <2> DEFINE n == cursor[j]
  <2>1. store' = store /\ turn' = turn /\ pc[j] = "scan" /\ n \in Namespaces
    BY <1>1, <1>a DEF Scan, ScanFails
  <2>2. Pending(j)' \subseteq Pending(j) \union {n}
    <3>1. CASE n = 4
      <4>1. pc'[j] = "ask"
        BY <1>1, <3>1 DEF Scan, ScanFails, Advance
      <4> QED
        BY <2>1, <3>1, <4>1, <1>a DEF Pending
    <3>2. CASE n # 4
      <4>1. pc'[j] = "scan" /\ cursor'[j] = n + 1
        BY <1>1, <2>1, <3>2 DEF Scan, ScanFails, Advance
      <4>2. \A m \in Namespaces : m < n + 1 => m < n \/ m = n
        BY <1>a, <2>1
      <4> QED
        BY <2>1, <4>1, <4>2 DEF Pending
    <3> QED
      BY <3>1, <3>2
  <2>3. Before(j) = store /\ Before(j)' = store
    <3>1. turn.writer # j
      BY <2>1 DEF TurnInv
    <3> QED
      BY <2>1, <3>1 DEF Before
  <2>4. ASSUME NEW m \in Pending(j)', m \notin blind'[j]
        PROVE  snap'[j][m] = store[m]
    <3>1. m \in Namespaces
      BY <2>1, <2>2, <2>4, PendingType
    <3>2. CASE m = n
      BY <1>1, <2>4, <3>1, <3>2 DEF Scan, ScanFails
    <3>3. CASE m # n
      <4>1. snap'[j][m] = snap[j][m] /\ m \notin blind[j]
        BY <1>1, <2>4, <3>1, <3>3 DEF Scan, ScanFails
      <4>2. snap[j][m] = Before(j)[m]
        BY <2>2, <2>4, <3>3, <4>1, <1>f DEF FreshFor
      <4> QED
        BY <2>3, <4>1, <4>2
    <3> QED
      BY <3>2, <3>3
  <2>5. FreshFor(j)'
    BY <2>1, <2>3, <2>4 DEF FreshFor
  <2>6. \A k \in Jobs \ {j} : /\ snap'[k] = snap[k] /\ blind'[k] = blind[k]
                             /\ pc'[k] = pc[k] /\ cursor'[k] = cursor[k]
    BY <1>1 DEF Scan, ScanFails, Advance
  <2> QED
    BY <2>1, <2>5, <2>6, <1>b, <1>g
<1>2. ASSUME NEW j \in Jobs, Put(j) PROVE SnapshotFresh'
  <2> DEFINE n == Namespace(j)
  <2>1. /\ pc[j] = "put" /\ pc' = pc /\ cursor' = cursor
        /\ snap' = snap /\ blind' = blind
        /\ turn'.writer = j /\ turn'.base = Before(j)
        /\ \A m \in Namespaces : m # n => store'[m] = store[m]
    BY <1>2 DEF Put, PutRecord
  <2>2. Before(j)' = Before(j) /\ Namespace(j)' = n /\ Pending(j)' = Pending(j)
    BY <2>1 DEF Before, Namespace, Pending
  <2>3. FreshFor(j)'
    <3> SUFFICES ASSUME NEW m \in Pending(j), m \notin blind[j]
                 PROVE  /\ snap[j][m] = Before(j)[m]
                        /\ store'[m] # snap[j][m] => m = n
      BY <2>1, <2>2 DEF FreshFor
    <3>1. m \in Namespaces
      BY PendingType
    <3>2. /\ snap[j][m] = Before(j)[m]
          /\ store[m] # snap[j][m] => m = n
      BY <1>f DEF FreshFor
    <3> QED
      BY <2>1, <3>1, <3>2
  <2>4. \A k \in Jobs \ {j} : Pending(k)' = {}
    <3>1. \A k \in Jobs \ {j} : pc[k] \notin {"scan", "ask", "put"}
      BY <2>1, OneAtATime
    <3> QED
      BY <2>1, <3>1 DEF Pending
  <2> QED
    BY <2>3, <2>4, <1>c, <1>g
<1>3. ASSUME NEW j \in Jobs, AskModel(j) PROVE SnapshotFresh'
  <2>1. pc[j] = "ask" /\ pc'[j] = "put" /\ cursor'[j] = 1 /\ store' = store /\ snap' = snap
        /\ blind' = blind /\ turn' = turn
        /\ \A k \in Jobs \ {j} : pc'[k] = pc[k] /\ cursor'[k] = cursor[k]
    BY <1>3 DEF AskModel
  <2>2. Pending(j)' \subseteq Pending(j)
    BY <2>1, PutOrderType DEF Pending
  <2>3. Before(j)' = Before(j)
    BY <2>1 DEF Before
  <2>4. FreshFor(j)'
    BY <2>1, <2>2, <2>3, <1>f DEF FreshFor
  <2> QED
    BY <2>1, <2>4, <1>b, <1>g
<1>4. ASSUME NEW j \in Jobs, NextNamespace(j) PROVE SnapshotFresh'
  <2>1. pc[j] = "put" /\ store' = store /\ snap' = snap /\ blind' = blind /\ turn' = turn
        /\ \A k \in Jobs \ {j} : pc'[k] = pc[k] /\ cursor'[k] = cursor[k]
    BY <1>4 DEF NextNamespace, Advance
  <2>2. CASE cursor[j] = 4
    <3>1. pc'[j] = "unlock"
      BY <1>4, <2>2 DEF NextNamespace, Advance
    <3>2. FreshFor(j)'
      BY <3>1, <1>c DEF Pending
    <3> QED
      BY <2>1, <3>2, <1>b, <1>g
  <2>3. CASE cursor[j] # 4
    <3>1. pc'[j] = "put" /\ cursor'[j] = cursor[j] + 1
      BY <1>4, <2>1, <2>3 DEF NextNamespace, Advance
    <3>2. \A i \in (cursor[j] + 1) .. 4 : i \in cursor[j] .. 4 /\ PutOrder(i) # Namespace(j)
      <4>1. cursor[j] \in 1 .. 4
        OBVIOUS
      <4>2. \A i \in (cursor[j] + 1) .. 4 : i \in 1 .. 4 /\ i \in cursor[j] .. 4 /\ i # cursor[j]
        BY <4>1
      <4> QED
        BY <4>1, <4>2, PutOrderInjective DEF Namespace
    <3>3. \A m \in Pending(j)' : m \in Pending(j) /\ m # Namespace(j)
      BY <2>1, <3>1, <3>2 DEF Pending
    <3>4. Before(j)' = Before(j)
      BY <2>1 DEF Before
    <3>5. FreshFor(j)'
      BY <2>1, <3>1, <3>3, <3>4, <1>f DEF FreshFor
    <3> QED
      BY <2>1, <3>5, <1>b, <1>g
  <2> QED
    BY <2>2, <2>3
<1>5. ASSUME NEW j \in Jobs,
             \/ Spawn(j) \/ Acquire(j) \/ NothingExtracted(j)
             \/ PutFails(j) \/ Release(j) \/ Finish(j)
      PROVE  SnapshotFresh'
  <2>1. /\ store' = store /\ turn' = turn
        /\ \A k \in Jobs \ {j} : /\ pc'[k] = pc[k] /\ cursor'[k] = cursor[k]
                               /\ snap'[k] = snap[k] /\ blind'[k] = blind[k]
    BY <1>5 DEF Spawn, Acquire, NothingExtracted, PutFails, Release, Finish, Advance, LeaveBlock
  <2>2. \/ pc'[j] \notin {"scan", "ask", "put"}
        \/ pc'[j] = "scan" /\ cursor'[j] = 1
    BY <1>5 DEF Spawn, Acquire, NothingExtracted, PutFails, Release, Finish, Advance, LeaveBlock
  <2>3. Pending(j)' = {}
    BY <2>2, <1>a DEF Pending
  <2> QED
    BY <2>1, <2>3, <1>b, <1>c, <1>g
<1>9. ASSUME NEW j \in Jobs, SkipPut(j) PROVE SnapshotFresh'
  <2>1. /\ store' = store /\ turn' = turn /\ pc' = pc /\ cursor' = cursor /\ snap' = snap
        /\ blind' = blind
    BY <1>9 DEF SkipPut
  <2> QED
    BY <2>1, <1>b, <1>g
<1>6. ASSUME NEW p \in Procs, Exit(p) \/ Crash(p) PROVE SnapshotFresh'
  <2>1. Kill(p)
    BY <1>6 DEF Exit, Crash
  <2>2. /\ store' = store /\ turn' = turn /\ cursor' = cursor /\ snap' = snap /\ blind' = blind
        /\ \A k \in Jobs : pc'[k] = pc[k] \/ pc'[k] = "killed"
    BY <2>1 DEF Kill
  <2>3. \A k \in Jobs : FreshFor(k)'
    <3> SUFFICES ASSUME NEW k \in Jobs PROVE FreshFor(k)'
      OBVIOUS
    <3>1. CASE pc'[k] = pc[k]
      BY <2>2, <3>1, <1>b
    <3>2. CASE pc'[k] = "killed"
      BY <3>2, <1>c DEF Pending
    <3> QED
      BY <2>2, <3>1, <3>2
  <2> QED
    BY <2>3, <1>g
<1>7. ASSUME NEW p \in Procs,
             \/ BeginDrain(p) \/ DrainDone(p) \/ DrainExpires(p) \/ CloseConnections(p)
      PROVE  SnapshotFresh'
  <2>1. /\ store' = store /\ turn' = turn /\ pc' = pc /\ cursor' = cursor /\ snap' = snap
        /\ blind' = blind
    BY <1>7 DEF BeginDrain, DrainDone, DrainExpires, CloseConnections
  <2> QED
    BY <2>1, <1>b, <1>g
<1>8. CASE UNCHANGED vars
  <2>1. /\ store' = store /\ turn' = turn /\ pc' = pc /\ cursor' = cursor /\ snap' = snap
        /\ blind' = blind
    BY <1>8 DEF vars
  <2> QED
    BY <2>1, <1>b, <1>g
<1> QED
  BY <1>1, <1>2, <1>3, <1>4, <1>5, <1>6, <1>7, <1>8, <1>9
     DEF Next, JobStep, ProcStep, Halted

(* Among the saves of one process no scanned record goes stale before it is  *)
(* written, but by the save's own put of an earlier item, whatever faults    *)
(* occur and however the threads interleave.                                 *)
THEOREM SnapshotsStayFresh ==
    ASSUME SingleProcess
    PROVE  Spec => []SnapshotFresh
<1>1. Init => SnapshotFresh
  BY DEF Init, SnapshotFresh, Pending
<1>2. TypeOK /\ LockInv /\ TurnInv /\ SnapshotFresh /\ [Next]_vars => SnapshotFresh'
  BY FreshStep
<1>3. Spec => []TurnInv
  BY TurnInvariant
<1> QED
  BY <1>1, <1>2, <1>3, TypeCorrect, LockInvariant, PTL DEF Spec

----------------------------------------------------------------------------
(* Where scans do not fail on their own, only a save whose process closed    *)
(* its connections can have read an empty namespace that is not empty.       *)
LEMMA BlindStep ==
    ASSUME "scan" \notin Faults, TypeOK, BlindInv, [Next]_vars
    PROVE  BlindInv'
<1> USE MemoryAssumption DEF TypeOK, BlindInv
<1>1. ASSUME NEW j \in Jobs, Spawn(j) \/ JobStep(j) PROVE BlindInv'
  <2>1. closed' = closed
    BY <1>1 DEF JobStep, Spawn, Acquire, Scan, ScanFails, AskModel, NothingExtracted, SkipPut,
                Put, PutRecord, PutFails, NextNamespace, Release, Finish
  <2>2. \A k \in Jobs : blind'[k] = blind[k] \/ blind'[k] = {} \/ closed[ProcOf[k]]
    BY <1>1 DEF JobStep, Spawn, Acquire, Scan, ScanFails, AskModel, NothingExtracted, SkipPut,
                Put, PutRecord, PutFails, NextNamespace, Release, Finish
  <2> QED
    BY <2>1, <2>2
<1>2. ASSUME NEW p \in Procs, BeginDrain(p) \/ ProcStep(p) \/ Crash(p) PROVE BlindInv'
  <2>1. blind' = blind /\ \A q \in Procs : closed[q] => closed'[q]
    BY <1>2 DEF BeginDrain, ProcStep, DrainDone, DrainExpires, CloseConnections, Exit, Crash, Kill
  <2> QED
    BY <2>1
<1>3. CASE UNCHANGED vars
  BY <1>3 DEF vars
<1> QED
  BY <1>1, <1>2, <1>3 DEF Next, Halted

(* The abstract memory speaks of the same namespaces, verbs and records.     *)
LEMMA SameRecords ==
    /\ Atomic!Namespaces = Namespaces
    /\ \A n \in Namespaces : Atomic!Verbs(n) = Verbs(n)
    /\ \A verb, old : Atomic!Writes(verb, old) <=> Writes(verb, old)
    /\ \A j, n, verb, old : Atomic!Written(j, n, verb, old) = Written(j, n, verb, old)
    /\ \A j : Atomic!Found(j) = Before(j)
BY DEF Atomic!Namespaces, Namespaces, Atomic!Verbs, Verbs, Atomic!Writes, Writes,
       Atomic!Written, Written, Atomic!Contributions, Contributions, Atomic!Facts, Facts,
       Atomic!Profile, Profile, Atomic!Projects, Projects, Atomic!Tasks, Tasks,
       Atomic!Found, Before

(* Only a put changes the store, and it writes what the serial memory would. *)
LEMMA RefinementStep ==
    ASSUME TypeOK, TurnInv, SnapshotFresh, BlindInv, [Next]_vars
    PROVE  [Atomic!Next]_<<store, turn.writer, turn.base, turn.over>>
<1> USE DEF TypeOK
<1>1. ASSUME NEW j \in Jobs, Put(j) PROVE Atomic!Next
  <2> DEFINE n == Namespace(j)
             verb == Item(j)
             record == Written(j, n, verb, Before(j)[n])
  <2>1. n \in Namespaces /\ verb \in Verbs(n)
    BY <1>1, ItemType DEF Put
  <2>2. pc[j] = "put" /\ cursor[j] \in 1 .. 4
    BY <1>1 DEF Put
  <2>3. n \in Pending(j)
    <3>1. cursor[j] \in cursor[j] .. 4
      BY <2>2
    <3> QED
      BY <2>2, <3>1 DEF Pending, Namespace
  <2>4. blind[j] = {}
    BY <1>1 DEF Put, BlindInv
  <2>5. snap[j][n] = Before(j)[n]
    BY <2>3, <2>4 DEF SnapshotFresh
  <2>6. j \notin turn.over
    BY <2>2 DEF TurnInv
  <2>7. Writes(verb, Before(j)[n])
    BY <1>1, <2>5 DEF Put
  <2>8. store' = [store EXCEPT ![n] = record]
    BY <1>1, <2>5 DEF Put, PutRecord
  <2>9. /\ turn'.writer = j /\ turn'.base = Before(j)
        /\ turn'.over = turn.over \union ({turn.writer} \ {j, Nobody})
    BY <1>1 DEF Put, PutRecord
  <2>10. Atomic!Put(j, n, verb)
    BY <2>6, <2>7, <2>8, <2>9, SameRecords DEF Atomic!Put
  <2> QED
    BY <2>1, <2>10, SameRecords DEF Atomic!Next
<1>2. ASSUME NEW j \in Jobs, Spawn(j) \/ JobStep(j), ~ Put(j) PROVE store' = store /\ turn' = turn
  BY <1>2 DEF JobStep, Spawn, Acquire, Scan, ScanFails, AskModel, NothingExtracted, SkipPut,
              PutFails, NextNamespace, Release, Finish
<1>3. ASSUME NEW p \in Procs, BeginDrain(p) \/ ProcStep(p) \/ Crash(p)
      PROVE  store' = store /\ turn' = turn
  BY <1>3 DEF BeginDrain, ProcStep, DrainDone, DrainExpires, CloseConnections, Exit, Crash, Kill
<1>4. CASE UNCHANGED vars
  BY <1>4 DEF vars
<1> QED
  BY <1>1, <1>2, <1>3, <1>4 DEF Next, JobStep, Halted

(* The saves of one process implement a serial memory, in which each writes  *)
(* what it computes from the store as its predecessors left it, through      *)
(* failed puts, unparsable answers, crashes and exits that close the         *)
(* connections under running threads, and for payloads of any length.        *)
THEOREM SavesAreAtomic ==
    ASSUME SingleProcess, "scan" \notin Faults
    PROVE  Spec => ImplementsAtomicMemory
<1>1. Init => Atomic!Init
  BY DEF Init, Atomic!Init, Namespaces, Atomic!Namespaces
<1>2. Init => BlindInv
  BY DEF Init, BlindInv
<1>3. TypeOK /\ BlindInv /\ [Next]_vars => BlindInv'
  BY BlindStep
<1>4. TypeOK /\ TurnInv /\ SnapshotFresh /\ BlindInv /\ [Next]_vars
         => [Atomic!Next]_<<store, turn.writer, turn.base, turn.over>>
  BY RefinementStep
<1>5. Spec => []SnapshotFresh
  BY SnapshotsStayFresh
<1>6. Spec => []TurnInv
  BY TurnInvariant
<1> QED
  BY <1>1, <1>2, <1>3, <1>4, <1>5, <1>6, TypeCorrect, PTL
     DEF Spec, ImplementsAtomicMemory, Atomic!Spec

----------------------------------------------------------------------------
LEMMA TrackStep == TypeOK /\ TrackInv /\ [Next]_vars => TrackInv'
<1> SUFFICES ASSUME TypeOK, TrackInv, [Next]_vars PROVE TrackInv'
  OBVIOUS
<1> USE MemoryAssumption DEF TypeOK, TrackInv
<1>1. ASSUME NEW j \in Jobs, Spawn(j) PROVE TrackInv'
  BY <1>1 DEF Spawn
<1>2. ASSUME NEW j \in Jobs, Finish(j) PROVE TrackInv'
  BY <1>2 DEF Finish
<1>3. ASSUME NEW j \in Jobs,
             \/ Acquire(j) \/ Scan(j) \/ ScanFails(j) \/ AskModel(j) \/ NothingExtracted(j)
             \/ SkipPut(j) \/ Put(j) \/ PutFails(j) \/ NextNamespace(j) \/ Release(j)
      PROVE  TrackInv'
  <2>1. tracked' = tracked /\ proc' = proc /\ pc[j] \notin {"unborn", "done", "killed"}
    BY <1>3 DEF Acquire, Scan, ScanFails, AskModel, NothingExtracted, SkipPut, Put, PutRecord,
                PutFails, NextNamespace, Release
  <2>2. \A k \in Jobs \ {j} : pc'[k] = pc[k]
    BY <1>3 DEF Acquire, Scan, ScanFails, AskModel, NothingExtracted, SkipPut, Put, PutRecord,
                PutFails, NextNamespace, Release, Advance, LeaveBlock
  <2> QED
    BY <2>1, <2>2
<1>4. ASSUME NEW p \in Procs, BeginDrain(p) \/ DrainDone(p) \/ DrainExpires(p) \/ CloseConnections(p)
      PROVE  TrackInv'
  <2>1. pc' = pc /\ tracked' = tracked
    BY <1>4 DEF BeginDrain, DrainDone, DrainExpires, CloseConnections
  <2>2. \A q \in Procs : proc'[q] = "drained" => proc[q] = "drained" \/ tracked[q] = {}
    BY <1>4 DEF BeginDrain, DrainDone, DrainExpires, CloseConnections
  <2> QED
    BY <2>1, <2>2
<1>5. ASSUME NEW p \in Procs, Exit(p) \/ Crash(p) PROVE TrackInv'
  <2>1. Kill(p)
    BY <1>5 DEF Exit, Crash
  <2> QED
    BY <2>1 DEF Kill, InFlight
<1>6. CASE UNCHANGED vars
  BY <1>6 DEF vars
<1> QED
  BY <1>1, <1>2, <1>3, <1>4, <1>5, <1>6 DEF Next, JobStep, ProcStep, Halted

(* When the drain returns because no thread is tracked any more, the exit    *)
(* that follows kills none.                                                  *)
THEOREM DrainLeavesNothing == Spec => NothingKilledAfterDrain
<1> DEFINE Step == \A j \in Jobs : pc'[j] = "killed" /\ pc[j] # "killed"
                       => proc[ProcOf[j]] # "drained"
<1>1. Init => TrackInv
  BY MemoryAssumption DEF Init, TrackInv
<1>2. TypeOK /\ TrackInv /\ [Next]_vars => [Step]_vars
  <2> SUFFICES ASSUME TypeOK, TrackInv, Next, NEW j \in Jobs, pc'[j] = "killed",
                      pc[j] # "killed"
               PROVE  proc[ProcOf[j]] # "drained"
    OBVIOUS
  <2> USE MemoryAssumption DEF TypeOK
  <2>1. \A k \in Jobs : ~ (Spawn(k) \/ JobStep(k))
    BY DEF JobStep, Spawn, Acquire, Scan, ScanFails, AskModel, NothingExtracted, SkipPut,
           Put, PutRecord, PutFails, NextNamespace, Release, Finish, Advance, LeaveBlock
  <2>2. PICK p \in Procs : Exit(p) \/ Crash(p)
    BY <2>1 DEF Next, ProcStep, BeginDrain, DrainDone, DrainExpires, CloseConnections, Halted, vars
  <2>3. j \in InFlight(p)
    BY <2>2 DEF Exit, Crash, Kill
  <2> QED
    BY <2>3 DEF InFlight, TrackInv
<1> QED
  BY <1>1, <1>2, TrackStep, TypeCorrect, PTL DEF Spec, NothingKilledAfterDrain
=============================================================================
