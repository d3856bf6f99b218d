---------------------------- MODULE CronService ----------------------------
(***************************************************************************)
(* The gateway's cron service (src/gateway/src/cron/service): jobs with a   *)
(* schedule, run by a timer, by hand, or after a restart to make up for     *)
(* what was missed.  The store lives in memory and in two files, the state  *)
(* of the jobs and their configuration, which are written one after the     *)
(* other.  Everything that touches it is a section of one chain of promises *)
(* (locked.ts), first come first served; the jobs themselves run outside    *)
(* the chain, so that other sections take place between the section that    *)
(* marks a job as running and the one that records its result.              *)
(***************************************************************************)
EXTENDS Naturals, FiniteSets, Sequences

CONSTANTS
    Jobs,
    Kind,            \* [Jobs -> {"cron", "every", "at"}]
    AgentTurn,       \* jobs whose payload is an agent turn
    DeleteAfterRun,  \* one-shot jobs that are deleted when they succeed
    Initial,         \* the jobs there are at first; the others may be added
    Position,        \* [Jobs -> Nat], place of a job in the list of the store
    Period,          \* time between two slots of a recurring job
    AtTime,          \* time of the one-shot jobs
    Manuals,         \* manual runs
    ManualJob,       \* [Manuals -> Jobs]
    Forced,          \* the manual runs in mode "force"
    Ops,             \* the operations on jobs there may be
    MaxImmediate,    \* maxMissedJobsPerRestart
    Stagger,         \* delay of a missed run that is put off at startup
    Backoff,         \* delay after an error
    Stuck,           \* STUCK_RUN_MS
    MaxRetries,      \* retries of a one-shot after transient errors
    Workers,         \* maxConcurrentRuns
    MaxTime, MaxOps, MaxMishaps              \* bounds; a mishap is a crash or a failed save

Scheduled == {"tick", "start"}
Runners == Scheduled \union Manuals
Operations == {"read", "enable", "disable", "remove", "add"}

ASSUME CronAssumption ==
    /\ \A j \in Jobs : Kind[j] \in {"cron", "every", "at"}
    /\ AgentTurn \subseteq Jobs /\ DeleteAfterRun \subseteq Jobs /\ Initial \subseteq Jobs
    /\ \A j \in Jobs : Position[j] \in Nat
    /\ Manuals \intersect (Scheduled \union Operations) = {}
    /\ ManualJob \in [Manuals -> Jobs] /\ Forced \subseteq Manuals
    /\ Ops \subseteq Operations
    /\ {Period, AtTime, Workers} \subseteq Nat \ {0}
    /\ {MaxImmediate, Stagger, Backoff, Stuck, MaxRetries} \subseteq Nat
    /\ MaxTime \in Nat \ {0} /\ {MaxOps, MaxMishaps} \subseteq Nat

VARIABLES
    now,
    mem,        \* state.store
    disk,       \* jobs-state.json and jobs.json
    chain,      \* the sections that wait for the lock, or have it
    pc,         \* what each runner is at
    run,        \* the executions of each runner
    skip,       \* interruptedJobIds, then the candidates put off at startup
    shared,     \* jobs whose object in the store is the one the tick holds
    armed,      \* a timer is set
    ops, mishaps,
    promised,   \* history: the slot that is due and was not run since, or 0
    spent,      \* history: one-shots that were begun and are not to be retried
    excused     \* history: jobs whose marker or files were interfered with

vars == <<now, mem, disk, chain, pc, run, skip, shared, armed, ops, mishaps,
          promised, spent, excused>>
bounds == <<ops, mishaps>>

(* job.state; 0 stands for undefined. *)
NoState == [next |-> 0, running |-> 0, last |-> 0, ended |-> 0, status |-> "none", errors |-> 0]
NoRun == [pc |-> "none", status |-> "none", start |-> 0, end |-> 0]
Idle == [j \in Jobs |-> NoRun]

Init ==
    /\ now = 1
    /\ disk = [config |-> [j \in Jobs |-> IF j \in Initial THEN "on" ELSE "none"],
               state |-> [j \in Jobs |-> NoState]]
    /\ mem = disk
    /\ chain = << <<"start", "-">> >>
    /\ pc = [r \in Runners |-> IF r = "start" THEN "boot" ELSE "idle"]
    /\ run = [r \in Runners |-> Idle]
    /\ skip = {} /\ shared = {} /\ armed = FALSE
    /\ ops = 0 /\ mishaps = 0
    /\ promised = [j \in Jobs |-> 0]
    /\ spent = {} /\ excused = {}

----------------------------------------------------------------------------
(* Schedules (schedule.ts, jobs.ts).                                         *)

Larger(a, b) == IF a < b THEN b ELSE a
NextSlot(t) == (t \div Period + 1) * Period
PreviousSlot(t) == ((t - 1) \div Period) * Period

(* computeJobNextRunAtMs of a job that is enabled *)
ComputeNext(j, st, t) ==
    CASE Kind[j] = "cron" -> NextSlot(t)
      [] Kind[j] = "every" ->
            IF st.last # 0 /\ st.last + Period > t THEN st.last + Period
            ELSE Larger(1, (t + Period - 1) \div Period) * Period
      [] Kind[j] = "at" -> IF st.status = "ok" /\ AtTime <= st.last THEN 0 ELSE AtTime

(* recomputeJobNextRunAtMs: not before the backoff after an error is over.   *)
Recomputed(j, st, t) ==
    LET floor == IF Kind[j] # "at" /\ st.status = "error" THEN st.last + Backoff ELSE 0
        next == ComputeNext(j, st, t)
    IN  [st EXCEPT !.next = IF next = 0 THEN 0 ELSE Larger(next, floor)]

(* shouldRepairFutureCronNextRunAtMs: a future time that is not a slot of    *)
(* the schedule, and no pending retry.                                       *)
NeedsRepair(j, st, t) ==
    /\ Kind[j] = "cron" /\ st.next > t /\ st.running = 0
    /\ ~(st.status = "error" /\ t < st.ended + Backoff /\ st.next <= st.ended + Backoff)
    /\ st.next % Period # 0
    /\ \/ st.next < NextSlot(t) /\ j \notin AgentTurn
       \/ st.next >= NextSlot(t) + 2 * Period

Executed(st) == st.next # 0 /\ st.last >= st.next
IsStuck(st, t) == st.running # 0 /\ t > st.running + Stuck
Unmarked(st) == [st EXCEPT !.running = 0]

(* normalizeJobTickState: a disabled job has no next run and no marker, a    *)
(* marker that is too old is removed.                                        *)
Tidy(s, j, t) ==
    IF s.config[j] = "none" THEN NoState
    ELSE IF s.config[j] = "off" THEN [s.state[j] EXCEPT !.next = 0, !.running = 0]
    ELSE IF IsStuck(s.state[j], t) THEN Unmarked(s.state[j])
    ELSE s.state[j]

(* walkSchedulableJobs: after that, those of again are computed again; a job *)
(* whose marker was just removed only when its slot was run.                 *)
Walk(s, t, again) ==
    LET skipped == {j \in again : IsStuck(s.state[j], t) /\ ~Executed(s.state[j])} IN
    [s EXCEPT !.state = [j \in Jobs |->
        IF s.config[j] = "on" /\ j \in again \ skipped
        THEN Recomputed(j, Tidy(s, j, t), t) ELSE Tidy(s, j, t)]]

(* recomputeNextRuns: what is due is computed again, run or not.             *)
RecomputeNextRuns(s, t) ==
    Walk(s, t, {j \in Jobs : Tidy(s, j, t).next <= t \/ NeedsRepair(j, Tidy(s, j, t), t)})

(* Faulty variant, for the mutation runs only: what is due is computed again *)
(* (the code before #13992).                                                 *)
MaintenanceAdvancing(s, t, expired, repair) == RecomputeNextRuns(s, t)

(* recomputeNextRunsForMaintenance: what is due and was not run stays due.   *)
Maintenance(s, t, expired, repair) ==
    LET Again(j) == \E st \in {Tidy(s, j, t)} :
            \/ st.next = 0
            \/ repair /\ NeedsRepair(j, st, t)
            \/ expired /\ st.next <= t /\ st.running = 0 /\ Executed(st)
    IN  Walk(s, t, {j \in Jobs : Again(j)})

(* collectRunnableJobs, as the timer calls it *)
Runnable(s, j, t) ==
    LET st == s.state[j] IN
    s.config[j] = "on" /\ st.running = 0 /\ st.next # 0 /\ st.next <= t

(* ... and as the startup does: a one-shot that was run counts only if its   *)
(* retry is due, and a slot since the last run is missed though the next run *)
(* was moved on.                                                             *)
Missed(s, j, t) ==
    LET st == s.state[j] IN
    /\ s.config[j] = "on" /\ st.running = 0
    /\ IF Kind[j] = "at" /\ st.status # "none"
       THEN st.status = "error" /\ st.next > st.last /\ st.next <= t
       ELSE \/ st.next # 0 /\ st.next <= t
            \/ /\ Kind[j] = "cron" /\ st.last # 0 /\ PreviousSlot(t) > st.last
               /\ ~(st.next > t /\ st.status = "error" /\ t < st.last + Backoff)

----------------------------------------------------------------------------
(* The result of a run (applyJobResult in timer.ts).                         *)

Failed(status) == status \in {"transient", "permanent"}
Retried(j, res, st) == Kind[j] = "at" /\ res.status = "transient" /\ st.errors < MaxRetries

Deleted(s, j) == [s EXCEPT !.config[j] = "none", !.state[j] = NoState]

ApplyResult(s, j, res, preserve) ==
    LET old == s.state[j]
        st == [old EXCEPT !.running = 0, !.last = res.start, !.ended = res.end,
                          !.status = IF Failed(res.status) THEN "error" ELSE res.status,
                          !.errors = IF Failed(res.status)
                                     THEN IF @ > MaxRetries THEN @ ELSE @ + 1 ELSE 0]
        basis == IF preserve /\ Kind[j] = "every" THEN [st EXCEPT !.last = old.last] ELSE st
        natural == ComputeNext(j, basis, res.end)
        next == IF Failed(res.status) THEN Larger(natural, res.end + Backoff) ELSE natural
        After(config, time) == [s EXCEPT !.config[j] = config, !.state[j] = [st EXCEPT !.next = time]]
    IN  IF s.config[j] = "none" THEN s
        ELSE IF Kind[j] = "at" /\ j \in DeleteAfterRun /\ res.status = "ok" THEN Deleted(s, j)
        ELSE IF Kind[j] = "at" /\ Retried(j, res, old) THEN After(s.config[j], res.end + Backoff)
        ELSE IF Kind[j] = "at" THEN After("off", 0)
        ELSE After(s.config[j], IF s.config[j] = "on" THEN next ELSE 0)

(* ... of every run of r that has ended; a run is of its own job only.       *)
Ended(r) == {j \in Jobs : run[r][j].pc = "ended"}
ApplyAll(s, r) ==
    LET Applied(j) == ApplyResult(s, j, run[r][j], r \in Forced) IN
    [config |-> [j \in Jobs |-> IF j \in Ended(r) THEN Applied(j).config[j] ELSE s.config[j]],
     state  |-> [j \in Jobs |-> IF j \in Ended(r) THEN Applied(j).state[j] ELSE s.state[j]]]

(* The one-shots whose run by r failed and is put down for a retry.          *)
ToRetry(r, s) == {j \in Ended(r) : Retried(j, run[r][j], s.state[j])}

----------------------------------------------------------------------------
(* What each section makes of the store, before it saves it.                 *)

(* ensureLoaded from the files. *)
Loaded ==
    [disk EXCEPT !.state = [j \in Jobs |-> IF disk.config[j] = "none" THEN NoState ELSE @[j]]]

(* start: a run that a restart interrupted has failed, and a one-shot is     *)
(* disabled.  The variant, for the mutation runs only, leaves it enabled.    *)
Interrupted == {j \in Jobs : Loaded.state[j].running # 0}
BootKeepsOneShots ==
    LET st(j) == Loaded.state[j] IN
    [Loaded EXCEPT !.state = [j \in Jobs |->
        IF j \notin Interrupted THEN st(j)
        ELSE [st(j) EXCEPT !.running = 0, !.last = st(j).running, !.ended = now,
                           !.status = "error", !.next = 0]]]

BootStore ==
    [config |-> [j \in Jobs |-> IF j \in Interrupted /\ Kind[j] = "at" THEN "off"
                                ELSE Loaded.config[j]],
     state  |-> [j \in Jobs |-> LET st == Loaded.state[j] IN
                    IF j \notin Interrupted THEN st
                    ELSE [st EXCEPT !.running = 0, !.last = st.running, !.ended = now,
                                    !.status = "error", !.next = 0,
                                    !.errors = IF @ > MaxRetries THEN @ ELSE @ + 1]]]

Marked(s, due) ==
    [s EXCEPT !.state = [j \in Jobs |-> IF j \in due THEN [@[j] EXCEPT !.running = now] ELSE @[j]]]

(* planStartupCatchup: the first of the missed jobs run at once, agent turns *)
(* and the others are put off.                                               *)
MissedJobs == {j \in Jobs \ skip : Missed(mem, j, now)}
Earlier(c, d) == \/ mem.state[c].next < mem.state[d].next
                 \/ mem.state[c].next = mem.state[d].next /\ Position[c] < Position[d]
Candidates ==
    LET eligible == MissedJobs \ AgentTurn
    IN  {d \in eligible : Cardinality({c \in eligible : Earlier(c, d)}) < MaxImmediate}

(* applyStartupCatchupOutcomes *)
PutOff(s) == {j \in skip : s.config[j] = "on"}
CaughtUpStore ==
    LET s == ApplyAll(mem, "start")
        deferred == [s EXCEPT !.state = [j \in Jobs |->
                        IF j \in PutOff(s) THEN [@[j] EXCEPT !.next = now + Stagger] ELSE @[j]]]
    IN  Maintenance(deferred, now, FALSE, FALSE)

StartedStore == Maintenance(mem, now, TRUE, TRUE)

(* onTimer *)
(* Faulty variant, for the mutation runs only: a job is due after its slot.  *)
DueLater == {j \in Jobs : Runnable(Loaded, j, now - 1)}
Due == {j \in Jobs : Runnable(Loaded, j, now)}
TickStore == IF Due = {} THEN Maintenance(Loaded, now, TRUE, TRUE) ELSE Marked(Loaded, Due)
TickedStore == Maintenance(ApplyAll(Loaded, "tick"), now, FALSE, TRUE)

(* prepareManualRun, and finishPreparedManualRun: the job from memory, the   *)
(* others as they are in the files.                                          *)
ReservedStore(m) ==
    LET j == ManualJob[m] IN [mem EXCEPT !.state[j].running = run[m][j].start]
FinishedStore(m) ==
    LET j == ManualJob[m]
        s == ApplyAll(mem, m)
        merged == IF s.config[j] = "none" THEN Deleted(Loaded, j)
                  ELSE IF Loaded.config[j] = "none" THEN Loaded
                  ELSE [Loaded EXCEPT !.config[j] = s.config[j], !.state[j] = s.state[j]]
    IN  Maintenance(merged, now, TRUE, TRUE)

(* list and status, update, remove, add. *)
OpStore(op, j) ==
    LET enabled == [mem EXCEPT !.config[j] = "on", !.state[j].next = ComputeNext(j, mem.state[j], now)] IN
    CASE op = "read" -> Maintenance(mem, now, FALSE, TRUE)
      [] op = "add" -> RecomputeNextRuns(enabled, now)
      [] op = "remove" -> Deleted(mem, j)
      [] op = "enable" -> enabled
      [] op = "disable" ->
            [mem EXCEPT !.config[j] = "off", !.state[j].next = 0, !.state[j].running = 0]

HeadIs(who, at) == chain # <<>> /\ chain[1][1] = who /\ pc[who] = at
HeadOp == chain # <<>> /\ chain[1][1] \in Operations

HeadStore ==
    LET who == chain[1][1] IN
    CASE who = "start" /\ pc[who] = "boot" -> BootStore
      [] who = "start" /\ pc[who] = "plan" -> Marked(mem, Candidates)
      [] who = "start" /\ pc[who] = "apply" -> CaughtUpStore
      [] who = "start" /\ pc[who] = "finish" -> StartedStore
      [] who = "tick" /\ pc[who] = "mark" -> TickStore
      [] who = "tick" /\ pc[who] = "apply" -> TickedStore
      [] who \in Manuals /\ pc[who] = "reserve" -> ReservedStore(who)
      [] who \in Manuals /\ pc[who] = "finish" -> FinishedStore(who)
      [] who \in Operations -> OpStore(who, chain[1][2])

(* The history: a slot is promised when it is due and was not run, and kept  *)
(* until a run begins or an operation on the job, one of over, releases it.  *)
Owe(s, t, over) ==
    [j \in Jobs |-> IF promised[j] # 0 /\ j \notin over THEN promised[j]
                    ELSE IF Runnable(s, j, t) /\ ~Executed(s.state[j]) THEN s.state[j].next
                    ELSE 0]
Aged(s) == {j \in Jobs : IsStuck(s.state[j], now)}
Executing(r) == {j \in Jobs : run[r][j].pc = "executing"}
Active == {j \in Jobs : \E r \in Runners : run[r][j].pc # "none"}
Armed(s) == \E j \in Jobs : s.config[j] = "on"
Queue(r) == chain' = Append(Tail(chain), <<r, "-">>)

(* The section in front leaves a store in memory, and in the files if it     *)
(* saves it.                                                                 *)
Leave(s, over) ==
    /\ mem' = s
    /\ promised' = Owe(s, now, over)
    /\ UNCHANGED <<now, bounds>>
Save(store, over) == \E s \in {store} : Leave(s, over) /\ disk' = s
SaveIfChanged(store, old) ==
    \E s \in {store} : Leave(s, {}) /\ disk' = IF s = old THEN disk ELSE s

----------------------------------------------------------------------------
(* start *)

BootSection ==
    /\ HeadIs("start", "boot")
    /\ Save(BootStore, {})
    /\ skip' = Interrupted
    /\ pc' = [pc EXCEPT !["start"] = "plan"]
    /\ Queue("start")
    /\ UNCHANGED <<run, shared, armed, spent, excused>>

PlanSection ==
    /\ HeadIs("start", "plan")
    /\ IF MissedJobs = {}
       THEN /\ Leave(mem, {}) /\ UNCHANGED <<disk, run, skip>>
            /\ pc' = [pc EXCEPT !["start"] = "finish"]
            /\ Queue("start")
       ELSE /\ Save(Marked(mem, Candidates), {})
            /\ skip' = MissedJobs \ Candidates
            /\ run' = [run EXCEPT !["start"] =
                        [j \in Jobs |-> IF j \in Candidates THEN [NoRun EXCEPT !.pc = "waiting"]
                                        ELSE NoRun]]
            /\ IF Candidates = {}
               THEN Queue("start") /\ pc' = [pc EXCEPT !["start"] = "apply"]
               ELSE chain' = Tail(chain) /\ pc' = [pc EXCEPT !["start"] = "runs"]
    /\ UNCHANGED <<shared, armed, spent, excused>>

StartApply ==
    /\ HeadIs("start", "apply")
    /\ \E s \in {CaughtUpStore}, put \in {PutOff(ApplyAll(mem, "start"))} :
         /\ mem' = s /\ disk' = s
         /\ promised' = [j \in Jobs |-> IF j \in put THEN now + Stagger ELSE Owe(s, now, {})[j]]
    /\ pc' = [pc EXCEPT !["start"] = "finish"]
    /\ run' = [run EXCEPT !["start"] = Idle]
    /\ Queue("start")
    /\ spent' = spent \ ToRetry("start", mem)
    /\ excused' = excused \union Aged(ApplyAll(mem, "start"))
    /\ UNCHANGED <<now, bounds, skip, shared, armed>>

StartFinish ==
    /\ HeadIs("start", "finish")
    /\ SaveIfChanged(StartedStore, mem)
    /\ pc' = [pc EXCEPT !["start"] = "idle"]
    /\ chain' = Tail(chain)
    /\ skip' = {}
    /\ armed' = Armed(mem')
    /\ excused' = excused \union Aged(mem)
    /\ UNCHANGED <<run, shared, spent>>

----------------------------------------------------------------------------
(* Faulty variant, for the mutation runs only: a busy tick does not hold     *)
(* the next one back.                                                        *)
TimerFiresAgain ==
    /\ armed
    /\ pc' = [pc EXCEPT !["tick"] = "mark"]
    /\ chain' = Append(chain, <<"tick", "-">>)
    /\ UNCHANGED <<now, mem, disk, run, skip, shared, armed, bounds, promised, spent, excused>>

(* onTimer.  While a tick is busy the timer is only set again.               *)

TimerFires ==
    /\ armed /\ pc["tick"] = "idle"
    /\ pc' = [pc EXCEPT !["tick"] = "mark"]
    /\ chain' = Append(chain, <<"tick", "-">>)
    /\ UNCHANGED <<now, mem, disk, run, skip, shared, armed, bounds, promised, spent, excused>>

TickMark ==
    /\ HeadIs("tick", "mark")
    /\ IF Due = {} THEN SaveIfChanged(TickStore, Loaded) ELSE Save(TickStore, {})
    /\ chain' = Tail(chain)
    /\ pc' = [pc EXCEPT !["tick"] = IF Due = {} THEN "idle" ELSE "runs"]
    /\ run' = [run EXCEPT !["tick"] =
                [j \in Jobs |-> IF j \in Due THEN [NoRun EXCEPT !.pc = "waiting"] ELSE NoRun]]
    /\ shared' = Due
    /\ armed' = (Due # {} \/ Armed(mem'))
    /\ excused' = IF Due = {} THEN excused \union Aged(Loaded) ELSE excused
    /\ UNCHANGED <<skip, spent>>

TickApply ==
    /\ HeadIs("tick", "apply")
    /\ Save(TickedStore, {})
    /\ chain' = Tail(chain)
    /\ pc' = [pc EXCEPT !["tick"] = "idle"]
    /\ run' = [run EXCEPT !["tick"] = Idle]
    /\ shared' = {}
    /\ armed' = Armed(mem')
    /\ spent' = spent \ ToRetry("tick", Loaded)
    /\ excused' = excused \union Aged(ApplyAll(Loaded, "tick"))
    /\ UNCHANGED skip

(* runDueJob: a worker takes the next job that is due; at startup they run   *)
(* one after the other.  The tick sets the marker of the object it holds.    *)
Begin(r, j) ==
    /\ run[r][j].pc = "waiting"
    /\ Cardinality(Executing(r)) < (IF r = "tick" THEN Workers ELSE 1)
    /\ run' = [run EXCEPT ![r][j].pc = "executing", ![r][j].start = now]
    /\ mem' = IF r = "tick" /\ j \in shared THEN [mem EXCEPT !.state[j].running = now] ELSE mem
    /\ promised' = [promised EXCEPT ![j] = 0]
    /\ spent' = IF Kind[j] = "at" THEN spent \union {j} ELSE spent
    /\ UNCHANGED <<now, disk, chain, pc, skip, shared, armed, bounds, excused>>

Outcomes(j) ==
    IF Kind[j] = "at" THEN {"ok", "transient", "permanent"} ELSE {"ok", "permanent"}

(* The run is over; when it is the last of its runner, its results wait for  *)
(* the lock.                                                                 *)
End(r, j, status) ==
    LET last == \A i \in Jobs \ {j} : run[r][i].pc \in {"none", "ended"} IN
    /\ run[r][j].pc = "executing"
    /\ run' = [run EXCEPT ![r][j].pc = "ended", ![r][j].status = status, ![r][j].end = now]
    /\ chain' = IF last THEN Append(chain, <<r, "-">>) ELSE chain
    /\ pc' = IF ~last THEN pc
             ELSE [pc EXCEPT ![r] = IF r \in Manuals THEN "finish" ELSE "apply"]
    /\ UNCHANGED <<now, mem, disk, skip, shared, armed, bounds, promised, spent, excused>>

----------------------------------------------------------------------------
(* run: a manual run, forced or only when the job is due.                    *)

Call(m) ==
    /\ pc[m] = "idle" /\ pc["start"] = "idle"
    /\ pc' = [pc EXCEPT ![m] = "preflight"]
    /\ chain' = Append(chain, <<m, "-">>)
    /\ UNCHANGED <<now, mem, disk, run, skip, shared, armed, bounds, promised, spent, excused>>

(* inspectManualRunPreflight; what it tidies is in memory only.              *)
Preflight(m) ==
    /\ HeadIs(m, "preflight")
    /\ LET j == ManualJob[m] IN
       \E s \in {Maintenance(mem, now, FALSE, TRUE)} :
         /\ Leave(s, {}) /\ UNCHANGED disk
         /\ IF /\ s.config[j] # "none" /\ s.state[j].running = 0
               /\ m \in Forced \/ Runnable(s, j, now)
            THEN /\ pc' = [pc EXCEPT ![m] = "reserve"] /\ Queue(m)
                 /\ run' = [run EXCEPT ![m][j].start = now]
            ELSE pc' = [pc EXCEPT ![m] = "done"] /\ chain' = Tail(chain) /\ UNCHANGED run
    /\ excused' = excused \union Aged(mem)
    /\ UNCHANGED <<skip, shared, armed, spent>>

(* Faulty variant, for the mutation runs only: the marker is not looked at   *)
(* again under the second lock.                                              *)
ReserveUnchecked(m) ==
    LET j == ManualJob[m] IN
    /\ HeadIs(m, "reserve") /\ mem.config[j] # "none"
    /\ chain' = Tail(chain)
    /\ Save(ReservedStore(m), {j})
    /\ pc' = [pc EXCEPT ![m] = "run"]
    /\ run' = [run EXCEPT ![m][j].pc = "executing"]
    /\ UNCHANGED <<skip, shared, armed, spent, excused>>

Unavailable(m) ==
    mem.config[ManualJob[m]] = "none" \/ mem.state[ManualJob[m]].running # 0

(* A disabled job may be run by force; the next maintenance removes its      *)
(* marker under the run (normalizeJobTickState).                             *)
Reserve(m) ==
    LET j == ManualJob[m] IN
    /\ HeadIs(m, "reserve")
    /\ chain' = Tail(chain)
    /\ IF Unavailable(m)
       THEN /\ Leave(mem, {}) /\ UNCHANGED <<disk, spent>>
            /\ pc' = [pc EXCEPT ![m] = "done"] /\ run' = [run EXCEPT ![m] = Idle]
            /\ UNCHANGED excused
       ELSE /\ Save(ReservedStore(m), {j})
            /\ pc' = [pc EXCEPT ![m] = "run"]
            /\ run' = [run EXCEPT ![m][j].pc = "executing"]
            /\ spent' = IF Kind[j] = "at" THEN spent \union {j} ELSE spent
            /\ excused' = IF mem.config[j] = "off" THEN excused \union {j} ELSE excused
    /\ UNCHANGED <<skip, shared, armed>>

Finish(m) ==
    LET j == ManualJob[m] IN
    /\ HeadIs(m, "finish")
    /\ chain' = Tail(chain)
    /\ pc' = [pc EXCEPT ![m] = "done"]
    /\ run' = [run EXCEPT ![m] = Idle]
    /\ spent' = spent \ ToRetry(m, mem)
    /\ IF mem.config[j] = "none"
       THEN Leave(mem, {}) /\ UNCHANGED <<disk, shared, armed, excused>>
       ELSE /\ Save(FinishedStore(m), {})
            /\ shared' = {}
            /\ armed' = Armed(mem')
            /\ excused' = excused \union Aged(Loaded)
    /\ UNCHANGED skip

----------------------------------------------------------------------------
(* The operations on jobs.                                                   *)

Ask(op, j) ==
    /\ ops < MaxOps /\ pc["start"] = "idle"
    /\ op = "add" => /\ j \notin Initial /\ mem.config[j] = "none"
                     /\ \A i \in DOMAIN chain : chain[i] # <<"add", j>>
    /\ ops' = ops + 1
    /\ chain' = Append(chain, <<op, j>>)
    /\ UNCHANGED <<now, mem, disk, pc, run, skip, shared, armed, mishaps,
                   promised, spent, excused>>

(* update throws when there is no such job. *)
Unknown(op, j) == op \in {"enable", "disable"} /\ mem.config[j] = "none"

Operation ==
    /\ HeadOp
    /\ chain' = Tail(chain)
    /\ LET op == chain[1][1]
           j == chain[1][2]
       IN  IF Unknown(op, j)
           THEN Leave(mem, {}) /\ UNCHANGED <<disk, shared, armed, spent, excused>>
           ELSE IF op = "read"
           THEN /\ SaveIfChanged(HeadStore, mem)
                /\ excused' = excused \union Aged(mem)
                /\ UNCHANGED <<shared, armed, spent>>
           ELSE /\ Save(HeadStore, {j})
                /\ shared' = shared \ {j}
                /\ armed' = Armed(mem')
                /\ spent' = IF op \in {"enable", "add"} THEN spent \ {j} ELSE spent
                /\ excused' = excused \union
                        (IF op = "add" THEN Aged(mem) \union {i \in Jobs : promised[i] # 0}
                         ELSE Active \intersect {j})
    /\ UNCHANGED <<pc, run, skip>>

----------------------------------------------------------------------------
(* Time, failures and restarts.                                              *)

Clock ==
    /\ now < MaxTime
    /\ now' = now + 1
    /\ promised' = IF pc["start"] = "boot" THEN promised ELSE Owe(mem, now + 1, {})
    /\ UNCHANGED <<mem, disk, chain, pc, run, skip, shared, armed, bounds, spent, excused>>

(* Whether the section in front, no preflight, saves the store s it leaves.  *)
Saves(s) ==
    /\ HeadIs("start", "plan") => MissedJobs # {}
    /\ HeadIs("start", "finish") \/ (HeadOp /\ chain[1][1] = "read") => s # mem
    /\ HeadIs("tick", "mark") => Due # {} \/ s # Loaded
    /\ HeadOp => ~Unknown(chain[1][1], chain[1][2])
    /\ \A m \in Manuals :
          /\ HeadIs(m, "reserve") => ~Unavailable(m)
          /\ HeadIs(m, "finish") => mem.config[ManualJob[m]] # "none"

(* Saving fails: the section is over and its store stays in memory only.  A  *)
(* tick sets its timer again.  (A start that fails leaves no timer; not      *)
(* modelled.)                                                                *)
SaveFails ==
    /\ mishaps < MaxMishaps
    /\ \/ HeadIs("tick", "mark") \/ HeadIs("tick", "apply") \/ HeadOp
       \/ \E m \in Manuals : HeadIs(m, "reserve") \/ HeadIs(m, "finish")
    /\ \E s \in {HeadStore}, who \in {chain[1][1]} :
         /\ Saves(s) /\ s # disk
         /\ mem' = s
         /\ promised' = Owe(s, now, IF HeadOp THEN {chain[1][2]} ELSE {})
         /\ excused' = excused \union {j \in Jobs : s.config[j] # disk.config[j]
                                               \/ s.state[j] # disk.state[j]}
         /\ pc' = IF HeadOp THEN pc
                  ELSE [pc EXCEPT ![who] = IF who = "tick" THEN "idle" ELSE "done"]
         /\ run' = IF HeadOp THEN run ELSE [run EXCEPT ![who] = Idle]
         /\ armed' = IF who = "tick" THEN Armed(s) ELSE armed
         /\ shared' = {}
    /\ chain' = Tail(chain)
    /\ mishaps' = mishaps + 1
    /\ UNCHANGED <<now, disk, skip, ops, spent>>

(* The process dies and starts again; a run that it was executing is lost.   *)
Restart ==
    /\ mishaps < MaxMishaps
    /\ mishaps' = mishaps + 1
    /\ mem' = disk'
    /\ chain' = << <<"start", "-">> >>
    /\ pc' = [r \in Runners |-> IF r = "start" THEN "boot"
                               ELSE IF r = "tick" \/ pc[r] = "idle" THEN "idle" ELSE "done"]
    /\ run' = [r \in Runners |-> Idle]
    /\ skip' = {} /\ shared' = {} /\ armed' = FALSE
    /\ promised' = [j \in Jobs |-> 0]
    /\ UNCHANGED <<now, ops>>

Crash == UNCHANGED <<disk, spent, excused>> /\ Restart

(* saveCronStore writes the state first, then the configuration: a crash     *)
(* between the two leaves the old configuration, and a retry put down in the *)
(* state, or a marker removed as too old.                                    *)
CrashInSave ==
    /\ chain # <<>> /\ ~\E m \in Manuals : HeadIs(m, "preflight")
    /\ \E s \in {HeadStore} :
         /\ Saves(s) /\ s.config # disk.config
         /\ disk' = [disk EXCEPT !.state = s.state]
         /\ excused' = excused \union {j \in Jobs : s.config[j] # disk.config[j]}
                              \union Aged(mem) \union Aged(disk)
    /\ LET who == chain[1][1] IN
       spent' = IF HeadOp THEN spent
                ELSE spent \ ToRetry(who, IF who = "tick" THEN Loaded ELSE mem)
    /\ Restart

TickStep == TickMark \/ TickApply
StartStep == BootSection \/ PlanSection \/ StartApply \/ StartFinish
ManualStep(m) == Preflight(m) \/ Reserve(m) \/ Finish(m)
Section == StartStep \/ TickStep \/ Operation \/ \E m \in Manuals : ManualStep(m)
Execution ==
    \E r \in Runners, j \in Jobs :
        Begin(r, j) \/ \E status \in Outcomes(j) : End(r, j, status)

Next ==
    \/ Section \/ Execution \/ TimerFires \/ Clock
    \/ \E m \in Manuals : Call(m)
    \/ \E op \in Ops, j \in Jobs : Ask(op, j)
    \/ SaveFails \/ Crash \/ CrashInSave

Spec == Init /\ [][Next]_vars

(* The event loop runs the sections, the timers and the jobs; a job ends     *)
(* (executeJobCoreWithTimeout).  Time need not pass.  The second conjunct is *)
(* WF_vars(Section): a section is enabled whenever the chain is not empty.   *)
FairSpec ==
    /\ Spec
    /\ []<>(chain = <<>>) \/ []<><<Section>>_vars
    /\ WF_vars(TimerFires) /\ WF_vars(Execution)

----------------------------------------------------------------------------
(* Properties.                                                               *)

StateType == [next : Nat, running : Nat, last : Nat, ended : Nat,
              status : {"none", "ok", "error"}, errors : 0..MaxRetries + 1]
StoreType == [config : [Jobs -> {"on", "off", "none"}], state : [Jobs -> StateType]]

(* Types; a runner is in the chain exactly when it waits for its section,    *)
(* and once: two sections of one tick, or of one manual run, never overlap.  *)
Waits == {"boot", "plan", "mark", "preflight", "reserve", "apply", "finish"}
TypeOK ==
    /\ now \in 1..MaxTime
    /\ mem \in StoreType /\ disk \in StoreType
    /\ pc \in [Runners -> Waits \union {"idle", "runs", "run", "done"}]
    /\ \A r \in Runners :
          Cardinality({i \in DOMAIN chain : chain[i][1] = r}) = IF pc[r] \in Waits THEN 1 ELSE 0
    /\ \A r \in Runners, j \in Jobs :
          run[r][j].pc \in {"waiting", "executing", "ended"} => pc[r] \in {"runs", "run", "apply", "finish"}
    /\ promised \in [Jobs -> Nat]
    /\ skip \union shared \union spent \union excused \subseteq Jobs
    /\ armed \in BOOLEAN

(* No slot is skipped: from the moment a run is due until it begins, no tick,*)
(* manual run, listing, result of another job or restart moves the job's     *)
(* next run past it (recomputeNextRunsForMaintenance, #13992 and #17852).    *)
NoSlotSkipped ==
    pc["start"] # "boot" =>
        \A j \in Jobs \ excused :
            promised[j] # 0 => \/ mem.state[j].running # 0
                              \/ mem.state[j].next \in 1..promised[j]

(* Two runs of one job never execute at once, whether a tick, the startup or *)
(* a manual run began them (runningAtMs, saved before the lock is released), *)
(* unless the job was changed under its run or a marker grew too old.        *)
NoOverlap ==
    \A j \in Jobs \ excused : Cardinality({r \in Runners : run[r][j].pc = "executing"}) <= 1

(* The scheduler runs a one-shot once: after it was begun it begins it again *)
(* only as a retry or when it was enabled anew, also after crashes           *)
(* (markInterruptedStartupRun, isRunnableJob).                               *)
OneShotOnce ==
    [][\A r \in Scheduled, j \in spent \ excused : ~Begin(r, j)]_vars

(* A slot that is due is run: whatever the tick, the manual runs and the     *)
(* failures do, the timer stays set and the job begins in the end.           *)
OwedSlotsRun ==
    \A j \in Jobs :
        promised[j] \in 1..now ~> (promised[j] \notin 1..now \/ j \in excused)

=============================================================================
