----------------------------- MODULE AgentLanes -----------------------------
(***************************************************************************)
(* Agent runs on the nested lanes of the gateway.  runEmbeddedPiAgent       *)
(* (src/gateway/src/agents/pi-embedded-runner/run.ts) puts a run into the   *)
(* lane of its session and, from there, into a global lane; a manual cron   *)
(* run holds a slot of the cron lane around both.  Around them: the timeout *)
(* of the innermost task, the recovery of a stuck session, the interrupting *)
(* message, the suspension of a global lane, and the in-process restart.    *)
(* The gateway is one JavaScript process: an action is a callback that runs *)
(* to its end, and the promise callbacks it leaves behind (Begin, Complete) *)
(* run before the next timer or network event (Quiet).                      *)
(***************************************************************************)
EXTENDS Naturals, FiniteSets, Sequences

CONSTANTS
    Runs,         \* agent runs
    Priority,     \* [Runs -> Nat], from the trigger of the run
    Sessions,     \* session lanes
    SessionOf,    \* [Runs -> Sessions]
    CronRuns,     \* the runs started by enqueueRun of the cron service
    Timed,        \* the runs with a lane timeout (timeoutMs > 0)
    Width,        \* configured width of the global lanes
    Disturb,      \* which disturbances can happen
    MaxDisturb    \* bound: how many of them

GlobalLanes == {"main", "cron", "cron-nested"}
Lanes == Sessions \union GlobalLanes
Disturbances == {"recover", "interrupt", "suspend", "restart"}

ASSUME LanesAssumption ==
    /\ IsFiniteSet(Runs)
    /\ Priority \in [Runs -> Nat]
    /\ Sessions \intersect GlobalLanes = {}
    /\ SessionOf \in [Runs -> Sessions]
    /\ CronRuns \subseteq Runs
    /\ Timed \subseteq Runs
    /\ Width \in [GlobalLanes -> Nat]
    /\ Disturb \subseteq Disturbances
    /\ MaxDisturb \in Nat

VARIABLES
    lane,        \* the lanes of the command queue
    level,       \* how many lanes of its path a run has entered and not left
    phase,       \* where it stands in the innermost of them
    taskGen,     \* generation in which a run's task of a lane was started
    work,        \* the agent attempt itself: "idle", "working", "over"
    outcome,     \* how the promise of the innermost task was settled
    aborted,     \* runs whose abort signal has fired
    suspended,   \* laneResumeTimers: lanes that a timer will reopen
    gateway,     \* "up", "draining", "drained", "expired"
    captured,    \* the tasks the restart waits for
    disturbed,   \* bound: disturbances so far
    givenUp,     \* history: runs that lost their session slot before their end
    ahead        \* history: who was before a run in its session

vars == <<lane, level, phase, taskGen, work, outcome, aborted, suspended,
          gateway, captured, disturbed, givenUp, ahead>>

CQ == INSTANCE CommandQueue WITH Entries <- Runs, Priority <- Priority

(* resolveGlobalLane: the agent of a cron job does not wait for the slot its *)
(* job holds.                                                                *)
GlobalLane(r) == IF r \in CronRuns THEN "cron-nested" ELSE "main"

(* The lanes of a run, from the outermost in. *)
Path(r) == (IF r \in CronRuns THEN <<"cron">> ELSE <<>>) \o <<SessionOf[r], GlobalLane(r)>>
Here(r) == Path(r)[level[r]]

Init ==
    /\ lane = [l \in Lanes |-> CQ!EmptyLane(IF l \in Sessions THEN 1 ELSE Width[l])]
    /\ level = [r \in Runs |-> 0]
    /\ phase = [r \in Runs |-> "new"]
    /\ taskGen = [r \in Runs |-> [l \in Lanes |-> 0]]
    /\ work = [r \in Runs |-> "idle"]
    /\ outcome = [r \in Runs |-> "none"]
    /\ aborted = {}
    /\ suspended = {}
    /\ gateway = "up"
    /\ captured = {}
    /\ disturbed = 0
    /\ givenUp = {}
    /\ ahead = [r \in Runs |-> {}]

----------------------------------------------------------------------------
(* A callback is still to run. A cron job goes on only after it has read and *)
(* written its store.                                                        *)
Quiet == \A r \in Runs : phase[r] \in {"begun", "closing"} => Here(r) = "cron"

(* The lanes of L are drained from the states st, and the others are left in *)
(* those states; the entries that are shifted out of a queue begin.          *)
Drain(L, st, ph) ==
    /\ lane' = [l \in Lanes |-> IF l \in L THEN CQ!Pump(st[l]) ELSE st[l]]
    /\ phase' = [r \in Runs |-> IF \E l \in L : r \in CQ!Started(st[l])
                                THEN "begun" ELSE ph[r]]
    /\ taskGen' = [r \in Runs |-> [l \in Lanes |->
                      IF l \in L /\ r \in CQ!Started(st[l])
                      THEN st[l].gen ELSE taskGen[r][l]]]

(* The runs of r's session that wait or run before it will.                  *)
InSession(r) == {q \in Runs : SessionOf[q] = SessionOf[r]}
Before(r) == {q \in InSession(r) \ {r} :
                 /\ phase[q] \notin {"new", "done"}
                 /\ q \in CronRuns => level[q] > 1
                 /\ Priority[q] >= Priority[r] \/ q \in lane[SessionOf[q]].active}

(* Faulty variant, for the mutation runs only: a draining gateway accepts    *)
(* what is enqueued from within.                                             *)
EnterWhileDraining(r, k) ==
    LET l == Path(r)[k] IN
    /\ Drain({l}, [lane EXCEPT ![l] = CQ!Enqueue(@, r)], [phase EXCEPT ![r] = "queued"])
    /\ level' = [level EXCEPT ![r] = k]
    /\ ahead' = IF l = SessionOf[r] THEN [ahead EXCEPT ![r] = Before(r)] ELSE ahead

(* enqueueCommandInLane of the k-th lane of r, while restarts are not        *)
(* draining.                                                                 *)
Enter(r, k) ==
    LET l == Path(r)[k] IN
    /\ gateway = "up"
    /\ Drain({l}, [lane EXCEPT ![l] = CQ!Enqueue(@, r)], [phase EXCEPT ![r] = "queued"])
    /\ level' = [level EXCEPT ![r] = k]
    /\ ahead' = IF l = SessionOf[r] THEN [ahead EXCEPT ![r] = Before(r)] ELSE ahead

(* Its innermost promise is rejected or resolved.                            *)
Settle(r, why) ==
    /\ phase' = [phase EXCEPT ![r] = "closing"]
    /\ outcome' = [outcome EXCEPT ![r] = why]

(* A run reaches the gateway.                                                *)
Accept(r) ==
    /\ Quiet
    /\ phase[r] = "new"
    /\ Enter(r, 1)
    /\ UNCHANGED <<work, outcome, aborted, suspended, gateway, captured, disturbed, givenUp>>

(* GatewayDrainingError at the first lane.                                   *)
Refuse(r) ==
    /\ Quiet
    /\ phase[r] = "new"
    /\ gateway # "up"
    /\ phase' = [phase EXCEPT ![r] = "done"]
    /\ outcome' = [outcome EXCEPT ![r] = "refused"]
    /\ UNCHANGED <<lane, level, taskGen, work, aborted, suspended, gateway, captured,
                   disturbed, givenUp, ahead>>

(* The task of an outer lane: throwIfAborted, then the next enqueue.         *)
BeginNested(r) ==
    /\ phase[r] = "begun"
    /\ Here(r) = "cron" => Quiet
    /\ level[r] < Len(Path(r))
    /\ \/ /\ r \in aborted
          /\ Settle(r, "aborted")
          /\ UNCHANGED <<lane, level, taskGen, ahead>>
       \/ /\ r \notin aborted
          /\ gateway # "up"
          /\ Settle(r, "draining")
          /\ UNCHANGED <<lane, level, taskGen, ahead>>
       \/ /\ r \notin aborted
          /\ Enter(r, level[r] + 1)
          /\ UNCHANGED outcome
    /\ UNCHANGED <<work, aborted, suspended, gateway, captured, disturbed, givenUp>>

(* The task of the innermost lane: throwIfAborted, then the agent attempt.   *)
BeginWork(r) ==
    /\ phase[r] = "begun"
    /\ level[r] = Len(Path(r))
    /\ IF r \in aborted
       THEN Settle(r, "aborted") /\ work' = work
       ELSE /\ phase' = [phase EXCEPT ![r] = "working"]
            /\ work' = [work EXCEPT ![r] = "working"]
            /\ outcome' = outcome
    /\ UNCHANGED <<lane, level, taskGen, aborted, suspended, gateway, captured,
                   disturbed, givenUp, ahead>>

(* The attempt ends, well or not; nobody listens if its lane gave it up.     *)
WorkEnds(r) ==
    /\ Quiet
    /\ work[r] = "working"
    /\ work' = [work EXCEPT ![r] = "over"]
    /\ IF phase[r] = "working" THEN Settle(r, "ended") ELSE UNCHANGED <<phase, outcome>>
    /\ UNCHANGED <<lane, level, taskGen, aborted, suspended, gateway, captured,
                   disturbed, givenUp, ahead>>

(* Faulty variant, for the mutation runs only: the timer of a task whose lane*)
(* was reset is ignored.                                                     *)
LaneTimeoutCurrent(r) ==
    /\ Quiet
    /\ r \in Timed
    /\ phase[r] = "working"
    /\ CQ!Current(lane[Here(r)], taskGen[r][Here(r)])
    /\ Settle(r, "timeout")
    /\ givenUp' = givenUp \union {r}
    /\ UNCHANGED <<lane, level, taskGen, work, aborted, suspended, gateway, captured,
                   disturbed, ahead>>

(* runQueueEntryTask: the timer wins the race, the attempt goes on.          *)
LaneTimeout(r) ==
    /\ Quiet
    /\ r \in Timed
    /\ phase[r] = "working"
    /\ Settle(r, "timeout")
    /\ givenUp' = givenUp \union {r}
    /\ UNCHANGED <<lane, level, taskGen, work, aborted, suspended, gateway, captured,
                   disturbed, ahead>>

(* Faulty variant, for the mutation runs only: the queue behind a completed  *)
(* task is not pumped.                                                       *)
CompleteWithoutPump(r) ==
    LET l == Here(r) IN
    /\ phase[r] = "closing"
    /\ l = "cron" => Quiet
    /\ lane' = IF CQ!Current(lane[l], taskGen[r][l])
               THEN [lane EXCEPT ![l] = CQ!Completed(@, r)] ELSE lane
    /\ phase' = [phase EXCEPT ![r] = IF level[r] = 1 THEN "done" ELSE "closing"]
    /\ level' = [level EXCEPT ![r] = @ - 1]
    /\ UNCHANGED <<taskGen, work, outcome, aborted, suspended, gateway, captured, disturbed,
                   givenUp, ahead>>

(* A task ends: its slot is freed and the lane pumped, unless the lane was   *)
(* reset since; then the promise the next lane out waits for is settled.     *)
Complete(r) ==
    LET l == Here(r)
        current == CQ!Current(lane[l], taskGen[r][l]) IN
    /\ phase[r] = "closing"
    /\ l = "cron" => Quiet
    /\ Drain(IF current THEN {l} ELSE {},
             IF current THEN [lane EXCEPT ![l] = CQ!Completed(@, r)] ELSE lane,
             [phase EXCEPT ![r] = IF level[r] = 1 THEN "done" ELSE "closing"])
    /\ level' = [level EXCEPT ![r] = @ - 1]
    /\ UNCHANGED <<work, outcome, aborted, suspended, gateway, captured, disturbed,
                   givenUp, ahead>>

RunStep(r) == BeginNested(r) \/ BeginWork(r) \/ Complete(r)

----------------------------------------------------------------------------
(* What disturbs the lanes, at most MaxDisturb times in all.                 *)

Disturbed(kind) ==
    /\ Quiet
    /\ kind \in Disturb
    /\ disturbed < MaxDisturb
    /\ disturbed' = disturbed + 1

(* isEmbeddedPiRunActive: a run handle is registered while the attempt works,*)
(* and a reply operation from the session slot on for all but cron runs.     *)
Registered(r) ==
    \/ work[r] = "working"
    \/ r \in lane[SessionOf[r]].active /\ r \notin CronRuns

(* Queue mode "interrupt": clearCommandLane rejects what waits in the session*)
(* lane, and the active run of the session is aborted.                       *)
Interrupt(s) ==
    LET dropped == {r \in Runs : \E i \in DOMAIN lane[s].queue : lane[s].queue[i] = r} IN
    /\ Disturbed("interrupt")
    /\ lane' = [lane EXCEPT ![s] = CQ!Cleared(@)]
    /\ phase' = [r \in Runs |-> IF r \notin dropped THEN phase[r]
                               ELSE IF level[r] = 1 THEN "done" ELSE "closing"]
    /\ level' = [r \in Runs |-> IF r \in dropped THEN level[r] - 1 ELSE level[r]]
    /\ outcome' = [r \in Runs |-> IF r \in dropped THEN "cleared" ELSE outcome[r]]
    /\ aborted' = aborted \union {r \in Runs : SessionOf[r] = s /\ Registered(r)}
    /\ UNCHANGED <<taskGen, work, suspended, gateway, captured, givenUp, ahead>>

(* recoverStuckDiagnosticSession, of a run that ends when it is aborted: the *)
(* lane is left alone.                                                       *)
RecoverByAbort(r) ==
    /\ Disturbed("recover")
    /\ Registered(r)
    /\ aborted' = aborted \union {r}
    /\ UNCHANGED <<lane, level, phase, taskGen, work, outcome, suspended, gateway,
                   captured, givenUp, ahead>>

(* The run registered for the session could not be aborted, or has not ended *)
(* within the settle time: the lane is reset under whoever holds it.         *)
Recover(s) ==
    /\ Disturbed("recover")
    /\ \E r \in Runs :
          /\ SessionOf[r] = s /\ Registered(r)
          /\ aborted' \in {aborted, aborted \union {r}}
    /\ Drain({s}, [lane EXCEPT ![s] = CQ!Reset(@)], phase)
    /\ givenUp' = givenUp \union lane[s].active
    /\ UNCHANGED <<level, work, outcome, suspended, gateway, captured, ahead>>

(* suspendSession: an attempt met an exhausted quota; its global lane is shut*)
(* and a timer will reopen it.                                               *)
Suspend(r) ==
    LET l == GlobalLane(r) IN
    /\ Disturbed("suspend")
    /\ work[r] = "working"
    /\ lane' = [lane EXCEPT ![l] = CQ!Widen(@, 0)]
    /\ suspended' = suspended \union {l}
    /\ UNCHANGED <<level, phase, taskGen, work, outcome, aborted, gateway, captured,
                   givenUp, ahead>>

(* scheduleLaneAutoResume's timer.                                           *)
AutoResume(l) ==
    /\ Quiet
    /\ l \in suspended
    /\ Drain({l}, [lane EXCEPT ![l] = CQ!Widen(@, Width[l])], phase)
    /\ suspended' = suspended \ {l}
    /\ UNCHANGED <<level, work, outcome, aborted, gateway, captured, disturbed, givenUp, ahead>>

(* applyGatewayLaneConcurrency, at a configuration reload and at each start: *)
(* it reopens a suspended lane too.                                          *)
ApplyConcurrency ==
    /\ Quiet
    /\ Drain(GlobalLanes, [l \in Lanes |-> IF l \in GlobalLanes
                                           THEN CQ!Widen(lane[l], Width[l]) ELSE lane[l]], phase)
    /\ UNCHANGED <<level, work, outcome, aborted, suspended, gateway, captured, disturbed,
                   givenUp, ahead>>

(* A restart is accepted: markGatewayDraining, then waitForActiveTasks.      *)
BeginRestart ==
    /\ Disturbed("restart")
    /\ gateway = "up"
    /\ gateway' = "draining"
    /\ captured' = {c \in Runs \X Lanes : c[1] \in lane[c[2]].active}
    /\ UNCHANGED <<lane, level, phase, taskGen, work, outcome, aborted, suspended,
                   givenUp, ahead>>

(* hasPendingActiveTasks of what was active then.                            *)
Pending == {c \in captured : c[1] \in lane[c[2]].active}

(* The waiter is notified: none of them is active any more.                  *)
DrainCompletes ==
    /\ Quiet
    /\ gateway = "draining"
    /\ Pending = {}
    /\ gateway' = "drained"
    /\ UNCHANGED <<lane, level, phase, taskGen, work, outcome, aborted, suspended,
                   captured, disturbed, givenUp, ahead>>

(* Its timeout passes first: whatever is registered is told to stop.         *)
DrainExpires ==
    /\ Quiet
    /\ gateway = "draining"
    /\ Pending # {}
    /\ gateway' = "expired"
    /\ aborted' = aborted \union {r \in Runs : Registered(r)}
    /\ UNCHANGED <<lane, level, phase, taskGen, work, outcome, suspended,
                   captured, disturbed, givenUp, ahead>>

(* The next iteration of the restart loop begins with resetAllLanes.         *)
NextIteration ==
    /\ Quiet
    /\ gateway \in {"drained", "expired"}
    /\ gateway' = "up"
    /\ captured' = {}
    /\ Drain(Lanes, [l \in Lanes |-> CQ!Reset(lane[l])], phase)
    /\ givenUp' = givenUp \union UNION {lane[s].active : s \in Sessions}
    /\ UNCHANGED <<level, work, outcome, aborted, suspended, disturbed, ahead>>

GatewayStep == DrainCompletes \/ DrainExpires \/ NextIteration

Next ==
    \/ \E r \in Runs : \/ Accept(r) \/ Refuse(r) \/ RunStep(r) \/ WorkEnds(r)
                       \/ LaneTimeout(r) \/ RecoverByAbort(r) \/ Suspend(r)
    \/ \E s \in Sessions : Interrupt(s) \/ Recover(s)
    \/ \E l \in GlobalLanes : AutoResume(l)
    \/ ApplyConcurrency \/ BeginRestart \/ GatewayStep

Spec == Init /\ [][Next]_vars

(***************************************************************************)
(* The event loop runs: as long as a promise callback, a due timer or a     *)
(* step of the restart loop is there, one of them takes place.  Nothing is  *)
(* assumed of the agent attempts: each of them may hang for ever.           *)
(***************************************************************************)
EventLoop ==
    \/ \E r \in Runs : RunStep(r) \/ LaneTimeout(r)
    \/ \E l \in GlobalLanes : AutoResume(l)
    \/ GatewayStep

FairSpec == Spec /\ WF_vars(EventLoop)

----------------------------------------------------------------------------
TypeOK ==
    /\ lane \in [Lanes -> CQ!LaneState]
    /\ level \in [Runs -> 0 .. 3]
    /\ phase \in [Runs -> {"new", "queued", "begun", "working", "closing", "done"}]
    /\ taskGen \in [Runs -> [Lanes -> Nat]]
    /\ work \in [Runs -> {"idle", "working", "over"}]
    /\ outcome \in [Runs -> {"none", "refused", "draining", "aborted", "cleared",
                             "timeout", "ended"}]
    /\ aborted \subseteq Runs
    /\ suspended \subseteq GlobalLanes
    /\ gateway \in {"up", "draining", "drained", "expired"}
    /\ captured \subseteq Runs \X Lanes
    /\ disturbed \in Nat
    /\ givenUp \subseteq Runs
    /\ ahead \in [Runs -> SUBSET Runs]

(* The runs that hold a slot of lane l, by their own account.                *)
Holders(l) ==
    {r \in Runs : \E k \in 1 .. level[r] :
        /\ Path(r)[k] = l
        /\ k = level[r] => phase[r] # "queued"}

(***************************************************************************)
(* Slots and tasks agree: a slot is taken exactly by the tasks of the       *)
(* lane's present generation that have not ended, so none leaks after a     *)
(* timeout, an abort or a rejected inner promise, and no completion from    *)
(* before a reset frees a slot of somebody else.                            *)
(***************************************************************************)
SlotsHaveOwners ==
    \A l \in Lanes :
        lane[l].active = {r \in Holders(l) : taskGen[r][l] = lane[l].gen}

(***************************************************************************)
(* No lost wakeup: an entry waits only while every slot of its lane is      *)
(* taken or the lane is shut, after every completion, clearing, reset,      *)
(* resize and restart.                                                      *)
(***************************************************************************)
NoIdleSlot ==
    \A l \in Lanes :
        lane[l].queue # <<>> => Cardinality(lane[l].active) >= lane[l].max

(***************************************************************************)
(* waitForActiveTasks sees only the tasks active when it was called, and    *)
(* tasks still start after that; yet when it answers "drained" no agent     *)
(* attempt is under way, except those whose lane had given them up.         *)
(***************************************************************************)
DrainedMeansIdle ==
    gateway = "drained" => \A r \in Runs : work[r] = "working" => r \in givenUp

(* Each run's turn, as the session sees it. *)
Turn ==
    [r \in Runs |-> CASE work[r] = "over" -> "over"
                      [] work[r] = "working" -> "running"
                      [] work[r] = "idle" /\ phase[r] = "new" -> "new"
                      [] OTHER -> IF outcome[r] = "none" THEN "waiting" ELSE "over"]
Serial == INSTANCE SerialTurns WITH turn <- Turn, loose <- givenUp

(***************************************************************************)
(* Session lane and global lane together implement serial turns: two        *)
(* attempts of a session overlap only when one of them had lost its slot.   *)
(***************************************************************************)
ImplementsSerialTurns == Serial!Spec

(***************************************************************************)
(* Turns keep their order through both lanes: when an attempt begins, every *)
(* run of its session that was before it at its arrival has had its turn,   *)
(* was answered without one, or one of the two had lost the session slot.   *)
(***************************************************************************)
TurnsInOrder ==
    [][\A r \in Runs : work[r] = "idle" /\ work'[r] = "working" =>
          \A q \in ahead[r] : \/ work[q] = "over" \/ outcome[q] # "none"
                              \/ {q, r} \intersect givenUp # {}]_vars

(***************************************************************************)
(* Every run that reaches the gateway is answered, although every attempt   *)
(* may hang, a lane be shut for a while, a session be reset and the gateway *)
(* restarted: no deadlock between the nested lanes.  (An answered run stays *)
(* answered and there are finitely many.)                                   *)
(***************************************************************************)
RunsAnswered == <>[](\A r \in Runs : phase[r] \in {"new", "done"})
=============================================================================
