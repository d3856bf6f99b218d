# P.A.R.K.E.R in TLA+

This directory holds the formal model of P.A.R.K.E.R: TLA+ modules translated
from the sources, the TLC configurations that check them, and theorems about them
that the TLA+ proof system (TLAPS) checks. Paths are relative to the root of the
repository.

## 1. The system

Two programs work together. **Parker** is a personal assistant in Python: an
interactive process (`main.py`) and any number of one-shot *bridge* processes
(`parker_bridge.py`) run conversation turns through one LangGraph graph
(`graph.py`). They share a PostgreSQL store, in which background threads keep what
is worth remembering, and a checkpointer, which keeps each conversation thread.
The **gateway** is a long-lived TypeScript process (`gateway/src`): it takes
messages from chat channels, queues them by session, runs an agent attempt for
each turn (one of its harnesses spawns a Parker bridge), delivers the answers, and
runs jobs on a schedule.

```
 channels ─▶ auto-reply ─▶ followup queue ─▶ command lanes ─▶ agent attempt ─▶ bridge
    ▲            (session busy: wait)          (session, global)     │            │
    └── outbound delivery queue ◀── answers ─────────────────────────┘            │
          (files, recovery)          cron service ─▶ cron lane, main session      │
 user ── main.py ──ask──▶ graph.py ◀───────────────────────────────────invoke─────┘
                            │ trigger ─▶ retrieve ─▶ chat ⇄ computer ─▶ remember
        memory/unified.py, memory/episodes.py ◀── background threads (memory/utils.py)
 session hooks (main.py) ──▶ memory/rollup/, archives      models.py (rotating API keys)
```

| Component | State | Operations | What is hard | What makes it correct |
| --- | --- | --- | --- | --- |
| Key rotation (`models.py`) | instances, one shared index, a lock | `invoke`, `_get_next_instance` | threads interleave on the index; keys become limited at any time | no key is skipped, load is balanced, every call ends |
| Unified save (`memory/unified.py`) | four namespaces of the store; the locals of the thread | lock, scan, ask, put, release | a model call of seconds between read and write; any step can fail | read-modify-write is atomic, nothing is lost, no deadlock |
| Locks and jobs (`memory/utils.py`) | locks by namespace, the tracked threads | `get_ns_lock`, `start_background_job`, `wait_for_background_jobs`, `full_scan` | the drain races with threads; a scan hides its failures | the drain sees every thread, shutdown ends |
| Summary tree (`memory/rollup/`, `memory/episodes.py`) | chat entries, day, week, month and year summaries, `last_session` | write a turn, close past periods, refresh current ones | crashes between sessions, midnight, period boundaries, a model that fails | every day is made up for; a summary the model makes of complete items loses nothing |
| Conversation graph (`graph.py`) | messages, computer result, checkpoint | five nodes, one router | a node raises half way; the checkpoint survives; the history grows | the right question is answered, the right pair is remembered |
| Session (`main.py`), bridge (`parker_bridge.py`), connections (`database.py`) | life of the process, connections | start hooks, turns, drain, end hook, close | exits under running threads, exception paths | nothing hangs, nothing is cut off unnoticed |
| Command lanes (`gateway/src/process/command-queue.ts`) | per lane a priority queue, active tasks, a width, a generation | enqueue, drain, complete, clear, reset, resize, wait for what is active | stale completions after a reset, lost wakeups, nested lanes | slots have owners, nobody waits beside a free slot, no deadlock |
| Agent runs (`agents/pi-embedded-runner`, stuck-session recovery, suspension, restart loop) | where a run stands in its lanes, its attempt, its abort signal | nest, time out, interrupt, recover, suspend, resume, restart | an attempt goes on after its lane gave it up | turns of a session one at a time and in order, every run answered |
| Followup queue (`auto-reply/reply/queue`) | items, mode, summary of dropped ones, a drain loop with awaits | enqueue, drop at the cap, drain, defer, clear | the queue changes while a round runs; stale view of the active run | nothing lost, a delivery runs once and a redelivered one only when its id was forgotten, in order, drained in the end |
| Delivery queue (`infra/outbound`) | a file per message, claims in memory | enqueue, mark, send, ack, fail, recover, drain | crashes between mark, send and ack; scans beside the live send | one owner, nothing lost, no blind replay, the queue of a drained account empties |
| Cron service (`cron/service`) | jobs and their states in memory and in two files, a timer, a chain of locked sections | start and catch-up, tick, manual run, add, enable, disable, remove | runs outside the lock, crashes between saves, slots that move | no slot skipped, no job overlaps itself, a one-shot runs once |
| Archives and task board (`memory/facts.py`, `projects.py`, `tasks.py`) | active and archive namespaces, task status | put then delete, filter, monitor | a bridge writes between the two steps; status vocabulary | a record is in one place, a due task is announced |
| Task flows (`computer/taskflow*.py`) | a JSON file and a log per flow | start, run, list, read | two processes write a file that others read; the runner dies | a flow ends in a final status |
| Speech (`mouth.py`), live voice (`live_voice.py`), listener (`ears.py`) | a queue and a stop flag; an event and a thread | speak, stop, start, stop | flags set and cleared by different threads | a stop stops what is being said and nothing else |
| Retrieval, skills, importer, patterns, profile | none of their own | read, rank, format; batches of puts | little | sequential |
| Gateway server, session files, configuration; attempts and transports; channels, plugins, applications | connections, files, streams | requests, tool calls, model calls | input and output | seen by the models as outcomes |

The hazards, each with the line where it bites and the property that would catch
it, are listed in `PROJECT.json`.

## 2. Modules

| Module | Models | Kind |
| --- | --- | --- |
| `KeyRotation`, `KeyRotation_proofs` | the rotating pools of `models.py` | specification; theorems |
| `MemoryRecords` | what a save reads and writes | operators |
| `AtomicMemory` | what the locks promise: the saves write one after the other | abstract specification |
| `UnifiedMemory`, `MCUnifiedMemory`, `UnifiedMemory_proofs` | saves, locks, drain, exit, several processes | specification; instances; theorems |
| `Rollup`, `MCRollup`, `Rollup_proofs` | the summary tree and the session hooks | specification; instances; theorems |
| `ChatGraph`, `ChatGraph_proofs` | one conversation thread | specification; theorems |
| `CommandQueue` | the synchronous operations on one lane | operators |
| `SerialTurns` | what the lanes promise a session: one turn at a time | abstract specification |
| `AgentLanes`, `MCAgentLanes`, `AgentLanes_proofs` | runs in nested lanes, and all that disturbs them; composes `CommandQueue`, refines `SerialTurns` | specification; instances; theorems |
| `FollowupQueue`, `MCFollowupQueue`, `FollowupQueue_proofs` | the queue of messages of one session and its drain | specification; instances; theorems |
| `DeliveryQueue`, `DeliveryQueue_proofs` | the write-ahead queue of outbound messages | specification; theorems |
| `CronService`, `MCCronService`, `CronService_proofs` | the scheduler, its store and its restarts | specification; instances; theorems |

In every module an operator marked "faulty variant" is a mutation: a plausible
bug of the action that follows it. No specification uses one; each exists to
show that some property would notice it.

### KeyRotation

`index` is `self._index`; `attempts` counts the passes of `for i in range(N)`;
`inst` is the local `inst`. `GetNextInstance` is the critical section,
`Answered`, `RateLimited` and `OtherError` the three ways the `try` can end
(return, `continue`, `break`), `RotationExhausted` the end of the loop,
`Fallback` the last line. `limited` is the provider's side: `QuotaChange` flips a
key at any moment. `tried`, `seen`, `disturbed`, `picks` and `gaveUp` are history variables. With two
threads on the pool a call may be handed the same key twice and fall back without
having tried another, so that its warning "All rotated keys rate limited" holds
only of an undisturbed call.
`RotatedStructuredModel` has the same code.

### UnifiedMemory

A job is one `_extract_and_save_unified` thread. Its program counter follows the
function: `lock` (four times, in the order facts, profile, projects, tasks),
`scan` (four times), `ask`, `put` (profile, facts, projects, tasks), `unlock`
(four times, in reverse), `finish` (the `finally` of the runner). `cursor` counts
within a phase. A namespace is one contested record, abstracted to who created
it and whose contributions it holds, which is what a lost update destroys; with
`Writes` and `Written` it says when and what each `store.put` writes for an
`add`, `update` or `complete` item. `AskModel` picks any payload of `Payloads`: per
namespace the list of the items that name the record, as nothing keeps the model
from naming one key twice, or two names that `sanitize_key` makes equal. `Put` and
`SkipPut` are one item of the loop, `NextNamespace` its end. Every item is computed from
the scan at the top, so a later item of a key replaces what an earlier one has put.
`AtomicMemory` says so too: a save reads the store in the instant of its first write
(`base`), writes items computed from that reading, and is `over` once another has
written. `turn` is the history that shows it. `NothingExtracted` is a model that raises or an answer that does not parse;
`PutFails` is the `except` around everything, so that a malformed item counts as
a failing put. `ScanFails` is the `except` of `full_scan`.

`tracked` is `_background_jobs` and `proc` the life of a process: `BeginDrain`
enters `wait_for_background_jobs`, `DrainDone` and `DrainExpires` leave it,
`CloseConnections` and `Exit` follow; daemon threads die with the process
(`Kill`). `Crash` stands for a killed process, for the exception path of
`run_bridge`, which returns without waiting, and for an error in `session_end`.
Locks are per process, the store is common.

### Rollup

A chat entry is its turn and a summary the set of turns that reached it through
the levels; wording is left out. A `_rollup_*` call takes two steps, as its model
call separates the scan from the put: `ScanItems` and `PutSummary`, or
`NothingToRoll` when the scan is empty (or failed). When the model fails or its answer
does not parse (fault `model`), `_fallback_summary` takes the first four items, cut at
400 characters (`summarizers.py:207`): in the model any part of what was found but
nothing, and `failed` says so. `best` is history: all that a period's summaries have
ever covered. `NextCall` is the control
flow of the loop of `_rollup_closed_periods` (phase `closing`) and of
`refresh_active_rollups` (phase `refresh`); `Due` holds when the next day lies in
another period. `SessionStart` computes the day to start from like lines 37-51 of
`core.py`. `SessionEnd` and `SaveSession` are the two halves of `session_end`, each
with the date it reads. `Midnight` says where `Tick` may strike. The calendar is
a constant: any assignment of days to weeks, months and years, within the limits of
the code, which stops the closing loop after 3660 days (`core.py:62`) and reads at
most 5000 items in a scan (`utils.py:16`); beyond them it leaves periods out.

### ChatGraph

One action per node, in the order of `build_graph`; `Run` counts the step against
LangGraph's recursion limit. `messages` has the reducer `operator.add`: what a
node returns is appended, which is why `ComputerNode` doubles the list.
`NodeRaises` (any node, also `chat_node`, whose model call is in no `try`) abandons
the turn with the checkpoint of the last completed node;
the next `Ask` continues from it. `unanswered` is history: the turns that ended in
`chat_node` since the last reply. A message is its role, its turn, its round and
whether it has an action tag.

### CommandQueue and AgentLanes

`CommandQueue` has one operator per operation of `command-queue.ts`, from a state
of a lane to the next: `Enqueue` (`enqueueLaneEntry`), `Pump` (the loop of
`drainLane`), `Current` and `Completed` (`completeTask`), `Cleared`, `Reset`, `Widen`.
They have no await in them, so each is a part of one action of `AgentLanes`.

A run of `AgentLanes` goes down its `Path`: the lane of its session, then a global
lane, and for a manual cron run the cron lane around both. `level` is how deep it
is, `phase` what the innermost task does. `Accept` is the call of
`runEmbeddedPiAgent`, `BeginNested` a task that enqueues into the next lane (or is
aborted, or refused with `GatewayDrainingError`), `BeginWork` and `WorkEnds` are the
attempt, `Complete` the `finally` of a task. `LaneTimeout` settles the promise and
leaves the attempt working. `Interrupt`, `RecoverByAbort`, `Recover`, `Suspend`,
`AutoResume`, `ApplyConcurrency` and `BeginRestart` to `NextIteration` are the callers from
outside. `givenUp` and `ahead` are history. `Quiet` stands for the event loop: promise
callbacks run before timers and network events, so a disturbance never comes
between a completion and the settlement that follows it; a cron job is excepted, as
it waits for its store.

`SerialTurns` is the promise of `gateway/docs/concepts/queue.md`, weakened by what the
code does: a turn that lost its slot to a timeout, a recovery or a restart may
overlap the next. `ImplementsSerialTurns` maps a run's `phase`, `work` and `outcome` to
the life of its turn.

### FollowupQueue

A queued item is the run of one delivery (`Runs`) of a message (`MessageOf`), as a channel
may deliver a message again. `recent` is `RECENT_QUEUE_MESSAGE_IDS`: an id leaves it after
five minutes, or when 10 000 newer ones came (`enqueue.ts:22`), which `Forget` takes as any
id at any time; a message without an id (`Anonymous`) is never recognised.
`forgotten` counts what the cache has forgotten. An item with
metadata of its own (`Solo`) forces individual collection; one of these may carry an abort
signal (`Abortable`): `DropAborted` is `dropAbortedFollowups`, `EnqueueAborted` and `Skip`
are the other places that look at it. A queue object is an element of `queue`, since a cleared one lives on under its
drain while another takes its key (`current`). Each await of `scheduleFollowupDrain`
ends an action: `Debounced` (the quiet window) chooses the `Round`, `Admit` or `Defer` is
`admitReplyTurn`, `RunSucceeds` or `RunThrows` the end of the run; `Finally` is the
`finally` clause with its new schedule. `Observe` and `Enqueue` are the two halves of
the way of a message, between which the active run may end; `Recheck` is the second look
in `agent-runner.ts`. `take` is the number of items the end of a round will take off
the front. The mode and the drop policy come with each message, as in the code, and
may change. A summary is the set of messages it tells of; the limit of its lines
(`queue-helpers.ts:105`, the oldest are left off, the count is still told) is left out. `over`, `shoved` and `uprooted` record the cases in which the
code breaks its promise (section 5).

### DeliveryQueue

`disk[d]` is the file of a delivery: where it is (`queue`, `failed`, or renamed by the
ack), its retries, its mark (`send_attempt_started`, `unknown_after_send`) and whether a
backoff applies. `live` follows `deliverOutboundPayloads`, with a best-effort send that
goes on without its file and a required one that does not; the notices of
`server-restart-sentinel.ts` are sent without a claim. A scan (`startup`, `drain`) loads
a snapshot (`Load`), then handles one entry after the other: `Skip`, `Exhausted`, or
`Take` under a claim, then `Reconcile` or `SendAgain`, and `Settle`. The startup scan takes
all entries; the drain only those of one account (`Drained`), whose monitor asks for it:
WhatsApp's at every reconnect and every 30 s (`extensions/whatsapp/src/auto-reply/monitor.ts:537`),
Telegram's after every poll that succeeded (`extensions/telegram/src/polling-session.ts:353`).
`failDelivery` reads a file and writes it later, and two callers have no claim in between:
`BudgetExceeded` reads for the deferral of a startup scan and `NoticeFails` for a notice, and
`Rewrites` is the write of either. A send may arrive; fail, having arrived or not; or come
back without an error and with nothing sent, as a hook cancelled the payloads, they were
empty, or the adapter gave no identity (`deliver.ts:1444, 1532, 1560, 1604`). `Suppress`
is the case in which the live send makes no platform call at all, `withheld` the history of
these. The code acks such an entry. An adapter's answer is true or "unresolved". `Crash` keeps the
files and nothing else. Delays are abstracted to `tried`: an entry that is backing
off may be skipped or taken.

### CronService

`chain` is the promise chain of `locked.ts`; its head is the section that has the
lock, and each section of `start`, `onTimer` and a manual run is one action, which
computes the store it leaves (`BootStore`, `TickStore`, ...) and saves it. Between two
sections of a runner its jobs execute (`run`), and other sections take place. `mem` and
`disk` are the store and its two files; a save may fail, and the process may die in
it, between the files, or anywhere else. Times are small numbers; a schedule of kind
`cron` or `every` has its slots at the multiples of `Period`. `Position` is the place of a
job in the list of the store, by which the catch-up orders jobs of the same time.
`promised` is the slot a job is owed from the moment it is due, `spent` has the one-shots
that were begun, and `excused` collects the jobs that an edit, a forced run while
disabled, an aged marker or a torn save interfered with. Not in the model: schedule errors and
their limit, edits other than enable, disable, add and remove, the status "skipped",
the minimum gap between two runs (0 here), the growth of the backoff (one step), the
length of timer delays (a timer is set or not, and may fire early), a run that
exceeds its own time limit, and a failing save of `start`.

## 3. Runs

| Run | Instance | Checks |
| --- | --- | --- |
| `rotation_shared` | 3 keys, 2 threads, `MaxPicks` 2 | no key skipped, an undisturbed call tries all keys, balance, every call returns |
| `memory_threads` | 3 saves in one process, a payload with two items of one key, failing puts | exclusion, fresh snapshots, refinement of `AtomicMemory`, every save ends |
| `memory_faults` | a save in each of two processes, a payload with two items of one key, failing puts, crashes | locks released, nothing killed after a drain that found nothing, shutdown ends |
| `rollup_crash` | 5 days, 2 turns (one of a bridge), crashes; the model answers | days and weeks are made up for |
| `rollup_faults` | 4 days, 2 turns, every fault (a failing model too), midnight anywhere | a period that the model summarises again, of items that are all there, covers all it ever covered |
| `graph_turns` | 3 turns, 7 steps each, window of 3; any node may raise | types, remembered pairs, question in the window, a result is answered once |
| `lanes` | 2 user runs and a cron run of one session, widths 1, all with a timeout, one disturbance of any kind | types, slots have owners, no idle slot, a drained gateway is idle, refinement of `SerialTurns`, order of turns, every run answered |
| `followups` | 3 messages, 4 deliveries, 2 senders, 2 routes, one item with metadata and an abort signal, two runs without an id, both modes, cap 2, policy `summarize`; a foreground run, a failure, a clear, an id forgotten | types, nothing lost, a delivery runs once and a redelivered one only after its id was forgotten, in order, the queue is drained |
| `delivery` | a message and a restart notice, of accounts that do not drain, 1 retry, two faults, one crash; sends that come back empty | nothing lost |
| `delivery_ends` | one message of the drained account, 2 retries, two faults, two crashes | types with the bound of the retries, one owner, no blind replay, its entry leaves the queue |
| `cron` | a recurring agent turn and a one-shot added later, a forced manual run, one operation of five, one crash or failed save, 3 units of time | types, no slot skipped, no overlap, one-shots run once, owed slots run |
| `cron_restart` | two recurring jobs of the main session, at most one made up for at once, 5 units of time, a crash | **violated**: no slot is skipped |

`cron_restart` is a disagreement between the code and its comment: the catch-up puts
off the missed jobs beyond its limit, to run a little later, and the last section of
`start()` then repairs future times that are not slots of their schedule, so that what
was put off is moved to the next regular slot and its run never takes place.
`PROJECT.json` quotes the lines.

**Bounds.** The pool has at most four keys in the code; three keys and two
threads already let one thread overtake another twice round the pool. `MaxPicks`
only stops new calls. Three saves are enough for a queue on a lock that is itself
waited for; the four namespaces and their orders are exact. In `Rollup` the small
calendar has a week across a month's end and one across the month's and year's
end, and five days let a session be opened, crash, and be made up for on both
sides of such a boundary; two turns, one of each kind of process, are enough
since the properties speak of one turn at a time. In `ChatGraph` the limit of 7 is odd like the
real 25, so that it strikes after a computer round, and the window of 3 stands to
it as 20 does to 25: a turn adds at most `(Limit - 1) \div 2` messages after its
question's last copy.

In `lanes`, three runs of one session let one run, one wait and one arrive in
between; widths of 1 make every global slot contested, and the cron run holds a slot
of the cron lane around the others, as a deadlock would need. One disturbance is
enough to take a slot away, abort, shut a lane or restart, while timeouts, reloads
and the reopening of a lane may come at any time besides. In `followups` the cap of 2 is
passed by the third message, one message is delivered twice, and the senders and
routes differ so that batches are split both ways. In the delivery runs a crash
may strike at each of the steps, and two calls may fail; in `delivery_ends` a second crash interrupts
the recovery of the first. The properties speak of one entry at a time, and what the scans do
with another is for it no more than a pause, so that one message beside one notice is enough. In `cron` three units of time hold a slot of the recurring job, the
time of the one-shot and a retry of each.

The calendar, the turns, runs, messages, deliveries and the time are finite and
agents may hang, so these runs end in states without successor and their configurations say
`CHECK_DEADLOCK FALSE`; the rotation and the memory runs do check for deadlock.

**Fairness.** `KeyRotation` and `UnifiedMemory` assume weak fairness of each
thread's own steps: the operating system schedules it, a lock that stays free is
taken, every client call returns or raises (they have timeouts or fail). `SaveFinishes` needs it. Nothing
obliges a user to speak, a provider to lift a limit, or a process to be left.
`ShutdownEnds` is checked with fairness of the processes only: a thread may hang
in a model call for ever, and the shutdown still ends because the wait has a
deadline.

`AgentLanes` assumes that the event loop turns (a callback, a timer that is due or a
step of the restart loop is taken) and nothing of the attempts: `RunsAnswered` holds
though each may hang, since every run of the instance has a lane timeout. `FollowupQueue`:
the quiet window passes, runs end, an observed message is enqueued, and a drain that may
be admitted again and again is at some time (it waits for the session before it gives
up); for runs and observed messages, whose steps stay possible while they are due, weak
fairness is written without `ENABLED` as what it comes to. `DeliveryQueue`: calls return, the drain of the account in `Drained` is repeated by its
monitor, and an entry that this drain meets again and again is taken at some time, because its
backoff ends. Nothing is assumed for other accounts, nor that the gateway restarts, so
`QueueEmpties` speaks of `Drained` only.
`CronService`: sections in the chain (one can be taken whenever there is one, so their weak
fairness is written without `ENABLED`), set timers that are due and executions go on; time need not pass, and nobody need call an operation. `Rollup` and
`ChatGraph` have no liveness property.

## 4. Proofs

| Theorem | States | Assumptions beyond the module's |
| --- | --- | --- |
| `KeyRotation_proofs!TypeCorrect`, `LoadBalanced`, `FullTurn`, `UndisturbedCall` | `TypeOK`, `Balanced`, `FullTurnBeforeFallback`, `UndisturbedTriesAllKeys` | none |
| `UnifiedMemory_proofs!TypeCorrect`, `SavesAreExclusive`, `LocksAreReleased`, `DrainLeavesNothing` | `TypeOK`, `Exclusive`, `NoOrphanLock`, `NothingKilledAfterDrain` | none |
| `UnifiedMemory_proofs!SnapshotsStayFresh` | `SnapshotFresh` | one process |
| `UnifiedMemory_proofs!SavesAreAtomic` | `ImplementsAtomicMemory`: a serial memory | one process, scans do not fail |
| `Rollup_proofs!TypeCorrect` | `TypeOK` | none |
| `Rollup_proofs!CrashesAreMadeUpFor`, `WeeksAreMadeUpFor` | `DaysSummarised`, `WeeksSummarised` | crashes are the only fault (the model answers), no midnight inside a session or a write |
| `Rollup_proofs!SummariesOnlyGrow` | `SummariesGrow` | none |
| `ChatGraph_proofs!TypeCorrect`, `PairsMatch` | `TypeOK`, `RememberedPairs` | none |
| `ChatGraph_proofs!QuestionShown` | `QuestionInWindow` | the recursion limit is at most `2 * MaxHistory + 1` (25 and 20 in the code) |
| `ChatGraph_proofs!ResultIsFresh` | `ResultBelongsToTurn` | none |
| `AgentLanes_proofs!TypeCorrect`, `OwnedSlots`, `NoLostWakeup`, `DrainIsEnough` | `TypeOK`, `SlotsHaveOwners`, `NoIdleSlot`, `DrainedMeansIdle` | none |
| `AgentLanes_proofs!TurnsAreSerial` | `ImplementsSerialTurns` | none |
| `AgentLanes_proofs!TurnsKeepOrder` | `TurnsInOrder` | none |
| `FollowupQueue_proofs!TypeCorrect`, `NeverLost`, `NeverTwice`, `RunsInOrder` | `TypeOK`, `NothingLost`, `RunsOnce`, `InOrder` | none |
| `DeliveryQueue_proofs!TypeCorrect`, `OneOwnerHolds`, `NothingLostHolds`, `NoBlindReplayHolds` | `TypeOK`, `OneOwner`, `NothingLost`, `NoBlindReplay` | none |
| `CronService_proofs!TypeCorrect`, `OneRunAtATime`, `OneShotsRunOnce` | `TypeOK`, `NoOverlap`, `OneShotOnce` | none |
| `CronService_proofs!SlotsAreKept` | `NoSlotSkipped` | `Unrepaired`: the jobs on a cron expression are agent turns, and `0 < Stagger <= 2 * Period` |

They hold for every number of keys, threads, saves, processes, days, turns,
deliveries, messages, runs, sessions, jobs, operations, lane widths, priorities, caps,
retries, faults and crashes, and every calendar and schedule. The arguments:

* *Rotation.* The keys handed out since a call began form an arc of the circle
  that ends at the index and has at least as many keys as the call has made
  passes, so N passes have gone round; an undisturbed call has tried what it has seen. Balance: the keys before the index have
  been handed out one time more than those from it on.
* *Exclusion.* `LockInv`: a job in phase `lock` holds exactly the locks before
  its cursor, in the middle phases all four, in `unlock` those up to its cursor,
  and nothing else holds them. Exclusion alone is not inductive, because it says
  nothing of the half-taken and half-released states in between.
* *Freshness.* Another job of the same process cannot put while this one holds
  the locks (`OneAtATime`). Its own puts touch only the namespace they are at, since
  `PutOrder` is injective: there an earlier item of the save may stand, and everything
  else is as it was read. `TurnInv`: a save's turn to write begins after its question to the
  model and is over only when it puts no more. With `BlindInv` (a namespace read blindly belongs
  to a process whose connections are closed, so it is never written) every put is
  a `Put` of the serial memory, computed from the store as the save's predecessors left it.
* *Drain.* `TrackInv`: every running thread is tracked by its process, and a
  drained process tracks none.
* *Crashes.* `DayInv`: chat entries are never dated in the future; every day
  before the base from which the next session will start is summarised; while a
  loop runs, so are the days before its cursor. Crashes leave `lastSession` where
  it was, so the next loop passes over the unfinished days again.
* *Weeks.* `WeekInv` is the same for the weeks that end before a day (`WDone`), with what
  lies between the two steps of a week's call: if the week ends with the day of the loop,
  what was scanned has all its entries (`WeekRead`), because no entry of a week that is over
  can still be written. Not even contiguous weeks are needed.
* *Summaries grow.* Because of the fallback a summary may shrink, and the next level with it. What
  holds speaks of `best`: no summary covers more than was ever covered (`KeptInv`), and what was
  ever covered was at some time found below the period (`BoundInv`). If the items below are all
  that they have ever been and the model answers, the call has scanned at least `best` of its
  period (`ReadInv`), and its put makes up for what a fallback left out. Nothing about
  crashes or midnight is needed, as a failed scan writes nothing.
* *Conversation.* `InTurn`: the list ends in the question of the turn and the d replies
  made since (`Trail`), a computer round copying this end with the rest, and node
  and step count determine d (`Pace`). Hence the last reply belongs to the question that
  `remember` looks up, and with d below the window the question is inside it. For results,
  `Fresh`: one that is set is on its way from `computer` to `chat`, or its turn ended there
  (`unanswered`) and no reply was made since, since any reply clears it.
* *Followup queue.* A loop works from what it saw: its `Plan` is the batch and the rest of
  its round. `Alone` (a message is planned by one loop and waits in no other queue), `Once`
  (what was run is neither queued nor planned), `Ordered` (queue and plan are in the order of
  acceptance, and what came after the snapshot was accepted after it) and `Front` (the plan is
  the front of the queue while nothing was dropped from it, and later a planned
  message is no further back in the queue than in the plan) make each other inductive;
  `Front` is why taking items off the front takes off the right ones. `Room` bounds the
  cleared queues whose drain still runs, so that there is an object left for the next.
  That a run is accepted once rests on its delivery being over then (`Delivered`); that a message
  runs twice only after its id was forgotten, on `Counted`: of its recognisable deliveries one was
  accepted for each time the cache forgot the id, and one more while it remembers.
* *Retries.* `Retries`: an entry counts at most `MaxRetries` failures, one more by its live
  send, which does not look at the count (`Ended`), and one by the budget deferral of each
  process, which does not either (`Deferred`); a scan works on entries below that number only.
  A writer without a claim puts back one more than the count it read, which may be below the
  one in the file; it is not above it unless the other writer wrote in between, which itself
  had raised the bound.
* *Cron.* `Line`: a runner is in the chain exactly when it waits for a section, once.
  `Places`: which jobs a runner holds at each of its points. `Starting`: until the startup is over,
  nothing else runs, waits or is set. `Safe`: a job that is not excused has one holder,
  while it is held its marker is in memory *and in the files*, and its configuration
  is the same in both; without the files a restart could take it again. `SpentSafe`: a
  begun one-shot is disabled or marked in both, and no tick or startup has it waiting.
  The lemmas on `Maintenance`, `RecomputeNextRuns` and `ApplyAll` say what these walks keep:
  the configuration, and every marker of an enabled job that is not too old.
* *Slots.* `SInv`, for a job that is not excused: what memory and files hold of it differs at
  most in the time of its marker (`Like`), because the next tick or manual run takes it from
  the files; a job that is owed a slot is enabled and marked, or its next run is not later
  and was not made (`Carried`); an enabled job has a next run unless it is a finished
  one-shot (`Planned`), since a job without one is computed again by any maintenance; a
  disabled or missing job has nothing left that could be owed (`Inert`, `Asleep`); and no
  slot is owed to a job whose run has begun and is not recorded (`Begun`), which is why applying
  results takes nothing away. `Timed` says that what is recorded is of the past and that no
  time lies further ahead than two slots, but for a retry's; with `Unrepaired` the repair of
  future times then never finds one to repair. Without it the theorem is false
  (`cron_restart`). The hypothesis holds of agent turns with the code's default: they are
  put off by two minutes, and a cron expression in minutes has no slots closer than one. The code puts each
  further job off 5 s more than the one before, the model all of them by the same `Stagger`;
  where these seconds add up to more than a slot, the hypothesis does not hold.
* *Delivery.* The invariant `IInv` of `DeliveryQueue_proofs` adds to the properties
  what they rest on between two steps: a claim is held by one owner, who is the
  live send between its claim and its end or a scan with the entry in hand
  (`Owners`); a step that acks an entry knows that a send of its message came back, with
  the message sent or withheld (`Results`);
  a live send that is past its mark has the mark in its file, and so has each entry
  whose live send arrived, as long as no unclaimed write went over it, and no scan is
  about to send such an entry (`Marks`). Without the last, `NoBlindReplay` is not
  inductive: nothing would say why a scan that sends may do so.
* *Lanes.* Every operation of the queue first changes a lane and then drains it, so
  the parts of the invariant are operators of given lanes, phases and levels: they are shown
  of the state before the drain, and `DrainSound` carries them over any drain. `IInv` is the
  types; `Placed` (how far a run is, and what it may have done there); `Queues` (an entry
  is queued once, in the lane its run stands at); `Slots` (`SlotsHaveOwners`, and no task is
  of a generation to come, without which a reset would not make all tasks stale);
  `OneSlot` (a session has one slot); and `Kept` (a run inside its session lane holds the slot unless it
  was given up). `NoIdleSlot` follows from `DrainFills`: a drain leaves no lane of its set
  with an entry beside a free slot, and no step frees a slot of a lane it does not drain.
* *Serial turns.* The attempt begins in the innermost lane, where the run holds its session
  slot by `Kept`; by `OneSlot` and `Placed` no other attempt of the session is under way unless
  one of the two was given up (`TurnIsFree`). The other steps map to `Accept`, `End`, `Refuse`,
  `Release` or a stutter of `SerialTurns`.
* *Drain of a restart.* `Captured`: while the gateway drains, a run in its innermost lane
  holds a session slot that was taken when the wait began, since nothing enters a lane any more.
* *Order.* `Order` adds that queues are sorted by priority (`Sorted`), that who waits is in its
  queue (`InQueue`), that who leaves has been answered (`Closed`), and `Ahead`: who was
  before a run at its arrival is still before it, in the slot or the queue of the session, or
  has been answered or given up. A drain of a session lane takes one entry at most, and only
  when the slot is free, so all before the first entry are done with.

Only model-checked: liveness (`InvokeReturns`, `SaveFinishes`, `ShutdownEnds`,
`RunsAnswered`, `EventuallyDrained`, `QueueEmpties`, `OwedSlotsRun`), which the proof system
cannot treat here. Every other property of a passing run is a theorem.

## 5. What the models show of the code

Besides `cron_restart`, modelling met behaviour that a reader of the documents would
not expect. The properties say which cases they except:

* *Followup queue.* At the cap, items are dropped from the front although the first of
  them is being run; when its run ends, `shift` takes off the next one, which was
  neither run nor summarised. An aborted item that is the last of its queue, or that was to
  carry a summary, takes the summary of the dropped ones with it. In mode `followup` the run that tells the summary also consumes one
  item without its prompt. `NothingLost` with `shoved` left out fails with three messages
  at cap 2. A queue created while the drain of a cleared one still runs waits for
  the end of the next foreground run (`uprooted`). A message that is delivered again after
  its id left the cache, or that has no id, is run again.
* *Lanes.* A lane timeout frees the session slot while the attempt goes on, so two
  attempts of a session may overlap (`loose`). A queued session entry that is pumped while
  the gateway drains is refused by its nested enqueue.
* *Delivery.* A recovery's own send writes no mark, so a crash before its ack sends the
  message again. A send that comes back with nothing sent, because a hook cancelled it, the
  payloads were empty or the adapter gave no identity, is acked like one that arrived
  (`withheld`). A failed entry of a channel whose monitor does not drain stays in the queue until the
  gateway restarts. The deferral of a startup scan, and the failure of a restart notice, may
  write an acked entry back (`raced`). The
  restart notice has no claim and may be sent twice. A deferral adds a failure to the count it
  read at the start, so that an entry may count more than `MAX_RETRIES`, or fewer than it had
  (`Retries`).
* *Cron.* `add` computes due slots of other jobs again; a crash between the two files
  of a save brings a deleted one-shot back; disabling and enabling a running job lets
  it overlap itself. Two more cases came out of failed attempts to prove `Safe` and
  `SpentSafe`: the next maintenance takes the marker off a disabled job that is being run by force, so
  that a second forced run may overlap the first; and when a marker was removed as too old
  and the process dies between the two files of that save, a begun one-shot may run again
  (`excused` has all of these).
* *Memory and graph.* Two items of one key in one answer are both computed from the scan
  before the save: the second overwrites the first, and a task that is added and
  completed in one answer stays open, as the scan does not have it. A model call that fails
  while a period is rolled again replaces its summary by a few cut items, and the
  periods above it are then made from those. A failed scan looks like an empty namespace, so a profile may be
  rebuilt from nothing; a bridge and the main process do not share locks and may
  overwrite each other's profile; a session that crosses midnight, and the
  last turns of a month that ends inside a week, are missing from a summary; a turn
  whose chat node raised leaves its tool result to the next; a computer round
  puts the history into itself a second time.

## 6. Plan

In this order:

1. `Archive` (facts, projects, tasks): put then delete, beside a bridge that
   writes the same key; abstract specification "a record is never in neither
   namespace". Theorem: no record is lost by archiving while the bridge is quiet.
2. `TaskBoard`: the status a save writes, the filter of the readers, archiving, and
   the overdue monitor.
3. `TaskFlow`: starter, runner and readers over one file whose write is two steps;
   crash of the runner.
4. `Speech`, `LiveVoice` and the mode switch; `Connections`; `embed_fn`.
5. The lock and the write queue of the gateway's session files; the queue of
   session continuations.
6. Compositions: `FollowupQueue` on top of `AgentLanes`, `UnifiedMemory` with `KeyRotation`.

## 7. Not modelled

* Retrieval, ranking of skills, prompts, formatting and the interface: read-only or
  text. The classification in `trigger_node` decides only how much context is
  compiled; `remember` is reached in any case.
* The tools of `computer/`: calls to the operating system, browsers and services.
* The savers `save_facts`, `save_projects`, `save_tasks` and `save_profile`: the
  unified save replaced them and nothing calls them.
* The continuous listener of `ears.py`: nothing starts it.
* PostgreSQL, LangGraph, the file system, the messaging platforms and the model
  providers: modelled by what the code sees of them (a key-value store whose calls
  may fail, a checkpoint after every node, a recursion limit, atomic renames, sends
  that fail before or after they arrive, answers and errors).
* Of the gateway: the WebSocket server and its methods, session files, configuration and its
  reload, the inside of an agent attempt (streams, tools, compaction, fail-over),
  model transports, channel and provider plugins, the command line, the
  applications and the user interface. They are most of the repository's
  lines; the models have what they do to the core: messages that come twice,
  reconnects, attempts that end, fail or hang, new widths. `src/agents/harness/parker.ts` spawns
  the bridge processes that `UnifiedMemory` has.
