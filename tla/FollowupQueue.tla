--------------------------- MODULE FollowupQueue ---------------------------
(***************************************************************************)
(* The followup queue of one session                                        *)
(* (src/gateway/src/auto-reply/reply/queue and utils/queue-helpers.ts):     *)
(* messages that arrive while the session has an active run wait in it, and *)
(* a drain loop turns them into runs, one by one or collected, when the     *)
(* session is free.  The drain awaits a quiet window and each of its runs;  *)
(* in between, messages are added, drop the oldest ones at the cap, and     *)
(* the queue is cleared and replaced by a new instance.  A queued item is   *)
(* the run of one delivery of a message; deliveries of one message are told *)
(* apart by the cache of message ids only, which forgets.                   *)
(***************************************************************************)
EXTENDS Naturals, FiniteSets, Sequences

CONSTANTS
    Runs,            \* the FollowupRun objects: one for each delivery of a message
    Messages,        \* the messages, by id and route
    MessageOf,       \* [Runs -> Messages]; a channel may redeliver a message
    Anonymous,       \* the runs of messages that have no id
    Author,          \* sender of a run: resolveFollowupAuthorizationKey
    Route,           \* channel, target, account and thread of a run
    Solo,            \* runs with metadata of their own, which are never collected
    Abortable,       \* those that have an abort signal
    Modes,           \* the queue modes that /queue may set
    Cap,             \* settings.cap
    DropPolicies,    \* those that /queue may set: "summarize", "old", "new"
    MaxForeground,   \* bound: runs that do not come from this queue
    MaxFailures,     \* bound: followup runs that throw
    MaxClears,       \* bound: clearSessionQueues
    MaxForgets       \* bound: how often the id of a message is forgotten

ASSUME FollowupAssumption ==
    /\ MessageOf \in [Runs -> Messages]
    /\ Anonymous \subseteq Runs /\ Solo \subseteq Runs /\ Abortable \subseteq Solo
    /\ Modes \subseteq {"followup", "collect"}
    /\ Cap \in Nat \ {0}
    /\ DropPolicies \subseteq {"summarize", "old", "new"}
    /\ {MaxForeground, MaxFailures, MaxClears, MaxForgets} \subseteq Nat

Instances == 1 .. MaxClears + 1   \* queue objects alive at once

VARIABLES
    queue,       \* the FollowupQueueState objects
    current,     \* the one FOLLOWUP_QUEUES holds for the key, or 0
    drain,       \* the drain loop of each object
    active,      \* the session's reply operation: "none", "foreground", "followup"
    delivery,    \* life of each delivery
    aborted,     \* the runs whose abort signal has fired
    recent,      \* RECENT_QUEUE_MESSAGE_IDS
    used,        \* bounds: foreground runs, failures and clears so far
    accepted,    \* history: the runs enqueued, in order
    ran,         \* history: how often a run was in the prompt of one that succeeded
    gone,        \* history: cleared, aborted, dropped as "old", or summarised
    shoved,      \* history: lost to an overflow under a round, or with a summary
    uprooted,    \* history: a queue was cleared under its running drain
    forgotten    \* history: how often the cache forgot the id of a message

history == <<accepted, ran, gone, shoved, uprooted, forgotten>>
vars == <<queue, current, drain, active, delivery, aborted, recent, used, history>>

NewQueue(mode, drop) == [items |-> <<>>, draining |-> FALSE, mode |-> mode, drop |-> drop,
                         forced |-> FALSE, dropped |-> {}]
Off == [pc |-> "off", batch |-> <<>>, take |-> 0, covers |-> {}, carrier |-> {}, rest |-> <<>>,
        over |-> FALSE]

Init ==
    /\ queue = [i \in Instances |-> NewQueue("followup", "summarize")]
    /\ current = 0
    /\ drain = [i \in Instances |-> Off]
    /\ active = "none"
    /\ delivery = [d \in Runs |-> "new"]
    /\ aborted = {} /\ recent = {}
    /\ used = [foreground |-> 0, failures |-> 0, clears |-> 0]
    /\ accepted = <<>>
    /\ ran = [m \in Runs |-> 0]
    /\ gone = {} /\ shoved = {}
    /\ uprooted = FALSE
    /\ forgotten = [m \in Messages |-> 0]

In(m, s) == \E i \in DOMAIN s : s[i] = m
Elements(s) == {s[i] : i \in DOMAIN s}

----------------------------------------------------------------------------
(* The drain loop, from one await to the next.                               *)

Pending(q) == q.items # <<>> \/ q.dropped # {}

(* scheduleFollowupDrain: nothing if there is no queue or it is draining;    *)
(* a loop that finds nothing takes the queue out of the map at once.         *)
Kick(qs, ds, cur) ==
    IF cur = 0 \/ (cur # 0 /\ qs[cur].draining)
    THEN [queue |-> qs, drain |-> ds, current |-> cur]
    ELSE IF Pending(qs[cur])
    THEN [queue |-> [qs EXCEPT ![cur].draining = TRUE, ![cur].forced = FALSE],
          drain |-> [ds EXCEPT ![cur] = [Off EXCEPT !.pc = "debounce"]], current |-> cur]
    ELSE [queue |-> qs, drain |-> ds, current |-> 0]

(* Faulty variant, for the mutation runs only: the flag stays when work is   *)
(* left.                                                                     *)
FinallyDraining(qs, i) ==
    LET off == [qs EXCEPT ![i].draining = Pending(qs[i])]
        ds == [drain EXCEPT ![i] = Off] IN
    IF Pending(off[i]) THEN Kick(off, ds, current)
    ELSE [queue |-> off, drain |-> ds, current |-> IF current = i THEN 0 ELSE current]

(* The finally clause of loop i: work that is left is scheduled again, an    *)
(* empty queue leaves the map if it is still the one there.                  *)
Finally(qs, i) ==
    LET off == [qs EXCEPT ![i].draining = FALSE]
        ds == [drain EXCEPT ![i] = Off] IN
    IF Pending(off[i]) THEN Kick(off, ds, current)
    ELSE [queue |-> off, drain |-> ds, current |-> IF current = i THEN 0 ELSE current]

(* The while condition of loop i. *)
Loop(qs, i) ==
    IF Pending(qs[i])
    THEN [queue |-> qs, drain |-> [drain EXCEPT ![i] = [Off EXCEPT !.pc = "debounce"]],
          current |-> current]
    ELSE Finally(qs, i)

Become(s) == queue' = s.queue /\ drain' = s.drain /\ current' = s.current

(* hasCrossChannelItems, or an item that has to keep its own metadata *)
Cross(items) ==
    \/ Cardinality({Route[items[i]] : i \in DOMAIN items}) > 1
    \/ Elements(items) \intersect Solo # {}

Next1(items) == IF items = <<>> THEN <<>> ELSE <<Head(items)>>
Round(batch, take, covers, rest) ==
    [Off EXCEPT !.pc = "admit", !.batch = batch, !.take = take, !.covers = covers, !.rest = rest]
CarriedBy(item, covers) ==
    [Off EXCEPT !.pc = "admit", !.take = 1, !.covers = covers, !.carrier = {item}]

(* splitCollectItemsByAuthorization: a snapshot of the queue is split into   *)
(* maximal stretches of one author.  The first is the next round, the others *)
(* are those of the rest of the snapshot.                                    *)
OneAuthor(items) == {z \in DOMAIN items : \A k \in 1 .. z : Author[items[k]] = Author[items[1]]}
GroupRound(items, covers) ==
    LET n == Cardinality(OneAuthor(items))
    IN  Round(SubSeq(items, 1, n), n, covers, SubSeq(items, n + 1, Len(items)))

(* What buildQueueSummaryPrompt tells of the dropped messages.               *)
Summary(q) == IF q.drop = "summarize" THEN q.dropped ELSE {}

(* The round of the loop after the quiet window: what its run is told, and   *)
(* how many items are taken off the front when it is over.  A summary of     *)
(* dropped messages is prefixed to a collected batch; in the other modes it  *)
(* is a run of its own, which consumes the item that carries it: the item    *)
(* gives it the route, and its abort signal.                                 *)
NextRound(q) ==
    LET single == q.mode = "collect" /\ (Cross(q.items) \/ (q.forced /\ Len(q.items) <= 1))
        summary == Summary(q) IN
    IF q.items = <<>> THEN Round(<<>>, 0, summary, <<>>)
    ELSE IF single THEN Round(Next1(q.items), 1, {}, <<>>)
    ELSE IF q.mode = "collect" THEN GroupRound(q.items, summary)
    ELSE IF summary # {} THEN CarriedBy(Head(q.items), summary)
    ELSE Round(Next1(q.items), 1, {}, <<>>)

(* In the modes that do not collect, a summary without an item to carry it   *)
(* is not delivered: the loop breaks and is scheduled again.      *)
Break(q) == q.items = <<>> /\ (q.mode # "collect" \/ Summary(q) = {})

AbortedItems(q) == {p \in DOMAIN q.items : q.items[p] \in aborted}

(* dropAbortedFollowups, before and after the quiet window: from the back,   *)
(* an item whose signal has fired is taken out.  When no item is left, the   *)
(* summary of those dropped at the cap is cleared as well, untold.           *)
DropAborted(i) ==
    /\ drain[i].pc = "debounce"
    /\ \E p \in AbortedItems(queue[i]) :
          LET q == queue[i]
              items == SubSeq(q.items, 1, p - 1) \o SubSeq(q.items, p + 1, Len(q.items)) IN
          /\ \A x \in AbortedItems(q) : x <= p
          /\ queue' = [queue EXCEPT ![i].items = items,
                                   ![i].dropped = IF items = <<>> THEN {} ELSE @]
          /\ gone' = gone \union {q.items[p]}
          /\ shoved' = IF items = <<>> THEN shoved \union q.dropped ELSE shoved
    /\ UNCHANGED <<current, drain, active, delivery, aborted, recent, used,
                   accepted, ran, uprooted, forgotten>>

(* The quiet window is over. *)
Debounced(i) ==
    LET q == [queue[i] EXCEPT !.forced =
                  IF queue[i].mode # "collect" THEN @
                  ELSE Cross(queue[i].items) \/ (@ /\ Len(queue[i].items) <= 1)] IN
    /\ drain[i].pc = "debounce"
    /\ AbortedItems(queue[i]) = {}
    /\ IF Break(queue[i]) THEN Become(Finally(queue, i))
       ELSE /\ drain' = [drain EXCEPT ![i] = NextRound(queue[i])]
            /\ queue' = [queue EXCEPT ![i] = q]
            /\ current' = current
    /\ UNCHANGED <<active, delivery, aborted, recent, used, history>>

(* The abort signal of the run of loop i has fired. *)
Aborted(i) == (Elements(drain[i].batch) \union drain[i].carrier) \intersect aborted # {}

(* admitReplyTurn: the run owns the session. *)
Admit(i) ==
    /\ drain[i].pc = "admit"
    /\ ~Aborted(i)
    /\ active = "none"
    /\ active' = "followup"
    /\ drain' = [drain EXCEPT ![i].pc = "running"]
    /\ UNCHANGED <<queue, current, delivery, aborted, recent, used, history>>

(* Another run owns it for too long: FollowupRunDeferredError.               *)
Defer(i) ==
    /\ drain[i].pc = "admit"
    /\ ~Aborted(i)
    /\ active # "none"
    /\ Become(Finally(queue, i))
    /\ UNCHANGED <<active, delivery, aborted, recent, used, history>>

(* Faulty variant, for the mutation runs only: the front is taken off before *)
(* the run is known to have succeeded.                                       *)
RunThrowsAfterShift(i) ==
    /\ drain[i].pc = "running"
    /\ used.failures < MaxFailures
    /\ used' = [used EXCEPT !.failures = @ + 1]
    /\ active' = "none"
    /\ Become(Finally([queue EXCEPT ![i].items = SubSeq(@, drain[i].take + 1, Len(@))], i))
    /\ UNCHANGED <<delivery, aborted, recent, history>>

(* Faulty variant, for the mutation runs only: what failed goes to the back. *)
RunThrowsToBack(i) ==
    /\ drain[i].pc = "running"
    /\ used.failures < MaxFailures
    /\ used' = [used EXCEPT !.failures = @ + 1]
    /\ active' = "none"
    /\ Become(Finally([queue EXCEPT ![i].items =
                          IF @ = <<>> THEN @ ELSE Append(Tail(@), Head(@))], i))
    /\ UNCHANGED <<delivery, aborted, recent, history>>

(* The run throws: nothing is taken off, the loop ends and is scheduled again. *)
RunThrows(i) ==
    /\ drain[i].pc = "running"
    /\ used.failures < MaxFailures
    /\ used' = [used EXCEPT !.failures = @ + 1]
    /\ active' = "none"
    /\ Become(Finally(queue, i))
    /\ UNCHANGED <<delivery, aborted, recent, history>>

(* What the end of a round takes off without having told its run.            *)
TakenUntold(q, done) ==
    ({q.items[k] : k \in DOMAIN q.items \intersect (1 .. done.take)} \ Elements(done.batch))
        \union IF done.covers # {} THEN q.dropped \ done.covers ELSE {}

(* A round is over: as many items as it was made of are taken off the front  *)
(* of what the queue holds NOW, the summary is cleared, the next group of    *)
(* the same snapshot is run, or the loop goes on.                            *)
RoundOver(i) ==
    LET done == drain[i]
        qs == [queue EXCEPT ![i].items = SubSeq(@, done.take + 1, Len(@)),
                            ![i].dropped = IF done.covers # {} THEN {} ELSE @] IN
    IF done.rest = <<>> THEN Become(Loop(qs, i))
    ELSE /\ queue' = qs
         /\ drain' = [drain EXCEPT ![i] =
                         [GroupRound(done.rest, {}) EXCEPT !.over = done.over]]
         /\ current' = current
Shoved(i) == IF drain[i].over \/ drain[i].covers # {}
             THEN shoved \union TakenUntold(queue[i], drain[i]) ELSE shoved

RunSucceeds(i) ==
    LET done == drain[i] IN
    /\ done.pc = "running"
    /\ active' = "none"
    /\ ran' = [m \in Runs |-> IF In(m, done.batch) THEN ran[m] + 1 ELSE ran[m]]
    /\ gone' = gone \union done.covers
    /\ shoved' = Shoved(i)
    /\ RoundOver(i)
    /\ UNCHANGED <<delivery, aborted, recent, used, accepted, uprooted, forgotten>>

(* The run was aborted before it owned the session: it returns, and the loop *)
(* takes it for done.  A summary it was to carry is told to nobody.          *)
Skip(i) ==
    LET done == drain[i] IN
    /\ done.pc = "admit"
    /\ Aborted(i)
    /\ gone' = gone \union Elements(done.batch)
    /\ shoved' = Shoved(i) \union done.covers
    /\ RoundOver(i)
    /\ UNCHANGED <<active, delivery, aborted, recent, used, accepted, ran, uprooted, forgotten>>

----------------------------------------------------------------------------
(* The messages and the rest of the session.                                 *)

(* The session's own run: a message that found it idle, a heartbeat.         *)
BeginForeground ==
    /\ active = "none"
    /\ used.foreground < MaxForeground
    /\ used' = [used EXCEPT !.foreground = @ + 1]
    /\ active' = "foreground"
    /\ UNCHANGED <<queue, current, drain, delivery, aborted, recent, history>>

(* replyOperation.completeThen(drainQueuedFollowupsAfterClear)               *)
EndForeground ==
    /\ active = "foreground"
    /\ active' = "none"
    /\ Become(Kick(queue, drain, current))
    /\ UNCHANGED <<delivery, aborted, recent, used, history>>

(* A message arrives, and the session is seen to be busy.                    *)
Observe(d) ==
    /\ delivery[d] = "new"
    /\ active # "none"
    /\ delivery' = [delivery EXCEPT ![d] = "observed"]
    /\ UNCHANGED <<queue, current, drain, active, aborted, recent, used, history>>

(* getFollowupQueue, with the settings of the moment. *)
Target ==
    IF current # 0 THEN current
    ELSE CHOOSE i \in Instances : drain[i].pc = "off"
Got(mode, drop) == IF current = 0 THEN NewQueue(mode, drop)
                   ELSE [queue[current] EXCEPT !.mode = mode, !.drop = drop]

(* applyQueueDropPolicy: the items dropped from the front, and the queue.    *)
Excess(q) == IF Len(q.items) < Cap \/ q.drop = "new" THEN 0 ELSE Len(q.items) - Cap + 1
Dropped(q) == Elements(SubSeq(q.items, 1, Excess(q)))
AfterDrop(q) ==
    [q EXCEPT !.items = SubSeq(@, Excess(q) + 1, Len(@)),
              !.dropped = IF q.drop = "summarize" THEN @ \union Dropped(q) ELSE @]
Full(q) == q.drop = "new" /\ Len(q.items) >= Cap

(* Faulty variant, for the mutation runs only: only what is still queued is  *)
(* a duplicate.                                                              *)
DuplicateQueued(d, q) ==
    /\ d \notin Anonymous
    /\ \E e \in Elements(q.items) \ Anonymous : MessageOf[e] = MessageOf[d]

(* The id is in the cache, or is that of an item (isRunAlreadyQueued).       *)
Duplicate(d, q) ==
    /\ d \notin Anonymous
    /\ \/ MessageOf[d] \in recent
       \/ \E e \in Elements(q.items) \ Anonymous : MessageOf[e] = MessageOf[d]

(* Faulty variant, for the mutation runs only: the liveness of the run is    *)
(* not checked again after the enqueue.                                      *)
StaleCheck(qs, ds, target) == [queue |-> qs, drain |-> ds, current |-> target]

(* The run may have ended since it was observed: then the drain is scheduled *)
(* from here.                                                                *)
Recheck(qs, ds, target) ==
    IF active = "none" THEN Kick(qs, ds, target)
    ELSE [queue |-> qs, drain |-> ds, current |-> target]

(* enqueueFollowupRun, and the re-check of liveness after it.                *)
Enqueue(d, mode, drop) ==
    LET i == Target
        q == Got(mode, drop)
        refused == Duplicate(d, q) \/ Full(q)
        kept == IF refused THEN q ELSE [AfterDrop(q) EXCEPT !.items = Append(@, d)]
        added == [queue EXCEPT ![i] = kept] IN
    /\ delivery[d] = "observed"
    /\ d \notin aborted
    /\ delivery' = [delivery EXCEPT ![d] = IF refused THEN "refused" ELSE "queued"]
    /\ recent' = IF refused \/ d \in Anonymous THEN recent ELSE recent \union {MessageOf[d]}
    /\ accepted' = IF refused THEN accepted ELSE Append(accepted, d)
    /\ gone' = IF refused \/ drop # "old" THEN gone ELSE gone \union Dropped(q)
    /\ Become(Recheck(added, [drain EXCEPT ![i].over =
                                  @ \/ (drain[i].pc # "off" /\ ~refused /\ Dropped(q) # {})], i))
    /\ UNCHANGED <<active, aborted, used, ran, shoved, uprooted, forgotten>>

(* A run that is aborted by then is not enqueued. *)
EnqueueAborted(d) ==
    /\ delivery[d] = "observed"
    /\ d \in aborted
    /\ delivery' = [delivery EXCEPT ![d] = "refused"]
    /\ Become(Recheck(queue, drain, current))
    /\ UNCHANGED <<active, aborted, recent, used, history>>

(* The abort signal of a delivery fires; when its run is over it is noticed  *)
(* by nobody.                                                                *)
Abort(d) ==
    /\ d \in Abortable \ aborted
    /\ \/ delivery[d] = "observed"
       \/ \E i \in Instances : d \in Elements(queue[i].items) \union Elements(drain[i].batch)
    /\ aborted' = aborted \union {d}
    /\ UNCHANGED <<queue, current, drain, active, delivery, recent, used, history>>

(* Five minutes after the enqueue, or behind 10 000 later ones, an id leaves *)
(* the cache; when that is, the model leaves open.                           *)
Forget(m) ==
    /\ m \in recent
    /\ forgotten[m] < MaxForgets
    /\ recent' = recent \ {m}
    /\ forgotten' = [forgotten EXCEPT ![m] = @ + 1]
    /\ UNCHANGED <<queue, current, drain, active, delivery, aborted, used,
                   accepted, ran, gone, shoved, uprooted>>

(* clearSessionQueues: /stop, a reset, a deleted session.                    *)
Clear ==
    /\ current # 0
    /\ used.clears < MaxClears
    /\ used' = [used EXCEPT !.clears = @ + 1]
    /\ gone' = gone \union Elements(queue[current].items) \union queue[current].dropped
    /\ queue' = [queue EXCEPT ![current].items = <<>>, ![current].dropped = {}]
    /\ current' = 0
    /\ uprooted' = (uprooted \/ queue[current].draining)
    /\ UNCHANGED <<drain, active, delivery, aborted, recent, accepted, ran, shoved, forgotten>>

DrainStep(i) == \/ DropAborted(i) \/ Debounced(i) \/ Admit(i) \/ Skip(i)
                \/ RunSucceeds(i) \/ RunThrows(i)

Next ==
    \/ \E i \in Instances : DrainStep(i) \/ Defer(i)
    \/ BeginForeground \/ EndForeground \/ Clear
    \/ \E d \in Runs : \/ Observe(d) \/ EnqueueAborted(d) \/ Abort(d)
                      \/ \E mode \in Modes, drop \in DropPolicies : Enqueue(d, mode, drop)
    \/ \E m \in Messages : Forget(m)

Spec == Init /\ [][Next]_vars

(***************************************************************************)
(* The quiet window passes; a run that could be admitted again and again is *)
(* at some time (it waits for the session to be idle before it gives up);   *)
(* runs end, and a message that was observed is enqueued.  For these two    *)
(* weak fairness comes to what is written: their steps are possible as long *)
(* as they are due.                                                         *)
(***************************************************************************)
FairSpec ==
    /\ Spec
    /\ WF_vars(\E i \in Instances : DropAborted(i) \/ Debounced(i))
    /\ SF_vars(\E i \in Instances : Admit(i) \/ Skip(i))
    /\ []<>(active # "foreground") /\ []<>(active # "followup")
    /\ []<>(\A d \in Runs : delivery[d] # "observed")

----------------------------------------------------------------------------
QueueState == [items : Seq(Runs), draining : BOOLEAN, mode : {"followup", "collect"},
               drop : {"summarize", "old", "new"}, forced : BOOLEAN, dropped : SUBSET Runs]
DrainState == [pc : {"off", "debounce", "admit", "running"}, batch : Seq(Runs),
               take : Nat, covers : SUBSET Runs, carrier : SUBSET Runs,
               rest : Seq(Runs), over : BOOLEAN]

TypeOK ==
    /\ queue \in [Instances -> QueueState]
    /\ current \in Instances \union {0}
    /\ drain \in [Instances -> DrainState]
    /\ \A i \in Instances : queue[i].draining <=> drain[i].pc # "off"
    /\ active \in {"none", "foreground", "followup"}
    /\ delivery \in [Runs -> {"new", "observed", "queued", "refused"}]
    /\ aborted \subseteq Abortable /\ recent \subseteq Messages
    /\ accepted \in Seq(Runs)
    /\ ran \in [Runs -> Nat]
    /\ gone \subseteq Runs /\ shoved \subseteq Runs
    /\ uprooted \in BOOLEAN
    /\ forgotten \in [Messages -> Nat]

(* The messages that wait for their run, or for their summary. *)
Waiting == UNION {Elements(queue[i].items) \union queue[i].dropped : i \in Instances}

(***************************************************************************)
(* docs/concepts/queue.md: "followup: ... Enqueue each message for a later  *)
(* agent turn after the current run ends", and at the cap "keep compact     *)
(* summaries, and inject them": an accepted message waits in the queue, was *)
(* run, was summarised, or was cleared or aborted by its owner.  Where the  *)
(* code breaks this the message is in "shoved": the cap drops items of the  *)
(* round under way, which then takes others off in their place; a summary   *)
(* consumes the item that carries it; and a summary is discarded with an    *)
(* aborted item, the last of the queue or the one that was to carry it.     *)
(***************************************************************************)
NothingLost ==
    \A k \in DOMAIN accepted :
        LET m == accepted[k] IN ran[m] > 0 \/ m \in gone \union shoved \union Waiting

(* The deliveries of m that were run and can be recognised. *)
Runnings(m) == {d \in Runs \ Anonymous : MessageOf[d] = m /\ ran[d] > 0}

(***************************************************************************)
(* A message runs once for each time it could be new to the queue: a        *)
(* delivery runs once, whatever fails or is cleared, and a redelivered      *)
(* message again only after its id left the cache (enqueue.ts:22).          *)
(***************************************************************************)
RunsOnce ==
    /\ \A d \in Runs : ran[d] <= 1
    /\ \A m \in Messages : Cardinality(Runnings(m)) <= forgotten[m] + 1

(* m has been run with the step, is lost, or waits for its summary. *)
Settled(m) == ran'[m] > 0 \/ m \in gone \union shoved' \/ \E i \in Instances : m \in queue[i].dropped

(***************************************************************************)
(* A message runs when every message accepted before it has run, is lost or *)
(* waits for its summary, through failed, deferred and collected runs and   *)
(* changes of the mode.                                                     *)
(***************************************************************************)
InOrder ==
    [][\A k \in DOMAIN accepted : ran[accepted[k]] < ran'[accepted[k]] =>
          \A j \in 1 .. k - 1 : Settled(accepted[j])]_vars

(***************************************************************************)
(* The queue is drained without another message having to come, although    *)
(* the run that was seen active may end before the message is enqueued.     *)
(* (Not so the summary of messages dropped in mode "followup" when no item  *)
(* is left to carry it.  And a queue that replaces one cleared under its    *)
(* running drain is excepted: nobody schedules it before the next           *)
(* foreground run ends.)                                                    *)
(***************************************************************************)
EventuallyDrained ==
    <>[](uprooted \/ \A i \in Instances : queue[i].items = <<>>)
=============================================================================
