---------------------------- MODULE CommandQueue ----------------------------
(***************************************************************************)
(* The lanes of the gateway's command queue                                 *)
(* (src/gateway/src/process/command-queue.ts): a lane is a queue of entries *)
(* and a set of active task ids, with a width and a generation.  The        *)
(* operators below are the lane's synchronous operations, each from one     *)
(* state of the lane to the next; AgentLanes is the program that calls      *)
(* them.  An entry enters a lane at most once, so that it stands for its    *)
(* task id too, and its sequence number is its place among its equals.      *)
(***************************************************************************)
EXTENDS Naturals, FiniteSets, Sequences, SequencesExt, FiniteSetsExt

CONSTANTS
    Entries,    \* what is put into the lanes
    Priority    \* [Entries -> Nat]: foreground > normal > background

LaneState == [queue : Seq(Entries), active : SUBSET Entries, max : Nat, gen : Nat]

(* getLaneState creates a lane on its first use. *)
EmptyLane(width) == [queue |-> <<>>, active |-> {}, max |-> width, gen |-> 0]

(* Faulty variant, for the mutation runs only: an entry goes before its      *)
(* equals.                                                                   *)
EnqueueBeforeEquals(lane, e) ==
    LET behind == {i \in DOMAIN lane.queue : Priority[lane.queue[i]] <= Priority[e]}
        at == IF behind = {} THEN Len(lane.queue) + 1 ELSE Min(behind)
    IN  [lane EXCEPT !.queue = InsertAt(@, at, e)]

(* enqueueLaneEntry: before the first entry of lower priority, else last.    *)
Enqueue(lane, e) ==
    LET lower == {i \in DOMAIN lane.queue : Priority[lane.queue[i]] < Priority[e]}
        at == IF lower = {} THEN Len(lane.queue) + 1 ELSE Min(lower)
    IN  [lane EXCEPT !.queue = InsertAt(@, at, e)]

(* Faulty variant, for the mutation runs only: the loop starts one too many. *)
RoomAndOne(lane) ==
    IF Cardinality(lane.active) > lane.max THEN 0
    ELSE LET free == lane.max + 1 - Cardinality(lane.active)
         IN  IF free < Len(lane.queue) THEN free ELSE Len(lane.queue)

(* How many entries the loop of pump() starts, and which.                    *)
Room(lane) ==
    IF Cardinality(lane.active) >= lane.max THEN 0
    ELSE LET free == lane.max - Cardinality(lane.active)
         IN  IF free < Len(lane.queue) THEN free ELSE Len(lane.queue)
Started(lane) == {lane.queue[i] : i \in 1 .. Room(lane)}

(* drainLane: pump() has no await, so no one sees lane.draining set.         *)
Pump(lane) ==
    [lane EXCEPT !.active = @ \union Started(lane),
                 !.queue = SubSeq(@, Room(lane) + 1, Len(@))]

(* completeTask: the completion of a task of an earlier generation is ignored. *)
Current(lane, generation) == generation = lane.gen
Completed(lane, e) == [lane EXCEPT !.active = @ \ {e}]

(* clearCommandLane drops what is queued, never what is active.              *)
Cleared(lane) == [lane EXCEPT !.queue = <<>>]

(* Faulty variant, for the mutation runs only: the slots stay taken.         *)
ResetKeepingSlots(lane) == [lane EXCEPT !.gen = @ + 1]

(* resetCommandLane, and resetAllLanes for each lane, before their pump.     *)
Reset(lane) == [lane EXCEPT !.gen = @ + 1, !.active = {}]

(* Faulty variant, for the mutation runs only: one less than asked.          *)
WidenLess(lane, width) == [lane EXCEPT !.max = width - 1]

(* setCommandLaneConcurrency, before its drainLane. *)
Widen(lane, width) == [lane EXCEPT !.max = width]
=============================================================================
