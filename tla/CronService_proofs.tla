------------------------- MODULE CronService_proofs -------------------------
(***************************************************************************)
(* Proofs about the cron service, for every set of jobs and schedules, every *)
(* manual run and operation, every bound and any number of crashes, failed  *)
(* saves and crashes between the two files of a save.                       *)
(***************************************************************************)
EXTENDS CronService, FiniteSetTheorems, SequenceTheorems, TLAPS

RunType == [pc : {"none", "waiting", "executing", "ended"},
            status : {"none", "ok", "transient", "permanent"}, start : Nat, end : Nat]

(* A runner holds a job from the section that marks it to the one that       *)
(* records its result.                                                       *)
Held(r, j) == run[r][j].pc # "none"

(* The marker of a job that can be run, and a one-shot that no tick and no   *)
(* startup takes.                                                            *)
On(s, j) == s.config[j] = "on" /\ s.state[j].running # 0
Guarded(s, j) == s.config[j] # "on" \/ s.state[j].running # 0

----------------------------------------------------------------------------
(* The schedule and the clean-up of a store.                                 *)

LEMMA NatFacts ==
    /\ Period \in Nat \ {0} /\ AtTime \in Nat \ {0} /\ Backoff \in Nat /\ Stagger \in Nat
    /\ Stuck \in Nat /\ MaxRetries \in Nat /\ MaxTime \in Nat \ {0}
  BY CronAssumption DEF CronAssumption

LEMMA KindFact == \A j \in Jobs : Kind[j] \in {"cron", "every", "at"}
  BY CronAssumption DEF CronAssumption

LEMMA SlotType ==
    ASSUME NEW t \in Nat
    PROVE  /\ NextSlot(t) \in Nat
           /\ Larger(1, (t + Period - 1) \div Period) * Period \in Nat
<1>1. /\ t \div Period \in Nat
      /\ (t + Period - 1) \div Period \in Nat
  BY NatFacts
<1>2. (t \div Period + 1) * Period \in Nat
  BY <1>1, NatFacts
<1>3. Larger(1, (t + Period - 1) \div Period) \in Nat
  BY <1>1 DEF Larger
<1>4. Larger(1, (t + Period - 1) \div Period) * Period \in Nat
  BY <1>3, NatFacts
<1> QED BY <1>2, <1>4 DEF NextSlot

LEMMA ComputeNextType ==
    ASSUME NEW j \in Jobs, NEW st \in StateType, NEW t \in Nat
    PROVE  ComputeNext(j, st, t) \in Nat
<1>1. st.last \in Nat
  BY DEF StateType
<1>2. CASE Kind[j] = "cron"
  BY <1>2, SlotType DEF ComputeNext
<1>3. CASE Kind[j] = "every"
  BY <1>1, <1>3, SlotType, NatFacts DEF ComputeNext
<1>4. CASE Kind[j] = "at"
  BY <1>4, NatFacts DEF ComputeNext
<1> QED BY <1>2, <1>3, <1>4, KindFact

LEMMA RecomputedType ==
    ASSUME NEW j \in Jobs, NEW st \in StateType, NEW t \in Nat
    PROVE  /\ Recomputed(j, st, t) \in StateType
           /\ Recomputed(j, st, t).running = st.running
<1> DEFINE floor == IF Kind[j] # "at" /\ st.status = "error" THEN st.last + Backoff ELSE 0
           next == ComputeNext(j, st, t)
           time == IF next = 0 THEN 0 ELSE Larger(next, floor)
<1>1. next \in Nat
  BY ComputeNextType
<1>2. floor \in Nat
  BY NatFacts DEF StateType
<1>3. time \in Nat
  BY <1>1, <1>2 DEF Larger
<1>4. Recomputed(j, st, t) = [st EXCEPT !.next = time]
  BY DEF Recomputed
<1> HIDE DEF time
<1> QED BY <1>3, <1>4 DEF StateType

LEMMA NoStateType == NoState \in StateType /\ NoState.running = 0
  BY NatFacts DEF NoState, StateType

LEMMA ClearedType ==
    ASSUME NEW st \in StateType
    PROVE  /\ [st EXCEPT !.next = 0, !.running = 0] \in StateType
           /\ [st EXCEPT !.next = 0, !.running = 0].running = 0
           /\ [st EXCEPT !.running = 0] \in StateType
           /\ [st EXCEPT !.running = 0].running = 0
  BY NatFacts DEF StateType

LEMMA TidyType ==
    ASSUME NEW s \in StoreType, NEW j \in Jobs, NEW t \in Nat
    PROVE  /\ Tidy(s, j, t) \in StateType
           /\ Tidy(s, j, t).running = IF s.config[j] = "on" /\ ~IsStuck(s.state[j], t)
                                      THEN s.state[j].running ELSE 0
<1>1. s.state[j] \in StateType /\ s.config[j] \in {"on", "off", "none"}
  BY DEF StoreType
<1>2. CASE s.config[j] = "none"
  <2>1. Tidy(s, j, t) = NoState
    BY <1>1, <1>2 DEF Tidy, NoState
  <2> QED BY <1>2, <2>1, NoStateType
<1>3. CASE s.config[j] = "off"
  <2>1. Tidy(s, j, t) = [s.state[j] EXCEPT !.next = 0, !.running = 0]
    BY <1>1, <1>3 DEF Tidy
  <2>2. Tidy(s, j, t) \in StateType /\ Tidy(s, j, t).running = 0
    BY <1>1, <2>1, ClearedType
  <2> QED BY <1>3, <2>2
<1>4. CASE s.config[j] = "on" /\ IsStuck(s.state[j], t)
  <2>1. Tidy(s, j, t) = [s.state[j] EXCEPT !.running = 0]
    BY <1>4 DEF Tidy, Unmarked
  <2>2. Tidy(s, j, t) \in StateType /\ Tidy(s, j, t).running = 0
    BY <1>1, <2>1, ClearedType
  <2> QED BY <1>4, <2>2
<1>5. CASE s.config[j] = "on" /\ ~IsStuck(s.state[j], t)
  <2>1. Tidy(s, j, t) = s.state[j]
    BY <1>5 DEF Tidy
  <2> QED BY <1>1, <1>5, <2>1
<1> QED BY <1>1, <1>2, <1>3, <1>4, <1>5

(* Maintenance keeps the configuration and every marker of an enabled job    *)
(* that is not too old.                                                      *)
Kept(s, w, t) ==
    /\ w \in StoreType
    /\ w.config = s.config
    /\ \A j \in Jobs : w.state[j].running = IF s.config[j] = "on" /\ ~IsStuck(s.state[j], t)
                                            THEN s.state[j].running ELSE 0

LEMMA WalkKeeps ==
    ASSUME NEW s \in StoreType, NEW t \in Nat, NEW again
    PROVE  Kept(s, Walk(s, t, again), t)
<1> DEFINE skipped == {j \in again : IsStuck(s.state[j], t) /\ ~Executed(s.state[j])}
           after == [j \in Jobs |-> IF s.config[j] = "on" /\ j \in again \ skipped
                                    THEN Recomputed(j, Tidy(s, j, t), t) ELSE Tidy(s, j, t)]
<1>1. ASSUME NEW j \in Jobs
      PROVE  /\ after[j] \in StateType
             /\ after[j].running = Tidy(s, j, t).running
  BY TidyType, RecomputedType
<1>2. Walk(s, t, again) = [s EXCEPT !.state = after]
  BY DEF Walk
<1>3. after \in [Jobs -> StateType]
  <2>1. after = [j \in Jobs |-> after[j]]
    OBVIOUS
  <2> HIDE DEF after
  <2> QED BY <1>1, <2>1
<1> HIDE DEF after
<1>4. /\ Walk(s, t, again) \in StoreType
      /\ Walk(s, t, again).config = s.config
      /\ Walk(s, t, again).state = after
  BY <1>2, <1>3 DEF StoreType
<1> QED BY <1>1, <1>4, TidyType DEF Kept

LEMMA MaintenanceKeeps ==
    ASSUME NEW s \in StoreType, NEW t \in Nat, NEW expired, NEW repair
    PROVE  Kept(s, Maintenance(s, t, expired, repair), t)
<1> DEFINE Again(j) == \E st \in {Tidy(s, j, t)} :
            \/ st.next = 0
            \/ repair /\ NeedsRepair(j, st, t)
            \/ expired /\ st.next <= t /\ st.running = 0 /\ Executed(st)
<1>1. Maintenance(s, t, expired, repair) = Walk(s, t, {j \in Jobs : Again(j)})
  BY DEF Maintenance
<1> HIDE DEF Again
<1> QED BY <1>1, WalkKeeps

LEMMA RecomputeKeeps ==
    ASSUME NEW s \in StoreType, NEW t \in Nat
    PROVE  Kept(s, RecomputeNextRuns(s, t), t)
  BY WalkKeeps DEF RecomputeNextRuns

----------------------------------------------------------------------------
(* The results of the runs.                                                  *)

(* A finished run leaves no marker, and a one-shot that is not to be retried *)
(* is not enabled any more.                                                  *)
LEMMA ResultApplied ==
    ASSUME NEW s \in StoreType, NEW j \in Jobs, NEW res \in RunType, NEW preserve \in BOOLEAN
    PROVE  /\ ApplyResult(s, j, res, preserve).config[j] \in {"on", "off", "none"}
           /\ ApplyResult(s, j, res, preserve).state[j] \in StateType
           /\ \/ ApplyResult(s, j, res, preserve).state[j].running = 0
              \/ /\ s.config[j] = "none"
                 /\ ApplyResult(s, j, res, preserve).state[j] = s.state[j]
           /\ Kind[j] = "at" /\ ~Retried(j, res, s.state[j])
                 => ApplyResult(s, j, res, preserve).config[j] # "on"
<1> DEFINE old == s.state[j]
           st == [old EXCEPT !.running = 0, !.last = res.start, !.ended = res.end,
                             !.status = IF Failed(res.status) THEN "error" ELSE res.status,
                             !.errors = IF Failed(res.status)
                                        THEN IF @ > MaxRetries THEN @ ELSE @ + 1 ELSE 0]
           basis == IF preserve /\ Kind[j] = "every" THEN [st EXCEPT !.last = old.last] ELSE st
           natural == ComputeNext(j, basis, res.end)
           next == IF Failed(res.status) THEN Larger(natural, res.end + Backoff) ELSE natural
           After(config, time) == [s EXCEPT !.config[j] = config,
                                            !.state[j] = [st EXCEPT !.next = time]]
           result == ApplyResult(s, j, res, preserve)
<1>1. old \in StateType /\ s.config[j] \in {"on", "off", "none"}
  BY DEF StoreType
<1>2. st \in StateType /\ st.running = 0
  <2> DEFINE c == IF Failed(res.status) THEN "error" ELSE res.status
             e == IF Failed(res.status)
                  THEN IF old.errors > MaxRetries THEN old.errors ELSE old.errors + 1 ELSE 0
  <2>1. c \in {"none", "ok", "error"} /\ res.start \in Nat /\ res.end \in Nat
    BY DEF RunType, Failed
  <2>2. e \in 0..MaxRetries + 1
    BY <1>1, NatFacts DEF StateType
  <2>3. st = [old EXCEPT !.running = 0, !.last = res.start, !.ended = res.end,
                         !.status = c, !.errors = e]
    BY <1>1 DEF StateType
  <2> HIDE DEF st, old, c, e
  <2>4. st.running = 0
    BY <1>1, <2>3 DEF StateType
  <2>5. st \in StateType
    BY <1>1, <2>1, <2>2, <2>3 DEF StateType
  <2> QED BY <2>4, <2>5
<1> HIDE DEF st
<1>3. basis \in StateType
  BY <1>1, <1>2 DEF StateType
<1>4. next \in Nat
  <2>1. natural \in Nat /\ res.end \in Nat
    BY <1>3, ComputeNextType DEF RunType
  <2> HIDE DEF natural
  <2> QED BY <2>1, NatFacts DEF Larger
<1> HIDE DEF basis, natural, next
<1>5. ASSUME NEW config \in {"on", "off", "none"}, NEW time \in Nat, result = After(config, time)
      PROVE  /\ result.config[j] = config
             /\ result.state[j] \in StateType
             /\ result.state[j].running = 0
  <2>1. [st EXCEPT !.next = time] \in StateType /\ [st EXCEPT !.next = time].running = 0
    BY <1>2 DEF StateType
  <2>2. result.config[j] = config /\ result.state[j] = [st EXCEPT !.next = time]
    BY <1>5 DEF StoreType
  <2> HIDE DEF result
  <2> QED BY <2>1, <2>2
<1>6. result = IF s.config[j] = "none" THEN s
               ELSE IF Kind[j] = "at" /\ j \in DeleteAfterRun /\ res.status = "ok" THEN Deleted(s, j)
               ELSE IF Kind[j] = "at" /\ Retried(j, res, old)
                    THEN After(s.config[j], res.end + Backoff)
               ELSE IF Kind[j] = "at" THEN After("off", 0)
               ELSE After(s.config[j], IF s.config[j] = "on" THEN next ELSE 0)
  BY DEF ApplyResult, st, next, natural, basis
<1>7. Deleted(s, j).config[j] = "none" /\ Deleted(s, j).state[j] = NoState
  BY DEF Deleted, StoreType
<1>8. res.end + Backoff \in Nat
  BY NatFacts DEF RunType
<1> SUFFICES /\ result.config[j] \in {"on", "off", "none"}
             /\ result.state[j] \in StateType
             /\ \/ result.state[j].running = 0
                \/ s.config[j] = "none" /\ result.state[j] = s.state[j]
             /\ Kind[j] = "at" /\ ~Retried(j, res, s.state[j]) => result.config[j] # "on"
  OBVIOUS
<1> HIDE DEF result, After
<1>a. CASE s.config[j] = "none"
  BY <1>1, <1>6, <1>a
<1>b. CASE /\ s.config[j] # "none"
           /\ Kind[j] = "at" /\ j \in DeleteAfterRun /\ res.status = "ok"
  BY <1>6, <1>7, <1>b, NoStateType
<1>c. CASE /\ s.config[j] # "none"
           /\ ~(Kind[j] = "at" /\ j \in DeleteAfterRun /\ res.status = "ok")
           /\ Kind[j] = "at" /\ Retried(j, res, old)
  BY <1>1, <1>5, <1>6, <1>8, <1>c
<1>d. CASE /\ s.config[j] # "none"
           /\ ~(Kind[j] = "at" /\ j \in DeleteAfterRun /\ res.status = "ok")
           /\ Kind[j] = "at" /\ ~Retried(j, res, old)
  BY <1>5, <1>6, <1>d
<1>e. CASE s.config[j] # "none" /\ Kind[j] # "at"
  BY <1>1, <1>4, <1>5, <1>6, <1>e
<1> QED BY <1>a, <1>b, <1>c, <1>d, <1>e

Settled(r, s, w) ==
    /\ w \in StoreType
    /\ \A j \in Jobs :
          /\ j \notin Ended(r) => w.config[j] = s.config[j] /\ w.state[j] = s.state[j]
          /\ w.state[j].running = 0 \/ w.state[j].running = s.state[j].running
          /\ j \in Ended(r) /\ Kind[j] = "at" /\ j \notin ToRetry(r, s) => w.config[j] # "on"

LEMMA AllApplied ==
    ASSUME NEW s \in StoreType, NEW r \in Runners, run \in [Runners -> [Jobs -> RunType]]
    PROVE  Settled(r, s, ApplyAll(s, r))
<1> DEFINE Applied(j) == ApplyResult(s, j, run[r][j], r \in Forced)
           config == [j \in Jobs |-> IF j \in Ended(r) THEN Applied(j).config[j] ELSE s.config[j]]
           state == [j \in Jobs |-> IF j \in Ended(r) THEN Applied(j).state[j] ELSE s.state[j]]
<1>1. ApplyAll(s, r) = [config |-> config, state |-> state]
  BY DEF ApplyAll
<1>2. ASSUME NEW j \in Jobs
      PROVE  /\ Applied(j).config[j] \in {"on", "off", "none"}
             /\ Applied(j).state[j] \in StateType
             /\ Applied(j).state[j].running = 0 \/ Applied(j).state[j] = s.state[j]
             /\ Kind[j] = "at" /\ ~Retried(j, run[r][j], s.state[j])
                   => Applied(j).config[j] # "on"
  <2>1. run[r][j] \in RunType /\ (r \in Forced) \in BOOLEAN
    OBVIOUS
  <2> QED BY <2>1, ResultApplied
<1> HIDE DEF Applied
<1>3. ASSUME NEW j \in Jobs
      PROVE  /\ config[j] \in {"on", "off", "none"}
             /\ state[j] \in StateType
             /\ j \notin Ended(r) => config[j] = s.config[j] /\ state[j] = s.state[j]
             /\ state[j].running = 0 \/ state[j].running = s.state[j].running
             /\ j \in Ended(r) /\ Kind[j] = "at" /\ j \notin ToRetry(r, s) => config[j] # "on"
  <2>1. s.config[j] \in {"on", "off", "none"} /\ s.state[j] \in StateType
    BY DEF StoreType
  <2>2. CASE j \in Ended(r)
    BY <1>2, <2>2 DEF ToRetry
  <2>3. CASE j \notin Ended(r)
    BY <2>1, <2>3
  <2> QED BY <2>2, <2>3
<1>4. config \in [Jobs -> {"on", "off", "none"}] /\ state \in [Jobs -> StateType]
  <2>1. config = [j \in Jobs |-> config[j]] /\ state = [j \in Jobs |-> state[j]]
    OBVIOUS
  <2> HIDE DEF config, state
  <2> QED BY <1>3, <2>1
<1> HIDE DEF config, state
<1>5. ApplyAll(s, r).config = config /\ ApplyAll(s, r).state = state
  BY <1>1
<1>6. ApplyAll(s, r) \in StoreType
  BY <1>1, <1>4 DEF StoreType
<1> QED BY <1>3, <1>5, <1>6 DEF Settled

----------------------------------------------------------------------------
(* What each section makes of the store.                                     *)

Typed ==
    /\ now \in 1..MaxTime
    /\ mem \in StoreType /\ disk \in StoreType
    /\ pc \in [Runners -> Waits \union {"idle", "runs", "run", "done"}]
    /\ run \in [Runners -> [Jobs -> RunType]]
    /\ promised \in [Jobs -> Nat]
    /\ skip \union shared \union spent \union excused \subseteq Jobs
    /\ armed \in BOOLEAN

LEMMA NowFact == ASSUME Typed PROVE now \in Nat /\ now # 0
  BY NatFacts DEF Typed

LEMMA KeptMeans ==
    ASSUME NEW s \in StoreType, NEW w, NEW t \in Nat, Kept(s, w, t),
           NEW j \in Jobs, ~IsStuck(s.state[j], t)
    PROVE  /\ On(s, j) => On(w, j)
           /\ Guarded(s, j) => Guarded(w, j)
  BY DEF Kept, On, Guarded

LEMMA LoadedFacts ==
    ASSUME Typed
    PROVE  /\ Loaded \in StoreType
           /\ Loaded.config = disk.config
           /\ \A j \in Jobs : Loaded.state[j] = IF disk.config[j] = "none" THEN NoState
                                                ELSE disk.state[j]
           /\ \A j \in Jobs : On(disk, j) => On(Loaded, j)
           /\ \A j \in Jobs : Guarded(disk, j) => Guarded(Loaded, j)
<1> DEFINE state == [j \in Jobs |-> IF disk.config[j] = "none" THEN NoState ELSE disk.state[j]]
<1>1. disk \in StoreType
  BY DEF Typed
<1>2. Loaded = [disk EXCEPT !.state = state]
  BY <1>1 DEF Loaded, StoreType
<1>3. state \in [Jobs -> StateType]
  BY <1>1, NoStateType DEF StoreType
<1>4. \A j \in Jobs : state[j] = IF disk.config[j] = "none" THEN NoState ELSE disk.state[j]
  OBVIOUS
<1> HIDE DEF state
<1>5. Loaded \in StoreType /\ Loaded.config = disk.config /\ Loaded.state = state
  BY <1>1, <1>2, <1>3 DEF StoreType
<1> QED BY <1>4, <1>5 DEF On, Guarded

LEMMA BootFacts ==
    ASSUME Typed
    PROVE  /\ BootStore \in StoreType
           /\ \A j \in Jobs : Kind[j] = "at" /\ Guarded(disk, j) => Guarded(BootStore, j)
           /\ Interrupted \subseteq Jobs
<1> DEFINE config == [j \in Jobs |-> IF j \in Interrupted /\ Kind[j] = "at" THEN "off"
                                     ELSE Loaded.config[j]]
           state == [j \in Jobs |-> LET st == Loaded.state[j] IN
                    IF j \notin Interrupted THEN st
                    ELSE [st EXCEPT !.running = 0, !.last = st.running, !.ended = now,
                                    !.status = "error", !.next = 0,
                                    !.errors = IF @ > MaxRetries THEN @ ELSE @ + 1]]
<1>1. BootStore = [config |-> config, state |-> state]
  BY DEF BootStore
<1>2. config \in [Jobs -> {"on", "off", "none"}]
  BY LoadedFacts DEF StoreType
<1>3. ASSUME NEW j \in Jobs PROVE state[j] \in StateType
  <2> DEFINE st == Loaded.state[j]
             e == IF st.errors > MaxRetries THEN st.errors ELSE st.errors + 1
  <2>1. st \in StateType
    BY LoadedFacts DEF StoreType
  <2>2. e \in 0..MaxRetries + 1 /\ st.running \in Nat
    BY <2>1, NatFacts DEF StateType
  <2>3. state[j] = IF j \notin Interrupted THEN st
                   ELSE [st EXCEPT !.running = 0, !.last = st.running, !.ended = now,
                                   !.status = "error", !.next = 0, !.errors = e]
    BY <2>1 DEF StateType
  <2> HIDE DEF st, e, state
  <2>4. [st EXCEPT !.running = 0, !.last = st.running, !.ended = now,
                   !.status = "error", !.next = 0, !.errors = e] \in StateType
    BY <2>1, <2>2, NowFact DEF StateType
  <2> QED BY <2>1, <2>3, <2>4
<1>4. state \in [Jobs -> StateType]
  <2>1. state = [j \in Jobs |-> state[j]]
    OBVIOUS
  <2> HIDE DEF state
  <2> QED BY <1>3, <2>1
<1>5. ASSUME NEW j \in Jobs, Kind[j] = "at", Guarded(disk, j)
      PROVE  config[j] # "on"
  <2>1. CASE disk.config[j] # "on"
    BY <2>1, LoadedFacts
  <2>2. CASE disk.config[j] = "on" /\ disk.state[j].running # 0
    BY <1>5, <2>2, LoadedFacts DEF Interrupted
  <2> QED BY <1>5, <2>1, <2>2 DEF Guarded
<1> HIDE DEF config, state
<1>6. BootStore \in StoreType /\ BootStore.config = config
  BY <1>1, <1>2, <1>4 DEF StoreType
<1> QED BY <1>5, <1>6 DEF Guarded, Interrupted

LEMMA MarkedFacts ==
    ASSUME Typed, NEW s \in StoreType, NEW due
    PROVE  /\ Marked(s, due) \in StoreType
           /\ Marked(s, due).config = s.config
           /\ \A j \in Jobs : Marked(s, due).state[j].running =
                                    IF j \in due THEN now ELSE s.state[j].running
           /\ \A j \in Jobs : On(s, j) => On(Marked(s, due), j)
           /\ \A j \in Jobs : Guarded(s, j) => Guarded(Marked(s, due), j)
           /\ \A j \in Jobs \intersect due : s.config[j] = "on" => On(Marked(s, due), j)
<1> DEFINE state == [j \in Jobs |-> IF j \in due THEN [s.state[j] EXCEPT !.running = now]
                                    ELSE s.state[j]]
<1>1. Marked(s, due) = [s EXCEPT !.state = state]
  BY DEF Marked, StoreType
<1>2. ASSUME NEW j \in Jobs
      PROVE  /\ state[j] \in StateType
             /\ state[j].running = IF j \in due THEN now ELSE s.state[j].running
  <2>1. s.state[j] \in StateType
    BY DEF StoreType
  <2>2. /\ [s.state[j] EXCEPT !.running = now] \in StateType
        /\ [s.state[j] EXCEPT !.running = now].running = now
    BY <2>1, NowFact DEF StateType
  <2> QED BY <2>1, <2>2
<1>3. state \in [Jobs -> StateType]
  <2>1. state = [j \in Jobs |-> state[j]]
    OBVIOUS
  <2> HIDE DEF state
  <2> QED BY <1>2, <2>1
<1> HIDE DEF state
<1>4. /\ Marked(s, due) \in StoreType
      /\ Marked(s, due).config = s.config
      /\ Marked(s, due).state = state
  BY <1>1, <1>3 DEF StoreType
<1> QED BY <1>2, <1>4, NowFact DEF On, Guarded

LEMMA CaughtUpFacts ==
    ASSUME Typed
    PROVE  /\ Settled("start", mem, ApplyAll(mem, "start"))
           /\ Kept(ApplyAll(mem, "start"), CaughtUpStore, now)
<1> DEFINE s == ApplyAll(mem, "start")
           state == [j \in Jobs |-> IF j \in PutOff(s)
                                    THEN [s.state[j] EXCEPT !.next = now + Stagger]
                                    ELSE s.state[j]]
           deferred == [s EXCEPT !.state = state]
<1>1. Settled("start", mem, s)
  BY AllApplied DEF Typed, Runners, Scheduled
<1>2. s \in StoreType
  BY <1>1 DEF Settled
<1> HIDE DEF s
<1>3. CaughtUpStore = Maintenance(deferred, now, FALSE, FALSE)
  BY <1>2 DEF CaughtUpStore, s, StoreType
<1>4. ASSUME NEW j \in Jobs
      PROVE  state[j] \in StateType /\ state[j].running = s.state[j].running
  <2>1. s.state[j] \in StateType
    BY <1>2 DEF StoreType
  <2>2. now + Stagger \in Nat
    BY NowFact, NatFacts
  <2>3. /\ [s.state[j] EXCEPT !.next = now + Stagger] \in StateType
        /\ [s.state[j] EXCEPT !.next = now + Stagger].running = s.state[j].running
    BY <2>1, <2>2 DEF StateType
  <2> QED BY <2>1, <2>3
<1>5. state \in [Jobs -> StateType]
  <2>1. state = [j \in Jobs |-> state[j]]
    OBVIOUS
  <2> HIDE DEF state
  <2> QED BY <1>4, <2>1
<1> HIDE DEF state
<1>6. deferred \in StoreType /\ deferred.config = s.config /\ deferred.state = state
  BY <1>2, <1>5 DEF StoreType
<1> HIDE DEF deferred
<1>7. Kept(deferred, CaughtUpStore, now)
  BY <1>3, <1>6, MaintenanceKeeps, NowFact
<1>8. Kept(s, CaughtUpStore, now)
  BY <1>4, <1>6, <1>7 DEF Kept, IsStuck
<1> QED BY <1>1, <1>8 DEF s

LEMMA StartedFacts == ASSUME Typed PROVE Kept(mem, StartedStore, now)
  BY MaintenanceKeeps, NowFact DEF StartedStore, Typed

LEMMA TickedFacts ==
    ASSUME Typed
    PROVE  /\ Settled("tick", Loaded, ApplyAll(Loaded, "tick"))
           /\ Kept(ApplyAll(Loaded, "tick"), TickedStore, now)
<1>1. Settled("tick", Loaded, ApplyAll(Loaded, "tick"))
  BY AllApplied, LoadedFacts DEF Typed, Runners, Scheduled
<1> QED BY <1>1, MaintenanceKeeps, NowFact DEF TickedStore, Settled

LEMMA ManualFacts ==
    /\ \A m \in Manuals : m \in Runners /\ m \notin Scheduled /\ m \notin Operations
    /\ \A m \in Manuals : ManualJob[m] \in Jobs
    /\ "start" \in Runners /\ "tick" \in Runners
    /\ "start" \notin Operations /\ "tick" \notin Operations
    /\ \A r \in Runners : r \notin Operations
  BY CronAssumption DEF CronAssumption, Runners, Scheduled, Operations

LEMMA ReservedFacts ==
    ASSUME Typed, NEW m \in Manuals
    PROVE  /\ ReservedStore(m) \in StoreType
           /\ ReservedStore(m).config = mem.config
           /\ \A j \in Jobs : ReservedStore(m).state[j].running =
                    IF j = ManualJob[m] THEN run[m][j].start ELSE mem.state[j].running
<1> DEFINE j == ManualJob[m]
           start == run[m][j].start
           marked == [mem.state[j] EXCEPT !.running = start]
           state == [mem.state EXCEPT ![j] = marked]
<1>1. j \in Jobs /\ start \in Nat
  BY ManualFacts DEF Typed, RunType
<1>2. mem \in StoreType /\ mem.state[j] \in StateType /\ mem.state \in [Jobs -> StateType]
  BY <1>1 DEF Typed, StoreType
<1>3. ReservedStore(m) = [mem EXCEPT !.state = state]
  BY <1>2 DEF ReservedStore, StoreType
<1>4. marked \in StateType /\ marked.running = start
  BY <1>1, <1>2 DEF StateType
<1> HIDE DEF start, marked, j
<1>5. /\ state \in [Jobs -> StateType]
      /\ \A i \in Jobs : state[i] = IF i = j THEN marked ELSE mem.state[i]
  BY <1>1, <1>2, <1>4
<1> HIDE DEF state
<1>6. /\ ReservedStore(m) \in StoreType
      /\ ReservedStore(m).config = mem.config
      /\ ReservedStore(m).state = state
  BY <1>2, <1>3, <1>5 DEF StoreType
<1> QED BY <1>4, <1>5, <1>6 DEF j, start

(* A store in which one job was replaced. *)
Replace(s, j, config, state) == [s EXCEPT !.config[j] = config, !.state[j] = state]

LEMMA ReplacedFacts ==
    ASSUME NEW s \in StoreType, NEW j \in Jobs,
           NEW config \in {"on", "off", "none"}, NEW state \in StateType
    PROVE  /\ Replace(s, j, config, state) \in StoreType
           /\ \A i \in Jobs :
                /\ Replace(s, j, config, state).config[i] =
                        IF i = j THEN config ELSE s.config[i]
                /\ Replace(s, j, config, state).state[i] =
                        IF i = j THEN state ELSE s.state[i]
<1> DEFINE w == Replace(s, j, config, state)
           c == [s.config EXCEPT ![j] = config]
           t == [s.state EXCEPT ![j] = state]
<1>1. w = [s EXCEPT !.config = c, !.state = t]
  BY DEF StoreType, Replace
<1>2. /\ c \in [Jobs -> {"on", "off", "none"}]
      /\ t \in [Jobs -> StateType]
      /\ \A i \in Jobs : c[i] = IF i = j THEN config ELSE s.config[i]
      /\ \A i \in Jobs : t[i] = IF i = j THEN state ELSE s.state[i]
  BY DEF StoreType
<1> HIDE DEF w, c, t
<1>3. w \in StoreType /\ w.config = c /\ w.state = t
  BY <1>1, <1>2 DEF StoreType
<1> QED BY <1>2, <1>3 DEF w

LEMMA DeletedFacts ==
    ASSUME NEW s \in StoreType, NEW j \in Jobs
    PROVE  /\ Deleted(s, j) \in StoreType
           /\ Deleted(s, j).config[j] = "none"
           /\ \A i \in Jobs \ {j} : /\ Deleted(s, j).config[i] = s.config[i]
                                    /\ Deleted(s, j).state[i] = s.state[i]
<1>1. Deleted(s, j) = Replace(s, j, "none", NoState)
  BY DEF Deleted, Replace
<1> QED BY <1>1, NoStateType, ReplacedFacts

Merged(m, w) ==
    /\ w \in StoreType
    /\ \A i \in Jobs \ {ManualJob[m]} : w.config[i] = disk.config[i] /\ w.state[i] = Loaded.state[i]
    /\ /\ ManualJob[m] \in Ended(m) /\ Kind[ManualJob[m]] = "at"
       /\ ManualJob[m] \notin ToRetry(m, mem)
       => w.config[ManualJob[m]] # "on"

LEMMA FinishedFacts ==
    ASSUME Typed, NEW m \in Manuals
    PROVE  \E w : Merged(m, w) /\ Kept(w, FinishedStore(m), now)
<1> DEFINE j == ManualJob[m]
           s == ApplyAll(mem, m)
           merged == IF s.config[j] = "none" THEN Deleted(Loaded, j)
                     ELSE IF Loaded.config[j] = "none" THEN Loaded
                     ELSE [Loaded EXCEPT !.config[j] = s.config[j], !.state[j] = s.state[j]]
<1>1. FinishedStore(m) = Maintenance(merged, now, TRUE, TRUE)
  BY DEF FinishedStore
<1>2. Settled(m, mem, s)
  BY AllApplied, ManualFacts DEF Typed
<1>3. j \in Jobs
  BY ManualFacts
<1> HIDE DEF j, s
<1>4. s.config[j] \in {"on", "off", "none"} /\ s.state[j] \in StateType
  BY <1>2, <1>3 DEF Settled, StoreType
<1>5. j \in Ended(m) /\ Kind[j] = "at" /\ j \notin ToRetry(m, mem) => s.config[j] # "on"
  BY <1>2, <1>3 DEF Settled
<1>6. /\ merged \in StoreType
      /\ \A i \in Jobs \ {j} : merged.config[i] = Loaded.config[i] /\ merged.state[i] = Loaded.state[i]
      /\ merged.config[j] = "on" => s.config[j] = "on"
  <2>1. CASE s.config[j] = "none"
    BY <1>3, <2>1, DeletedFacts, LoadedFacts
  <2>2. CASE s.config[j] # "none" /\ Loaded.config[j] = "none"
    BY <1>3, <2>2, LoadedFacts
  <2>3. CASE s.config[j] # "none" /\ Loaded.config[j] # "none"
    <3>1. merged = Replace(Loaded, j, s.config[j], s.state[j])
      BY <2>3 DEF Replace
    <3> HIDE DEF merged
    <3>2. Loaded \in StoreType
      BY LoadedFacts
    <3> DEFINE c == s.config[j]
               a == s.state[j]
    <3>3. j \in Jobs /\ c \in {"on", "off", "none"} /\ a \in StateType
      BY <1>3, <1>4
    <3> HIDE DEF c, a
    <3>4. /\ Replace(Loaded, j, c, a) \in StoreType
          /\ \A i \in Jobs : /\ Replace(Loaded, j, c, a).config[i] = IF i = j THEN c ELSE Loaded.config[i]
                             /\ Replace(Loaded, j, c, a).state[i] = IF i = j THEN a ELSE Loaded.state[i]
      BY <3>2, <3>3, ReplacedFacts
    <3>5. merged = Replace(Loaded, j, c, a)
      BY <3>1 DEF c, a
    <3> QED BY <3>3, <3>4, <3>5 DEF c
  <2> QED BY <2>1, <2>2, <2>3
<1> HIDE DEF merged
<1>7. Merged(m, merged)
  <2>1. Loaded.config = disk.config
    BY LoadedFacts
  <2> QED BY <1>5, <1>6, <2>1 DEF Merged, j
<1> QED BY <1>1, <1>6, <1>7, MaintenanceKeeps, NowFact

(* The operations: which markers they keep, and which one-shots stay guarded. *)
LEMMA OpFacts ==
    ASSUME Typed, NEW op \in Operations, NEW j \in Jobs
    PROVE  /\ OpStore(op, j) \in StoreType
           /\ op = "read" => Kept(mem, OpStore(op, j), now)
           /\ \A i \in Jobs :
                /\ op = "add" => ~IsStuck(mem.state[i], now)
                /\ op # "read"
                => /\ /\ On(mem, i)
                      /\ i = j => op \notin {"remove", "disable"}
                      => On(OpStore(op, j), i)
                   /\ /\ Guarded(mem, i)
                      /\ i = j => op \notin {"enable", "add"} \/ mem.config[i] = "on"
                      => Guarded(OpStore(op, j), i)
<1>1. mem \in StoreType /\ mem.state[j] \in StateType /\ mem.config[j] \in {"on", "off", "none"}
  BY DEF Typed, StoreType
<1> DEFINE enabled == [mem EXCEPT !.config[j] = "on",
                                  !.state[j].next = ComputeNext(j, mem.state[j], now)]
           waiting == [mem.state[j] EXCEPT !.next = ComputeNext(j, mem.state[j], now)]
<1>2. waiting \in StateType /\ waiting.running = mem.state[j].running
  <2>1. ComputeNext(j, mem.state[j], now) \in Nat
    BY <1>1, ComputeNextType, NowFact
  <2> QED BY <1>1, <2>1 DEF StateType
<1>3. enabled = Replace(mem, j, "on", waiting)
  BY <1>1 DEF StoreType, Replace
<1> HIDE DEF enabled, waiting
<1>4. /\ enabled \in StoreType
      /\ \A i \in Jobs : /\ enabled.config[i] = IF i = j THEN "on" ELSE mem.config[i]
                         /\ enabled.state[i].running = mem.state[i].running
  <2>1. "on" \in {"on", "off", "none"}
    OBVIOUS
  <2>2. /\ enabled \in StoreType
        /\ \A i \in Jobs : /\ enabled.config[i] = IF i = j THEN "on" ELSE mem.config[i]
                           /\ enabled.state[i] = IF i = j THEN waiting ELSE mem.state[i]
    <3>1. /\ Replace(mem, j, "on", waiting) \in StoreType
          /\ \A i \in Jobs : /\ Replace(mem, j, "on", waiting).config[i] = IF i = j THEN "on" ELSE mem.config[i]
                             /\ Replace(mem, j, "on", waiting).state[i] = IF i = j THEN waiting ELSE mem.state[i]
      BY <1>1, <1>2, <2>1, ReplacedFacts
    <3> QED BY <1>3, <3>1
  <2> QED BY <1>2, <2>2
<1>5. CASE op = "read"
  <2>1. OpStore(op, j) = Maintenance(mem, now, FALSE, TRUE)
    BY <1>5 DEF OpStore
  <2>2. Kept(mem, OpStore(op, j), now)
    BY <1>1, <2>1, MaintenanceKeeps, NowFact
  <2> QED BY <1>5, <2>2 DEF Kept
<1>6. CASE op = "add"
  <2>1. OpStore(op, j) = RecomputeNextRuns(enabled, now)
    BY <1>6 DEF OpStore, enabled
  <2>2. Kept(enabled, OpStore(op, j), now)
    BY <1>4, <2>1, RecomputeKeeps, NowFact
  <2>3. \A i \in Jobs : IsStuck(enabled.state[i], now) <=> IsStuck(mem.state[i], now)
    BY <1>4 DEF IsStuck
  <2> QED BY <1>4, <1>6, <2>2, <2>3 DEF Kept, On, Guarded
<1>7. CASE op = "remove"
  <2>1. OpStore(op, j) = Deleted(mem, j)
    BY <1>7 DEF OpStore
  <2> QED BY <1>1, <1>7, <2>1, DeletedFacts DEF On, Guarded
<1>8. CASE op = "enable"
  <2>1. OpStore(op, j) = enabled
    BY <1>8 DEF OpStore, enabled
  <2> QED BY <1>1, <1>4, <1>8, <2>1 DEF On, Guarded
<1>9. CASE op = "disable"
  <2> DEFINE off == [mem.state[j] EXCEPT !.next = 0, !.running = 0]
             disabled == Replace(mem, j, "off", off)
  <2>1. OpStore(op, j) = disabled
    BY <1>1, <1>9 DEF OpStore, Replace, StoreType, StateType
  <2>2. off \in StateType
    BY <1>1, ClearedType
  <2> HIDE DEF off
  <2>3. /\ disabled \in StoreType
        /\ \A i \in Jobs : /\ disabled.config[i] = IF i = j THEN "off" ELSE mem.config[i]
                           /\ disabled.state[i] = IF i = j THEN off ELSE mem.state[i]
    BY <1>1, <2>2, ReplacedFacts
  <2> HIDE DEF disabled
  <2> QED BY <1>1, <1>9, <2>1, <2>3 DEF On, Guarded
<1> QED BY <1>5, <1>6, <1>7, <1>8, <1>9 DEF Operations

----------------------------------------------------------------------------
(* The chain: a runner is in it exactly when it waits for a section, once.   *)

Entry == (Runners \X {"-"}) \union (Operations \X Jobs)
Line(c, p) ==
    /\ c \in Seq(Entry)
    /\ \A i, k \in 1..Len(c) : c[i][1] = c[k][1] /\ c[i][1] \in Runners => i = k
    /\ \A r \in Runners : p[r] \in Waits => \E i \in 1..Len(c) : c[i][1] = r
    /\ \A i \in 1..Len(c) : c[i][1] \in Runners => p[c[i][1]] \in Waits

LEMMA EntryFacts ==
    /\ \A r \in Runners : <<r, "-">> \in Entry /\ <<r, "-">>[1] = r
    /\ \A op \in Operations, j \in Jobs : <<op, j>> \in Entry /\ <<op, j>>[1] = op
    /\ \A e \in Entry : \/ e[1] \in Runners
                        \/ e[1] \in Operations /\ e[1] \notin Runners /\ e[2] \in Jobs
  BY ManualFacts DEF Entry

LEMMA TailLine ==
    ASSUME NEW c, NEW p, NEW q, Line(c, p), c # <<>>, NEW w, c[1][1] = w,
           w \in Runners => q[w] \notin Waits,
           \A r \in Runners \ {w} : q[r] = p[r]
    PROVE  Line(Tail(c), q)
<1> DEFINE t == Tail(c)
<1>1. /\ t \in Seq(Entry) /\ Len(t) = Len(c) - 1
      /\ \A i \in 1..Len(t) : t[i] = c[i + 1] /\ i + 1 \in 1..Len(c)
      /\ 1 \in 1..Len(c) /\ Len(c) \in Nat
  BY DEF Line
<1> HIDE DEF t
<1>2. \A i, k \in 1..Len(t) : t[i][1] = t[k][1] /\ t[i][1] \in Runners => i = k
  <2> SUFFICES ASSUME NEW i \in 1..Len(t), NEW k \in 1..Len(t),
                      t[i][1] = t[k][1], t[i][1] \in Runners
               PROVE  i = k
    OBVIOUS
  <2>1. i + 1 = k + 1
    BY <1>1 DEF Line
  <2> QED BY <2>1
<1>3. ASSUME NEW i \in 1..Len(t), t[i][1] \in Runners
      PROVE  t[i][1] # w /\ q[t[i][1]] \in Waits
  <2>1. t[i] = c[i + 1] /\ i + 1 \in 1..Len(c) /\ i + 1 # 1
    BY <1>1
  <2>2. t[i][1] # w
    BY <1>1, <1>3, <2>1 DEF Line
  <2>3. p[t[i][1]] \in Waits
    BY <1>3, <2>1 DEF Line
  <2> QED BY <1>3, <2>2, <2>3
<1>4. ASSUME NEW r \in Runners, q[r] \in Waits
      PROVE  \E i \in 1..Len(t) : t[i][1] = r
  <2>1. r # w /\ p[r] \in Waits
    BY <1>4
  <2>2. PICK i \in 1..Len(c) : c[i][1] = r
    BY <2>1 DEF Line
  <2>3. i # 1
    BY <2>1, <2>2
  <2>4. i - 1 \in 1..Len(t) /\ t[i - 1] = c[i]
    <3>1. i - 1 \in 1..Len(t)
      BY <1>1, <2>3
    <3>2. (i - 1) + 1 = i
      OBVIOUS
    <3> QED BY <1>1, <3>1, <3>2
  <2> QED BY <2>2, <2>4
<1> QED BY <1>1, <1>2, <1>3, <1>4 DEF Line, t

LEMMA AppendLine ==
    ASSUME NEW c, NEW p, NEW q, Line(c, p), NEW r \in Runners,
           p[r] \notin Waits, q[r] \in Waits,
           \A s \in Runners \ {r} : q[s] = p[s]
    PROVE  Line(Append(c, <<r, "-">>), q)
<1> DEFINE t == Append(c, <<r, "-">>)
<1>1. /\ c \in Seq(Entry) /\ Len(c) \in Nat
      /\ t \in Seq(Entry) /\ Len(t) = Len(c) + 1
      /\ \A i \in 1..Len(c) : t[i] = c[i] /\ i \in 1..Len(t)
      /\ t[Len(c) + 1] = <<r, "-">> /\ Len(c) + 1 \in 1..Len(t)
      /\ \A i \in 1..Len(t) : i \in 1..Len(c) \/ i = Len(c) + 1
  BY EntryFacts DEF Line
<1>2. t[Len(c) + 1][1] = r
  BY <1>1
<1> HIDE DEF t
<1>3. \A i \in 1..Len(c) : c[i][1] # r
  BY DEF Line
<1>4. \A i, k \in 1..Len(t) : t[i][1] = t[k][1] /\ t[i][1] \in Runners => i = k
  BY <1>1, <1>2, <1>3 DEF Line
<1>5. ASSUME NEW s \in Runners, q[s] \in Waits
      PROVE  \E i \in 1..Len(t) : t[i][1] = s
  <2>1. CASE s = r
    BY <1>1, <1>2, <2>1
  <2>2. CASE s # r
    <3>1. PICK i \in 1..Len(c) : c[i][1] = s
      BY <1>5, <2>2 DEF Line
    <3> QED BY <1>1, <3>1
  <2> QED BY <2>1, <2>2
<1>6. ASSUME NEW i \in 1..Len(t), t[i][1] \in Runners
      PROVE  q[t[i][1]] \in Waits
  BY <1>1, <1>2, <1>3, <1>6 DEF Line
<1> QED BY <1>1, <1>4, <1>5, <1>6 DEF Line, t

LEMMA AskLine ==
    ASSUME NEW c, NEW p, Line(c, p), NEW op \in Operations, NEW j \in Jobs
    PROVE  Line(Append(c, <<op, j>>), p)
<1> DEFINE t == Append(c, <<op, j>>)
<1>1. /\ c \in Seq(Entry) /\ Len(c) \in Nat
      /\ t \in Seq(Entry) /\ Len(t) = Len(c) + 1
      /\ \A i \in 1..Len(c) : t[i] = c[i] /\ i \in 1..Len(t)
      /\ t[Len(c) + 1] = <<op, j>>
      /\ \A i \in 1..Len(t) : i \in 1..Len(c) \/ i = Len(c) + 1
  BY EntryFacts DEF Line
<1>2. t[Len(c) + 1][1] \notin Runners
  BY <1>1, ManualFacts
<1> HIDE DEF t
<1>3. \A i, k \in 1..Len(t) : t[i][1] = t[k][1] /\ t[i][1] \in Runners => i = k
  BY <1>1, <1>2 DEF Line
<1>4. ASSUME NEW s \in Runners, p[s] \in Waits
      PROVE  \E i \in 1..Len(t) : t[i][1] = s
  <2>1. PICK i \in 1..Len(c) : c[i][1] = s
    BY <1>4 DEF Line
  <2> QED BY <1>1, <2>1
<1>5. ASSUME NEW i \in 1..Len(t), t[i][1] \in Runners
      PROVE  p[t[i][1]] \in Waits
  BY <1>1, <1>2, <1>5 DEF Line
<1> QED BY <1>1, <1>3, <1>4, <1>5 DEF Line, t

LEMMA QueueLine ==
    ASSUME NEW c, NEW p, NEW q, Line(c, p), c # <<>>, NEW r \in Runners, c[1][1] = r,
           q[r] \in Waits,
           \A s \in Runners \ {r} : q[s] = p[s]
    PROVE  Line(Append(Tail(c), <<r, "-">>), q)
<1> DEFINE away == [s \in Runners |-> IF s = r THEN "idle" ELSE p[s]]
<1>1. away[r] \notin Waits /\ \A s \in Runners \ {r} : away[s] = p[s]
  BY DEF Waits
<1> HIDE DEF away
<1>2. Line(Tail(c), away)
  BY <1>1, TailLine
<1> QED BY <1>1, <1>2, AppendLine

----------------------------------------------------------------------------
(* The inductive invariant.                                                  *)

(* Where a runner is, and what it then has in its hands. *)
At(r) ==
    /\ r = "start" => pc[r] \in {"boot", "plan", "runs", "apply", "finish", "idle"}
    /\ r = "tick" => pc[r] \in {"mark", "runs", "apply", "idle"}
    /\ r \in Scheduled => \A j \in Jobs : Held(r, j) => pc[r] \in {"runs", "apply"}
    /\ r \in Manuals =>
          /\ pc[r] \in {"idle", "preflight", "reserve", "run", "finish", "done"}
          /\ \A j \in Jobs : Held(r, j) => /\ j = ManualJob[r] /\ pc[r] \in {"run", "finish"}
                                           /\ run[r][j].pc # "waiting"
          /\ pc[r] \in {"run", "finish"} => Held(r, ManualJob[r])
          /\ pc[r] = "reserve" => run[r][ManualJob[r]].start # 0
    /\ \A j \in Jobs : run[r][j].pc \in {"waiting", "executing"} => pc[r] \in {"runs", "run"}
Places == \A r \in Runners : At(r)

(* Until the startup is over nothing else runs, waits or is set.             *)
Starting ==
    pc["start"] # "idle" =>
        /\ ~armed
        /\ \A r \in Runners \ {"start"} : pc[r] \in {"idle", "done"}
        /\ \A i \in 1..Len(chain) : chain[i][1] = "start"

(* A job that nothing interfered with has one holder, and while it is held   *)
(* its marker is in memory and in the files.                                 *)
SafeAt(j) ==
    /\ \A r, s \in Runners : Held(r, j) /\ Held(s, j) => r = s
    /\ \A r \in Runners : Held(r, j) => On(mem, j) /\ On(disk, j)
    /\ mem.config[j] = disk.config[j]
Safe == \A j \in Jobs \ excused : SafeAt(j)

(* A one-shot that was begun is disabled or marked, in memory and in the     *)
(* files, and no tick or startup is about to run it.                         *)
SpentAt(j) ==
    /\ Guarded(mem, j) /\ Guarded(disk, j)
    /\ \A r \in Scheduled : run[r][j].pc # "waiting"
SpentSafe == \A j \in spent : Kind[j] = "at" /\ (j \notin excused => SpentAt(j))

IInv == Typed /\ Line(chain, pc) /\ Places /\ Starting /\ Safe /\ SpentSafe

LEMMA RunFacts ==
    /\ NoRun \in RunType /\ NoRun.pc = "none"
    /\ [NoRun EXCEPT !.pc = "waiting"] \in RunType
    /\ [NoRun EXCEPT !.pc = "waiting"].pc = "waiting"
    /\ Idle \in [Jobs -> RunType] /\ \A j \in Jobs : Idle[j].pc = "none"
  BY DEF NoRun, RunType, Idle

Taken(due) == [j \in Jobs |-> IF j \in due THEN [NoRun EXCEPT !.pc = "waiting"] ELSE NoRun]
LEMMA TakenFacts ==
    ASSUME NEW due
    PROVE  /\ Taken(due) \in [Jobs -> RunType]
           /\ \A j \in Jobs : Taken(due)[j].pc = IF j \in due THEN "waiting" ELSE "none"
  BY RunFacts DEF Taken

LEMMA OweType ==
    ASSUME Typed, NEW s \in StoreType, NEW t, NEW over
    PROVE  Owe(s, t, over) \in [Jobs -> Nat]
<1>1. \A j \in Jobs : s.state[j].next \in Nat
  BY DEF StoreType, StateType
<1> QED BY <1>1 DEF Owe, Typed

LEMMA LeaveFacts ==
    ASSUME Typed, NEW s \in StoreType, NEW over, Leave(s, over)
    PROVE  mem' = s /\ now' = now /\ promised' \in [Jobs -> Nat]
  BY OweType DEF Leave

LEMMA SaveFacts ==
    ASSUME Typed, NEW s \in StoreType, NEW over, Save(s, over)
    PROVE  mem' = s /\ disk' = s /\ now' = now /\ promised' \in [Jobs -> Nat]
  BY LeaveFacts DEF Save

LEMMA SaveIfChangedFacts ==
    ASSUME Typed, NEW s \in StoreType, NEW old, SaveIfChanged(s, old)
    PROVE  /\ mem' = s /\ now' = now /\ promised' \in [Jobs -> Nat]
           /\ disk' = s \/ disk' = disk
  BY LeaveFacts DEF SaveIfChanged

LEMMA PlacesKept ==
    ASSUME Places, NEW w, \A r \in Runners \ {w} : pc'[r] = pc[r] /\ run'[r] = run[r],
           w \in Runners => At(w)'
    PROVE  Places'
<1> SUFFICES ASSUME NEW r \in Runners PROVE At(r)'
  BY DEF Places
<1>1. CASE r = w
  BY <1>1
<1>2. CASE r # w
  <2>1. At(r) /\ pc'[r] = pc[r] /\ run'[r] = run[r]
    BY <1>2 DEF Places
  <2> QED BY <2>1 DEF At, Held
<1> QED BY <1>1, <1>2

LEMMA QuietSafe ==
    ASSUME IInv, UNCHANGED <<mem, disk, run, spent, excused>>
    PROVE  Safe' /\ SpentSafe'
  BY DEF IInv, Safe, SafeAt, SpentSafe, SpentAt, Held

LEMMA ClockStep == ASSUME IInv, Clock PROVE IInv'
<1>1. Typed'
  <2>1. now' \in 1..MaxTime
    BY NatFacts DEF Clock, IInv, Typed
  <2>2. promised' \in [Jobs -> Nat]
    BY OweType DEF Clock, IInv, Typed
  <2> QED BY <2>1, <2>2 DEF Clock, IInv, Typed
<1>2. Line(chain, pc)' /\ Places' /\ Starting'
  BY DEF Clock, IInv, Places, At, Held, Starting
<1> QED BY <1>1, <1>2, QuietSafe DEF Clock, IInv

(* A section is under way after the startup, or it is of the startup itself. *)
LEMMA AwakeFacts ==
    ASSUME IInv, NEW w, chain # <<>>, chain[1][1] = w
    PROVE  /\ w # "start" => pc["start"] = "idle"
           /\ w \in Runners => pc[w] \in Waits
           /\ w \in Runners \ {"start"} => pc["start"] = "idle"
<1>1. 1 \in 1..Len(chain)
  BY DEF IInv, Line
<1> QED BY <1>1 DEF IInv, Line, Starting

LEMMA TimerStep == ASSUME IInv, TimerFires PROVE IInv'
<1>1. Typed'
  BY ManualFacts DEF TimerFires, IInv, Typed, Waits
<1>2. /\ pc["start"] = "idle" /\ pc' = [pc EXCEPT !["tick"] = "mark"]
      /\ pc'["start"] = "idle" /\ pc'["tick"] = "mark" /\ pc["tick"] = "idle"
      /\ \A r \in Runners \ {"tick"} : pc'[r] = pc[r]
      /\ chain' = Append(chain, <<"tick", "-">>)
  BY ManualFacts DEF TimerFires, IInv, Starting, Typed
<1>3. Line(chain, pc)'
  <2>1. pc["tick"] \notin Waits /\ pc'["tick"] \in Waits /\ Line(chain, pc) /\ "tick" \in Runners
    BY <1>2, ManualFacts DEF Waits, IInv
  <2>2. Line(Append(chain, <<"tick", "-">>), pc')
    BY <1>2, <2>1, AppendLine
  <2> QED BY <1>2, <2>2
<1>4. Places'
  <2>1. At("tick") /\ run' = run
    BY ManualFacts DEF TimerFires, IInv, Places
  <2>2. At("tick")'
    BY <1>2, <2>1, ManualFacts DEF At, Held, Scheduled
  <2> QED BY <1>2, <2>1, <2>2, PlacesKept DEF IInv
<1>5. Starting'
  BY <1>2 DEF Starting
<1> QED BY <1>1, <1>3, <1>4, <1>5, QuietSafe DEF TimerFires, IInv

LEMMA CallStep == ASSUME IInv, NEW m \in Manuals, Call(m) PROVE IInv'
<1>1. Typed'
  BY ManualFacts DEF Call, IInv, Typed, Waits
<1>2. /\ pc["start"] = "idle" /\ pc'["start"] = "idle"
      /\ pc'[m] = "preflight" /\ pc[m] = "idle" /\ m \in Runners /\ m \notin Scheduled
      /\ \A r \in Runners \ {m} : pc'[r] = pc[r]
      /\ chain' = Append(chain, <<m, "-">>)
  BY ManualFacts DEF Call, IInv, Typed, Scheduled
<1>3. Line(chain, pc)'
  <2>1. pc[m] \notin Waits /\ pc'[m] \in Waits /\ Line(chain, pc)
    BY <1>2 DEF Waits, IInv
  <2>2. Line(Append(chain, <<m, "-">>), pc')
    BY <1>2, <2>1, AppendLine
  <2> QED BY <1>2, <2>2
<1>4. Places'
  <2>1. At(m) /\ run' = run
    BY <1>2 DEF Call, IInv, Places
  <2>2. At(m)'
    BY <1>2, <2>1 DEF At, Held, Scheduled
  <2> QED BY <1>2, <2>1, <2>2, PlacesKept DEF IInv
<1>5. Starting'
  BY <1>2 DEF Starting
<1> QED BY <1>1, <1>3, <1>4, <1>5, QuietSafe DEF Call, IInv

LEMMA AskStep == ASSUME IInv, NEW op \in Ops, NEW j \in Jobs, Ask(op, j) PROVE IInv'
<1>1. Typed'
  BY DEF Ask, IInv, Typed
<1>2. op \in Operations
  BY CronAssumption DEF CronAssumption
<1>3. Line(chain, pc)'
  <2>1. Line(Append(chain, <<op, j>>), pc)
    BY <1>2, AskLine DEF IInv
  <2> QED BY <2>1 DEF Ask
<1>4. Places'
  BY DEF Ask, IInv, Places, At, Held
<1>5. Starting'
  BY DEF Ask, Starting
<1> QED BY <1>1, <1>3, <1>4, <1>5, QuietSafe DEF Ask, IInv

----------------------------------------------------------------------------
(* start.  While it is under way no other runner holds a job.                *)

LEMMA StartFacts ==
    ASSUME IInv, chain # <<>>, chain[1][1] = "start"
    PROVE  /\ ~armed /\ pc["start"] \in Waits
           /\ \A r \in Runners \ {"start"} : pc[r] \in {"idle", "done"}
           /\ \A r \in Runners, j \in Jobs : Held(r, j) => r = "start" /\ pc["start"] = "apply"
           /\ \A i \in 1..Len(chain) : chain[i][1] = "start"
           /\ Len(chain) = 1
<1>1. 1 \in 1..Len(chain)
  BY DEF IInv, Line
<1>2. pc["start"] \in Waits /\ pc["start"] # "idle"
  BY <1>1, ManualFacts DEF IInv, Line, Waits
<1>3. /\ ~armed
      /\ \A r \in Runners \ {"start"} : pc[r] \in {"idle", "done"}
      /\ \A i \in 1..Len(chain) : chain[i][1] = "start"
  BY <1>2 DEF IInv, Starting
<1>4. \A r \in Runners, j \in Jobs : Held(r, j) => r = "start" /\ pc["start"] = "apply"
  <2> SUFFICES ASSUME NEW r \in Runners, NEW j \in Jobs, Held(r, j)
               PROVE  r = "start" /\ pc["start"] = "apply"
    OBVIOUS
  <2>1. At(r)
    BY DEF IInv, Places
  <2>2. pc[r] \in {"runs", "apply", "run", "finish"} /\ (r = "start" => pc[r] \in {"runs", "apply"})
    BY <2>1 DEF At, Runners, Scheduled
  <2> QED BY <1>2, <1>3, <2>2 DEF Waits
<1>5. Len(chain) = 1
  <2> DEFINE n == Len(chain)
  <2>1. n \in Nat /\ 1 \in 1..n
    BY <1>1 DEF IInv, Line
  <2>2. ASSUME ~(n <= 1) PROVE FALSE
    <3>1. 2 \in 1..Len(chain)
      BY <2>1, <2>2
    <3>2. chain[2][1] = chain[1][1] /\ chain[1][1] \in Runners
      BY <1>1, <1>3, <3>1, ManualFacts
    <3>3. 1 = 2
      BY <1>1, <3>1, <3>2 DEF IInv, Line
    <3> QED BY <3>3
  <2> QED BY <2>1, <2>2
<1> QED BY <1>2, <1>3, <1>4, <1>5

(* The startup queues its next section. *)
LEMMA StartQueues ==
    ASSUME IInv, chain # <<>>, chain[1][1] = "start", Queue("start"),
           NEW at \in {"plan", "apply", "finish"}, pc' = [pc EXCEPT !["start"] = at],
           armed' = armed
    PROVE  /\ Line(chain, pc)' /\ Starting'
           /\ pc'["start"] = at /\ \A r \in Runners \ {"start"} : pc'[r] = pc[r]
           /\ pc' \in [Runners -> Waits \union {"idle", "runs", "run", "done"}]
<1>1. /\ "start" \in Runners /\ at \in Waits
      /\ pc'["start"] = at /\ \A r \in Runners \ {"start"} : pc'[r] = pc[r]
      /\ pc' \in [Runners -> Waits \union {"idle", "runs", "run", "done"}]
  BY ManualFacts DEF IInv, Typed, Waits
<1>2. chain' = Append(Tail(chain), <<"start", "-">>)
  BY DEF Queue
<1>3. Line(Append(Tail(chain), <<"start", "-">>), pc')
  <2>1. Line(chain, pc) /\ chain # <<>> /\ chain[1][1] = "start" /\ pc'["start"] \in Waits
    BY <1>1 DEF IInv
  <2> QED BY <1>1, <2>1, QueueLine
<1>4. \A i \in 1..Len(chain') : chain'[i][1] = "start"
  <2>1. chain \in Seq(Entry) /\ Len(chain) = 1
    BY StartFacts DEF IInv, Line
  <2>2. Tail(chain) \in Seq(Entry) /\ Len(Tail(chain)) = 0
    BY <2>1
  <2>3. Len(chain') = 1 /\ chain'[1] = <<"start", "-">>
    BY <1>2, <2>2
  <2> QED BY <2>3
<1> QED BY <1>1, <1>2, <1>3, <1>4, StartFacts DEF Starting

LEMMA BootStep == ASSUME IInv, BootSection PROVE IInv'
<1>1. /\ chain # <<>> /\ chain[1][1] = "start" /\ pc["start"] = "boot"
      /\ Save(BootStore, {}) /\ skip' = Interrupted
      /\ pc' = [pc EXCEPT !["start"] = "plan"] /\ Queue("start")
      /\ run' = run /\ shared' = shared /\ armed' = armed /\ spent' = spent /\ excused' = excused
  BY DEF BootSection, HeadIs
<1>2. mem' = BootStore /\ disk' = BootStore /\ now' = now /\ promised' \in [Jobs -> Nat]
  BY <1>1, BootFacts, SaveFacts DEF IInv
<1>3. /\ Line(chain, pc)' /\ Starting'
      /\ pc'["start"] = "plan" /\ \A r \in Runners \ {"start"} : pc'[r] = pc[r]
      /\ pc' \in [Runners -> Waits \union {"idle", "runs", "run", "done"}]
  BY <1>1, StartQueues
<1>4. Typed'
  BY <1>1, <1>2, <1>3, BootFacts DEF IInv, Typed
<1>5. \A r \in Runners, j \in Jobs : ~Held(r, j)
  BY <1>1, StartFacts
<1>6. Places'
  <2>1. At("start")
    BY ManualFacts DEF IInv, Places
  <2>2. At("start")'
    BY <1>1, <1>3, <1>5, <2>1, ManualFacts DEF At, Held
  <2> QED BY <1>1, <1>3, <2>2, PlacesKept DEF IInv
<1>7. Safe'
  BY <1>1, <1>2, <1>5 DEF Safe, SafeAt, Held
<1>8. SpentSafe'
  <2>1. spent \subseteq Jobs
    BY DEF IInv, Typed
  <2> QED BY <1>1, <1>2, <2>1, BootFacts DEF IInv, SpentSafe, SpentAt
<1> QED BY <1>3, <1>4, <1>6, <1>7, <1>8 DEF IInv

LEMMA PlanStep == ASSUME IInv, PlanSection PROVE IInv'
<1>1. /\ chain # <<>> /\ chain[1][1] = "start" /\ pc["start"] = "plan"
      /\ shared' = shared /\ armed' = armed /\ spent' = spent /\ excused' = excused
  BY DEF PlanSection, HeadIs
<1>2. \A r \in Runners, j \in Jobs : ~Held(r, j)
  BY <1>1, StartFacts
<1>3. At("start") /\ "start" \in Runners /\ "start" \in Scheduled /\ "start" \notin Manuals
  BY ManualFacts DEF IInv, Places, Scheduled
<1>4. CASE MissedJobs = {}
  <2>1. /\ Leave(mem, {}) /\ disk' = disk /\ run' = run /\ skip' = skip
        /\ pc' = [pc EXCEPT !["start"] = "finish"] /\ Queue("start")
    BY <1>4 DEF PlanSection
  <2>2. mem' = mem /\ now' = now /\ promised' \in [Jobs -> Nat]
    BY <2>1, LeaveFacts DEF IInv, Typed
  <2>3. /\ Line(chain, pc)' /\ Starting'
        /\ pc'["start"] = "finish" /\ \A r \in Runners \ {"start"} : pc'[r] = pc[r]
        /\ pc' \in [Runners -> Waits \union {"idle", "runs", "run", "done"}]
    BY <1>1, <2>1, StartQueues
  <2>4. Typed'
    BY <1>1, <2>1, <2>2, <2>3 DEF IInv, Typed
  <2>5. Places'
    <3>1. At("start")'
      BY <1>1, <1>2, <1>3, <2>1, <2>3 DEF At, Held
    <3> QED BY <2>1, <2>3, <3>1, PlacesKept DEF IInv
  <2> QED BY <1>1, <2>1, <2>2, <2>3, <2>4, <2>5, QuietSafe DEF IInv
<1>5. CASE MissedJobs # {}
  <2>1. /\ Save(Marked(mem, Candidates), {}) /\ skip' = MissedJobs \ Candidates
        /\ run' = [run EXCEPT !["start"] = Taken(Candidates)]
        /\ IF Candidates = {}
           THEN Queue("start") /\ pc' = [pc EXCEPT !["start"] = "apply"]
           ELSE chain' = Tail(chain) /\ pc' = [pc EXCEPT !["start"] = "runs"]
    BY <1>5 DEF PlanSection, Taken
  <2>2. /\ mem' = Marked(mem, Candidates) /\ disk' = mem' /\ mem' \in StoreType
        /\ now' = now /\ promised' \in [Jobs -> Nat]
    BY <2>1, MarkedFacts, SaveFacts DEF IInv, Typed
  <2>3. /\ run' \in [Runners -> [Jobs -> RunType]]
        /\ \A r \in Runners \ {"start"} : run'[r] = run[r]
        /\ \A j \in Jobs : run'["start"][j].pc = IF j \in Candidates THEN "waiting" ELSE "none"
    BY <1>3, <2>1, TakenFacts DEF IInv, Typed
  <2>4. /\ Line(chain, pc)' /\ Starting'
        /\ pc'["start"] = IF Candidates = {} THEN "apply" ELSE "runs"
        /\ \A r \in Runners \ {"start"} : pc'[r] = pc[r]
        /\ pc' \in [Runners -> Waits \union {"idle", "runs", "run", "done"}]
    <3>1. CASE Candidates = {}
      BY <1>1, <2>1, <3>1, StartQueues
    <3>2. CASE Candidates # {}
      <4>1. /\ pc'["start"] = "runs" /\ chain' = Tail(chain)
            /\ \A r \in Runners \ {"start"} : pc'[r] = pc[r]
            /\ pc' \in [Runners -> Waits \union {"idle", "runs", "run", "done"}]
        BY <1>3, <2>1, <3>2 DEF IInv, Typed
      <4>2. pc'["start"] \notin Waits
        BY <4>1 DEF Waits
      <4>3. Line(Tail(chain), pc')
        BY <1>1, <4>1, <4>2, TailLine DEF IInv
      <4>4. chain \in Seq(Entry) /\ Len(chain) = 1
        BY <1>1, StartFacts DEF IInv, Line
      <4>5. Len(chain') = 0
        BY <4>1, <4>4
      <4>6. Starting'
        BY <1>1, <4>1, <4>5, StartFacts DEF Starting
      <4> QED BY <3>2, <4>1, <4>3, <4>6
    <3> QED BY <3>1, <3>2
  <2>5. Typed'
    BY <1>1, <2>1, <2>2, <2>3, <2>4 DEF IInv, Typed, MissedJobs
  <2>6. Places'
    <3>1. At("start")'
      BY <1>3, <2>3, <2>4 DEF At, Held
    <3> QED BY <2>3, <2>4, <3>1, PlacesKept DEF IInv
  <2>7. \A j \in Candidates : j \in Jobs /\ mem.config[j] = "on" /\ mem.state[j].running = 0
    BY DEF Candidates, MissedJobs, Missed
  <2>8. Safe'
    <3> SUFFICES ASSUME NEW j \in Jobs \ excused PROVE SafeAt(j)'
      BY <1>1 DEF Safe
    <3>1. \A r \in Runners : Held(r, j)' => r = "start" /\ j \in Candidates
      BY <1>2, <2>3 DEF Held
    <3>2. j \in Candidates => On(mem', j)
      BY <2>2, <2>7, MarkedFacts DEF IInv, Typed
    <3> QED BY <2>2, <3>1, <3>2 DEF SafeAt, On
  <2>9. SpentSafe'
    <3> SUFFICES ASSUME NEW j \in spent
                 PROVE  Kind[j] = "at" /\ (j \notin excused => SpentAt(j)')
      BY <1>1 DEF SpentSafe
    <3>1. j \in Jobs /\ Kind[j] = "at" /\ (j \notin excused => SpentAt(j))
      BY DEF IInv, Typed, SpentSafe
    <3> SUFFICES ASSUME j \notin excused PROVE SpentAt(j)'
      BY <3>1
    <3>2. Guarded(mem, j) /\ \A r \in Scheduled : run[r][j].pc # "waiting"
      BY <3>1 DEF SpentAt
    <3>3. Guarded(mem', j)
      BY <2>2, <3>1, <3>2, MarkedFacts DEF IInv, Typed
    <3>4. j \notin Candidates
      BY <2>7, <3>2 DEF Guarded
    <3>5. \A r \in Scheduled : run'[r][j].pc # "waiting"
      BY <2>3, <3>1, <3>2, <3>4 DEF Scheduled, Runners
    <3> QED BY <2>2, <3>3, <3>5 DEF SpentAt, Guarded
  <2> QED BY <2>4, <2>5, <2>6, <2>8, <2>9 DEF IInv
<1> QED BY <1>4, <1>5

LEMMA ApplyStep == ASSUME IInv, StartApply PROVE IInv'
<1> DEFINE a == ApplyAll(mem, "start")
<1>1. /\ chain # <<>> /\ chain[1][1] = "start" /\ pc["start"] = "apply"
      /\ pc' = [pc EXCEPT !["start"] = "finish"] /\ Queue("start")
      /\ run' = [run EXCEPT !["start"] = Idle]
      /\ spent' = spent \ ToRetry("start", mem) /\ excused' = excused \union Aged(a)
      /\ skip' = skip /\ shared' = shared /\ armed' = armed /\ now' = now
  BY DEF StartApply, HeadIs
<1>2. /\ mem' = CaughtUpStore /\ disk' = CaughtUpStore
      /\ promised' = [j \in Jobs |-> IF j \in PutOff(ApplyAll(mem, "start")) THEN now + Stagger
                                     ELSE Owe(CaughtUpStore, now, {})[j]]
  BY DEF StartApply
<1>3. Settled("start", mem, a) /\ Kept(a, CaughtUpStore, now) /\ now \in Nat
  BY CaughtUpFacts, NowFact DEF IInv
<1>4. promised' \in [Jobs -> Nat]
  <2>1. Owe(CaughtUpStore, now, {}) \in [Jobs -> Nat]
    BY <1>3, OweType DEF IInv, Kept
  <2>2. now + Stagger \in Nat
    BY <1>3, NatFacts
  <2> QED BY <1>2, <2>1, <2>2
<1>5. /\ Line(chain, pc)' /\ Starting'
      /\ pc'["start"] = "finish" /\ \A r \in Runners \ {"start"} : pc'[r] = pc[r]
      /\ pc' \in [Runners -> Waits \union {"idle", "runs", "run", "done"}]
  BY <1>1, StartQueues
<1>6. /\ run' \in [Runners -> [Jobs -> RunType]]
      /\ \A r \in Runners \ {"start"} : run'[r] = run[r]
      /\ \A j \in Jobs : run'["start"][j].pc = "none"
  BY <1>1, RunFacts, ManualFacts DEF IInv, Typed
<1> HIDE DEF a
<1>7. Typed'
  BY <1>1, <1>2, <1>3, <1>4, <1>5, <1>6 DEF IInv, Typed, Kept, Aged
<1>8. \A r \in Runners, j \in Jobs : ~Held(r, j)'
  BY <1>1, <1>6, StartFacts DEF Held
<1>9. Places'
  <2>1. At("start") /\ "start" \in Runners /\ "start" \notin Manuals
    BY ManualFacts DEF IInv, Places, Scheduled
  <2>2. At("start")'
    BY <1>5, <1>6, <1>8, <2>1 DEF At
  <2> QED BY <1>5, <1>6, <2>2, PlacesKept DEF IInv
<1>10. Safe'
  BY <1>2, <1>8 DEF Safe, SafeAt
<1>11. SpentSafe'
  <2> SUFFICES ASSUME NEW j \in spent \ ToRetry("start", mem)
               PROVE  Kind[j] = "at" /\ (j \notin excused' => SpentAt(j)')
    BY <1>1 DEF SpentSafe
  <2>1. j \in Jobs /\ Kind[j] = "at" /\ (j \notin excused => SpentAt(j))
    BY DEF IInv, Typed, SpentSafe
  <2> SUFFICES ASSUME j \notin excused' PROVE SpentAt(j)'
    BY <2>1
  <2>2. Guarded(mem, j) /\ ~IsStuck(a.state[j], now)
    BY <1>1, <2>1 DEF SpentAt, Aged
  <2>3. Guarded(a, j)
    BY <1>3, <2>1, <2>2 DEF Settled, Guarded
  <2>4. Guarded(CaughtUpStore, j)
    BY <1>3, <2>1, <2>2, <2>3, KeptMeans DEF Settled
  <2>5. \A r \in Scheduled : run'[r][j].pc # "waiting"
    BY <1>8, <2>1 DEF Held, Runners
  <2> QED BY <1>2, <2>4, <2>5 DEF SpentAt, Guarded
<1> QED BY <1>5, <1>7, <1>9, <1>10, <1>11 DEF IInv

LEMMA ArmedType == ASSUME NEW s PROVE Armed(s) \in BOOLEAN
  BY DEF Armed

LEMMA StartFinishStep == ASSUME IInv, StartFinish PROVE IInv'
<1>1. /\ chain # <<>> /\ chain[1][1] = "start" /\ pc["start"] = "finish"
      /\ SaveIfChanged(StartedStore, mem)
      /\ pc' = [pc EXCEPT !["start"] = "idle"] /\ chain' = Tail(chain)
      /\ skip' = {} /\ armed' = Armed(mem') /\ excused' = excused \union Aged(mem)
      /\ run' = run /\ shared' = shared /\ spent' = spent
  BY DEF StartFinish, HeadIs
<1>2. Kept(mem, StartedStore, now) /\ mem \in StoreType /\ now \in Nat
  BY StartedFacts, NowFact DEF IInv, Typed
<1>3. /\ mem' = StartedStore /\ now' = now /\ promised' \in [Jobs -> Nat]
      /\ disk' = StartedStore \/ disk' = disk
  BY <1>1, <1>2, SaveIfChangedFacts DEF IInv, Kept
<1>4. /\ pc'["start"] = "idle" /\ \A r \in Runners \ {"start"} : pc'[r] = pc[r]
      /\ pc' \in [Runners -> Waits \union {"idle", "runs", "run", "done"}]
  BY <1>1, ManualFacts DEF IInv, Typed
<1>5. Line(chain, pc)'
  <2>1. /\ Line(chain, pc) /\ chain # <<>> /\ chain[1][1] = "start"
        /\ "start" \in Runners => pc'["start"] \notin Waits
        /\ \A r \in Runners \ {"start"} : pc'[r] = pc[r]
    BY <1>1, <1>4 DEF IInv, Waits
  <2>2. Line(Tail(chain), pc')
    BY <2>1, TailLine
  <2> QED BY <1>1, <2>2
<1>6. Typed'
  BY <1>1, <1>2, <1>3, <1>4, ArmedType DEF IInv, Typed, Kept, Aged
<1>7. \A r \in Runners, j \in Jobs : ~Held(r, j)
  BY <1>1, StartFacts
<1>8. Places'
  <2>1. At("start") /\ "start" \in Runners /\ "start" \notin Manuals
    BY ManualFacts DEF IInv, Places, Scheduled
  <2>2. At("start")'
    BY <1>1, <1>4, <1>7, <2>1 DEF At, Held
  <2> QED BY <1>1, <1>4, <2>2, PlacesKept DEF IInv
<1>9. Starting'
  BY <1>4 DEF Starting
<1>10. Safe'
  <2> SUFFICES ASSUME NEW j \in Jobs \ excused' PROVE SafeAt(j)'
    BY DEF Safe
  <2>1. mem.config[j] = disk.config[j]
    BY <1>1 DEF IInv, Safe, SafeAt
  <2>2. mem'.config[j] = disk'.config[j]
    BY <1>2, <1>3, <2>1 DEF Kept
  <2> QED BY <1>1, <1>7, <2>2 DEF SafeAt, Held
<1>11. SpentSafe'
  <2> SUFFICES ASSUME NEW j \in spent
               PROVE  Kind[j] = "at" /\ (j \notin excused' => SpentAt(j)')
    BY <1>1 DEF SpentSafe
  <2>1. j \in Jobs /\ Kind[j] = "at" /\ (j \notin excused => SpentAt(j))
    BY DEF IInv, Typed, SpentSafe
  <2> SUFFICES ASSUME j \notin excused' PROVE SpentAt(j)'
    BY <2>1
  <2>2. SpentAt(j) /\ ~IsStuck(mem.state[j], now)
    BY <1>1, <2>1 DEF Aged
  <2>3. Guarded(StartedStore, j)
    BY <1>2, <2>1, <2>2, KeptMeans DEF SpentAt
  <2> QED BY <1>1, <1>3, <2>2, <2>3 DEF SpentAt, Guarded
<1> QED BY <1>5, <1>6, <1>8, <1>9, <1>10, <1>11 DEF IInv

----------------------------------------------------------------------------
(* The timer.                                                                *)

(* A runner leaves the chain. *)
LEMMA LeaveChain ==
    ASSUME IInv, NEW w \in Runners \ {"start"}, chain # <<>>, chain[1][1] = w,
           chain' = Tail(chain),
           NEW at \in {"idle", "runs", "run", "done"}, pc' = [pc EXCEPT ![w] = at]
    PROVE  /\ Line(chain, pc)' /\ Starting' /\ pc["start"] = "idle"
           /\ pc'[w] = at /\ \A r \in Runners \ {w} : pc'[r] = pc[r]
           /\ pc' \in [Runners -> Waits \union {"idle", "runs", "run", "done"}]
<1>1. /\ pc'[w] = at /\ \A r \in Runners \ {w} : pc'[r] = pc[r]
      /\ pc' \in [Runners -> Waits \union {"idle", "runs", "run", "done"}]
  BY DEF IInv, Typed
<1>2. /\ Line(chain, pc) /\ chain # <<>> /\ chain[1][1] = w
      /\ w \in Runners => pc'[w] \notin Waits
      /\ \A r \in Runners \ {w} : pc'[r] = pc[r]
  BY <1>1 DEF IInv, Waits
<1>3. Line(Tail(chain), pc')
  <2> DEFINE q == pc'
  <2>1. /\ Line(chain, pc) /\ chain # <<>> /\ chain[1][1] = w
        /\ w \in Runners => q[w] \notin Waits
        /\ \A r \in Runners \ {w} : q[r] = pc[r]
    BY <1>2
  <2> HIDE DEF q
  <2>2. Line(Tail(chain), q)
    BY ONLY <2>1, TailLine
  <2> QED BY <2>2 DEF q
<1>4. pc["start"] = "idle" /\ "start" \in Runners
  BY AwakeFacts, ManualFacts
<1>5. Starting'
  BY <1>1, <1>4 DEF Starting
<1> QED BY <1>1, <1>3, <1>4, <1>5

LEMMA TickMarkStep == ASSUME IInv, TickMark PROVE IInv'
<1>1. /\ chain # <<>> /\ chain[1][1] = "tick" /\ pc["tick"] = "mark"
      /\ IF Due = {} THEN SaveIfChanged(TickStore, Loaded) ELSE Save(TickStore, {})
      /\ chain' = Tail(chain)
      /\ pc' = [pc EXCEPT !["tick"] = IF Due = {} THEN "idle" ELSE "runs"]
      /\ run' = [run EXCEPT !["tick"] = Taken(Due)]
      /\ shared' = Due /\ armed' = (Due # {} \/ Armed(mem'))
      /\ excused' = IF Due = {} THEN excused \union Aged(Loaded) ELSE excused
      /\ skip' = skip /\ spent' = spent
  BY DEF TickMark, HeadIs, Taken
<1>2. Loaded \in StoreType /\ now \in Nat /\ now # 0
  BY LoadedFacts, NowFact DEF IInv
<1>3. /\ Due # {} => TickStore = Marked(Loaded, Due)
      /\ Due = {} => Kept(Loaded, TickStore, now)
      /\ TickStore \in StoreType
      /\ TickStore.config = disk.config
  <2>1. Loaded.config = disk.config /\ Typed
    BY LoadedFacts DEF IInv
  <2>2. CASE Due = {}
    <3>1. TickStore = Maintenance(Loaded, now, TRUE, TRUE)
      BY <2>2 DEF TickStore
    <3>2. Kept(Loaded, TickStore, now)
      BY <1>2, <3>1, MaintenanceKeeps
    <3> QED BY <2>1, <2>2, <3>2 DEF Kept
  <2>3. CASE Due # {}
    <3>1. TickStore = Marked(Loaded, Due)
      BY <2>3 DEF TickStore
    <3> QED BY <1>2, <2>1, <2>3, <3>1, MarkedFacts
  <2> QED BY <2>2, <2>3
<1>4. /\ mem' = TickStore /\ now' = now /\ promised' \in [Jobs -> Nat]
      /\ disk' = TickStore \/ (disk' = disk /\ Due = {})
  BY <1>1, <1>3, SaveIfChangedFacts, SaveFacts DEF IInv
<1>5. /\ Line(chain, pc)' /\ Starting'
      /\ pc'["tick"] = IF Due = {} THEN "idle" ELSE "runs"
      /\ \A r \in Runners \ {"tick"} : pc'[r] = pc[r]
      /\ pc' \in [Runners -> Waits \union {"idle", "runs", "run", "done"}]
  <2>1. "tick" \in Runners \ {"start"}
    BY ManualFacts
  <2>2. (IF Due = {} THEN "idle" ELSE "runs") \in {"idle", "runs", "run", "done"}
    OBVIOUS
  <2> QED BY <1>1, <2>1, <2>2, LeaveChain
<1>6. /\ run' \in [Runners -> [Jobs -> RunType]]
      /\ \A r \in Runners \ {"tick"} : run'[r] = run[r]
      /\ \A j \in Jobs : run'["tick"][j].pc = IF j \in Due THEN "waiting" ELSE "none"
  BY <1>1, TakenFacts, ManualFacts DEF IInv, Typed
<1>7. Typed'
  <2>1. armed' \in BOOLEAN
    BY <1>1, ArmedType
  <2> QED BY <1>1, <1>3, <1>4, <1>5, <1>6, <2>1 DEF IInv, Typed, Aged, Due
<1>8. Places'
  <2>1. "tick" \in Runners /\ "tick" \notin Manuals /\ At("tick")
    BY ManualFacts DEF IInv, Places, Scheduled
  <2>2. At("tick")'
    BY <1>5, <1>6, <2>1 DEF At, Held
  <2> QED BY <1>5, <1>6, <2>2, PlacesKept DEF IInv
<1>9. \A j \in Due : j \in Jobs /\ Loaded.config[j] = "on" /\ Loaded.state[j].running = 0
  BY DEF Due, Runnable
<1>10. ASSUME NEW j \in Jobs, j \notin excused'
       PROVE  /\ j \notin excused
              /\ On(disk, j) => On(mem', j) /\ On(disk', j)
              /\ Guarded(disk, j) => Guarded(mem', j) /\ Guarded(disk', j)
  <2>1. CASE Due = {}
    <3>1. j \notin excused /\ ~IsStuck(Loaded.state[j], now)
      BY <1>1, <1>10, <2>1 DEF Aged
    <3>2. /\ On(Loaded, j) => On(TickStore, j)
          /\ Guarded(Loaded, j) => Guarded(TickStore, j)
      BY <1>2, <1>3, <2>1, <3>1, KeptMeans
    <3> QED BY <1>4, <3>1, <3>2, LoadedFacts DEF IInv
  <2>2. CASE Due # {}
    <3>1. /\ On(Loaded, j) => On(TickStore, j)
          /\ Guarded(Loaded, j) => Guarded(TickStore, j)
      BY <1>2, <1>3, <2>2, MarkedFacts DEF IInv
    <3> QED BY <1>1, <1>4, <1>10, <2>2, <3>1, LoadedFacts DEF IInv
  <2> QED BY <2>1, <2>2
<1>11. Safe'
  <2> SUFFICES ASSUME NEW j \in Jobs \ excused' PROVE SafeAt(j)'
    BY DEF Safe
  <2>1. SafeAt(j)
    BY <1>10 DEF IInv, Safe
  <2>2. mem'.config[j] = disk'.config[j]
    BY <1>3, <1>4
  <2>3. CASE j \in Due
    <3>1. disk' = mem' /\ On(mem', j)
      BY <1>2, <1>3, <1>4, <1>9, <2>3, MarkedFacts DEF IInv
    <3>2. ~On(disk, j)
      BY <1>9, <2>3, LoadedFacts DEF IInv, On
    <3>3. \A r \in Runners : Held(r, j)' => r = "tick"
      BY <1>6, <2>1, <3>2 DEF SafeAt, Held
    <3> QED BY <2>2, <3>1, <3>3 DEF SafeAt, On
  <2>4. CASE j \notin Due
    <3>1. \A r \in Runners : Held(r, j)' => Held(r, j)
      BY <1>6, <2>4 DEF Held
    <3>2. \A r \in Runners : Held(r, j) => On(mem, j)' /\ On(disk, j)'
      BY <1>10, <2>1 DEF SafeAt, On
    <3> QED BY <2>1, <2>2, <3>1, <3>2 DEF SafeAt
  <2> QED BY <2>3, <2>4
<1>12. SpentSafe'
  <2> SUFFICES ASSUME NEW j \in spent
               PROVE  Kind[j] = "at" /\ (j \notin excused' => SpentAt(j)')
    BY <1>1 DEF SpentSafe
  <2>1. j \in Jobs /\ Kind[j] = "at" /\ (j \notin excused => SpentAt(j))
    BY DEF IInv, Typed, SpentSafe
  <2> SUFFICES ASSUME j \notin excused' PROVE SpentAt(j)'
    BY <2>1
  <2>2. SpentAt(j)
    BY <1>10, <2>1
  <2>3. Guarded(mem', j) /\ Guarded(disk', j)
    BY <1>10, <2>1, <2>2 DEF SpentAt
  <2>4. j \notin Due
    BY <1>9, <2>2, LoadedFacts DEF IInv, SpentAt, Guarded
  <2>5. \A r \in Scheduled : run'[r][j].pc # "waiting"
    BY <1>6, <2>1, <2>2, <2>4 DEF SpentAt, Scheduled, Runners
  <2> QED BY <2>3, <2>5 DEF SpentAt, Guarded
<1> QED BY <1>5, <1>7, <1>8, <1>11, <1>12 DEF IInv

LEMMA TickApplyStep == ASSUME IInv, TickApply PROVE IInv'
<1> DEFINE a == ApplyAll(Loaded, "tick")
<1>1. /\ chain # <<>> /\ chain[1][1] = "tick" /\ pc["tick"] = "apply"
      /\ Save(TickedStore, {}) /\ chain' = Tail(chain)
      /\ pc' = [pc EXCEPT !["tick"] = "idle"] /\ run' = [run EXCEPT !["tick"] = Idle]
      /\ shared' = {} /\ armed' = Armed(mem') /\ skip' = skip
      /\ spent' = spent \ ToRetry("tick", Loaded) /\ excused' = excused \union Aged(a)
  BY DEF TickApply, HeadIs
<1>2. /\ Settled("tick", Loaded, a) /\ Kept(a, TickedStore, now) /\ now \in Nat
      /\ a \in StoreType
  BY TickedFacts, NowFact DEF IInv, Settled
<1>3. /\ mem' = TickedStore /\ disk' = TickedStore /\ now' = now
      /\ promised' \in [Jobs -> Nat]
  BY <1>1, <1>2, SaveFacts DEF IInv, Kept
<1>4. /\ Line(chain, pc)' /\ Starting'
      /\ pc'["tick"] = "idle" /\ \A r \in Runners \ {"tick"} : pc'[r] = pc[r]
      /\ pc' \in [Runners -> Waits \union {"idle", "runs", "run", "done"}]
  <2>1. "tick" \in Runners \ {"start"}
    BY ManualFacts
  <2> QED BY <1>1, <2>1, LeaveChain
<1>5. /\ run' \in [Runners -> [Jobs -> RunType]]
      /\ \A r \in Runners \ {"tick"} : run'[r] = run[r]
      /\ \A j \in Jobs : run'["tick"][j].pc = "none"
  BY <1>1, RunFacts, ManualFacts DEF IInv, Typed
<1> HIDE DEF a
<1>6. Typed'
  BY <1>1, <1>2, <1>3, <1>4, <1>5, ArmedType DEF IInv, Typed, Kept, Aged
<1>7. Places'
  <2>1. "tick" \in Runners /\ "tick" \notin Manuals /\ At("tick")
    BY ManualFacts DEF IInv, Places, Scheduled
  <2>2. At("tick")'
    BY <1>4, <1>5, <2>1 DEF At, Held
  <2> QED BY <1>4, <1>5, <2>2, PlacesKept DEF IInv
<1>8. Safe'
  <2> SUFFICES ASSUME NEW j \in Jobs \ excused' PROVE SafeAt(j)'
    BY DEF Safe
  <2>1. SafeAt(j) /\ ~IsStuck(a.state[j], now)
    BY <1>1 DEF IInv, Safe, Aged
  <2> SUFFICES ASSUME NEW r \in Runners \ {"tick"}, Held(r, j)
               PROVE  On(TickedStore, j)
    BY <1>3, <1>5, <2>1 DEF SafeAt, Held, On
  <2>2. j \notin Ended("tick")
    BY <2>1, ManualFacts DEF SafeAt, Held, Ended
  <2>3. On(Loaded, j)
    BY <2>1, LoadedFacts DEF SafeAt, IInv
  <2>4. On(a, j)
    BY <1>2, <2>2, <2>3 DEF Settled, On
  <2> QED BY <1>2, <2>1, <2>4, KeptMeans
<1>9. SpentSafe'
  <2> SUFFICES ASSUME NEW j \in spent \ ToRetry("tick", Loaded)
               PROVE  Kind[j] = "at" /\ (j \notin excused' => SpentAt(j)')
    BY <1>1 DEF SpentSafe
  <2>1. j \in Jobs /\ Kind[j] = "at" /\ (j \notin excused => SpentAt(j))
    BY DEF IInv, Typed, SpentSafe
  <2> SUFFICES ASSUME j \notin excused' PROVE SpentAt(j)'
    BY <2>1
  <2>2. SpentAt(j) /\ ~IsStuck(a.state[j], now)
    BY <1>1, <2>1 DEF Aged
  <2>3. Guarded(Loaded, j)
    BY <2>1, <2>2, LoadedFacts DEF SpentAt, IInv
  <2>4. Guarded(a, j)
    BY <1>2, <2>1, <2>3 DEF Settled, Guarded
  <2>5. Guarded(TickedStore, j)
    BY <1>2, <2>1, <2>2, <2>4, KeptMeans
  <2>6. \A r \in Scheduled : run'[r][j].pc # "waiting"
    BY <1>5, <2>1, <2>2 DEF SpentAt, Scheduled, Runners
  <2> QED BY <1>3, <2>5, <2>6 DEF SpentAt, Guarded
<1> QED BY <1>4, <1>6, <1>7, <1>8, <1>9 DEF IInv

----------------------------------------------------------------------------
(* The runs.                                                                 *)

LEMMA BeginStep == ASSUME IInv, NEW r \in Runners, NEW j \in Jobs, Begin(r, j) PROVE IInv'
<1> DEFINE taken == [run[r][j] EXCEPT !.pc = "executing", !.start = now]
           marked == [mem EXCEPT !.state[j].running = now]
           state == [mem.state[j] EXCEPT !.running = now]
<1>1. /\ run[r][j].pc = "waiting"
      /\ run' = [run EXCEPT ![r] = [run[r] EXCEPT ![j] = taken]]
      /\ mem' = marked \/ mem' = mem
      /\ promised' = [promised EXCEPT ![j] = 0]
      /\ spent' = IF Kind[j] = "at" THEN spent \union {j} ELSE spent
      /\ UNCHANGED <<now, disk, chain, pc, skip, shared, armed, excused>>
  BY DEF Begin, IInv, Typed, RunType
<1>2. mem \in StoreType /\ now \in Nat /\ now # 0 /\ run[r][j] \in RunType
  BY NowFact DEF IInv, Typed
<1>3. taken \in RunType /\ taken.pc = "executing"
  BY <1>2 DEF RunType
<1>4. state \in StateType /\ state.running = now
  BY <1>2 DEF StoreType, StateType
<1>5. marked = Replace(mem, j, mem.config[j], state)
  BY <1>2 DEF Replace, StoreType
<1> HIDE DEF taken, marked, state
<1>6. /\ mem' \in StoreType
      /\ \A i \in Jobs : /\ mem'.config[i] = mem.config[i]
                         /\ mem'.state[i].running = mem.state[i].running
                            \/ (i = j /\ mem'.state[i].running = now)
  <2>1. /\ marked \in StoreType
        /\ \A i \in Jobs : /\ marked.config[i] = mem.config[i]
                           /\ marked.state[i] = IF i = j THEN state ELSE mem.state[i]
    <3> DEFINE c == mem.config[j]
    <3>1. c \in {"on", "off", "none"}
      BY <1>2 DEF StoreType
    <3> HIDE DEF c
    <3>2. /\ Replace(mem, j, c, state) \in StoreType
          /\ \A i \in Jobs : /\ Replace(mem, j, c, state).config[i] = IF i = j THEN c ELSE mem.config[i]
                             /\ Replace(mem, j, c, state).state[i] = IF i = j THEN state ELSE mem.state[i]
      BY <1>2, <1>4, <3>1, ReplacedFacts
    <3> QED BY <1>5, <3>2 DEF c
  <2> QED BY <1>1, <1>2, <1>4, <2>1
<1>7. /\ run' \in [Runners -> [Jobs -> RunType]]
      /\ \A s \in Runners, i \in Jobs : s # r \/ i # j => run'[s][i] = run[s][i]
      /\ run'[r][j].pc = "executing"
  BY <1>1, <1>3 DEF IInv, Typed
<1>8. Typed'
  BY <1>1, <1>2, <1>6, <1>7 DEF IInv, Typed
<1>9. \A s \in Runners, i \in Jobs : Held(s, i)' <=> Held(s, i)
  BY <1>1, <1>7 DEF Held
<1>10. r \notin Manuals /\ At(r) /\ r \in Scheduled
  BY <1>1 DEF IInv, Places, At, Held, Runners
<1>11. Places'
  <2> SUFFICES ASSUME NEW s \in Runners PROVE At(s)'
    BY DEF Places
  <2>1. At(s)
    BY DEF IInv, Places
  <2>2. CASE s = r
    BY <1>1, <1>7, <1>9, <1>10, <2>1, <2>2 DEF At
  <2>3. CASE s # r
    <3>1. run'[s] = run[s] /\ pc' = pc
      BY <1>1, <2>3 DEF IInv, Typed
    <3> QED BY <2>1, <3>1 DEF At, Held
  <2> QED BY <2>2, <2>3
<1>12. Line(chain, pc)' /\ Starting'
  BY <1>1 DEF IInv, Starting
<1>13. \A i \in Jobs : /\ On(mem, i) => On(mem', i)
                       /\ Guarded(mem, i) => Guarded(mem', i)
  BY <1>2, <1>6 DEF On, Guarded
<1>14. Safe'
  BY <1>1, <1>6, <1>9, <1>13 DEF IInv, Safe, SafeAt, On
<1>15. SpentSafe'
  <2> SUFFICES ASSUME NEW i \in spent'
               PROVE  Kind[i] = "at" /\ (i \notin excused => SpentAt(i)')
    BY <1>1 DEF SpentSafe
  <2>1. CASE i \in spent
    <3>1. i \in Jobs /\ Kind[i] = "at" /\ (i \notin excused => SpentAt(i))
      BY <2>1 DEF IInv, Typed, SpentSafe
    <3>2. \A s \in Scheduled : run[s][i].pc # "waiting" => run'[s][i].pc # "waiting"
      BY <1>7, <3>1 DEF Runners
    <3> QED BY <1>1, <1>13, <3>1, <3>2 DEF SpentAt, Guarded
  <2>2. CASE i = j /\ Kind[j] = "at"
    <3> SUFFICES ASSUME j \notin excused PROVE SpentAt(j)'
      BY <2>2
    <3>1. SafeAt(j) /\ Held(r, j)
      BY <1>1 DEF IInv, Safe, Held
    <3>2. On(mem', j) /\ On(disk, j)
      BY <1>13, <3>1 DEF SafeAt
    <3>3. \A s \in Scheduled : run'[s][j].pc # "waiting"
      <4> SUFFICES ASSUME NEW s \in Scheduled PROVE run'[s][j].pc # "waiting"
        OBVIOUS
      <4>1. CASE s = r
        BY <1>7, <4>1
      <4>2. CASE s # r
        BY <1>7, <3>1, <4>2 DEF SafeAt, Held, Runners
      <4> QED BY <4>1, <4>2
    <3> QED BY <1>1, <3>2, <3>3 DEF SpentAt, On, Guarded
  <2> QED BY <1>1, <2>1, <2>2
<1> QED BY <1>8, <1>11, <1>12, <1>14, <1>15 DEF IInv

LEMMA EndStep ==
    ASSUME IInv, NEW r \in Runners, NEW j \in Jobs, NEW status \in Outcomes(j), End(r, j, status)
    PROVE  IInv'
<1> DEFINE last == \A i \in Jobs \ {j} : run[r][i].pc \in {"none", "ended"}
           taken == [run[r][j] EXCEPT !.pc = "ended", !.status = status, !.end = now]
           next == IF r \in Manuals THEN "finish" ELSE "apply"
<1>1. /\ run[r][j].pc = "executing"
      /\ run' = [run EXCEPT ![r] = [run[r] EXCEPT ![j] = taken]]
      /\ chain' = IF last THEN Append(chain, <<r, "-">>) ELSE chain
      /\ pc' = IF ~last THEN pc ELSE [pc EXCEPT ![r] = next]
      /\ UNCHANGED <<now, mem, disk, skip, shared, armed, promised, spent, excused>>
  BY DEF End, IInv, Typed, RunType
<1>2. taken \in RunType /\ taken.pc = "ended"
  <2>1. status \in {"ok", "transient", "permanent"}
    BY DEF Outcomes
  <2>2. run[r][j] \in RunType /\ now \in Nat
    BY NowFact DEF IInv, Typed
  <2> QED BY <2>1, <2>2 DEF RunType
<1> HIDE DEF taken
<1>3. /\ run' \in [Runners -> [Jobs -> RunType]]
      /\ \A s \in Runners, i \in Jobs : s # r \/ i # j => run'[s][i] = run[s][i]
      /\ run'[r][j].pc = "ended"
  BY <1>1, <1>2 DEF IInv, Typed
<1>4. /\ pc[r] \in {"runs", "run"} /\ pc[r] \notin Waits /\ Held(r, j)
      /\ r \in Manuals => pc[r] = "run" /\ j = ManualJob[r]
      /\ r \notin Manuals => pc[r] = "runs" /\ r \in Scheduled
  <2>1. At(r)
    BY DEF IInv, Places
  <2>2. pc[r] \in {"runs", "run"} /\ Held(r, j)
    BY <1>1, <2>1 DEF At, Held
  <2>3. r \in Manuals \/ (r \in Scheduled /\ r \notin Manuals)
    BY ManualFacts DEF Runners
  <2> QED BY <2>1, <2>2, <2>3 DEF At, Waits
<1>5. /\ pc' \in [Runners -> Waits \union {"idle", "runs", "run", "done"}]
      /\ pc'[r] = IF last THEN next ELSE pc[r]
      /\ \A s \in Runners \ {r} : pc'[s] = pc[s]
      /\ next \in Waits
  BY <1>1 DEF IInv, Typed, Waits
<1>6. Typed'
  BY <1>1, <1>3, <1>5 DEF IInv, Typed
<1>7. Line(chain, pc)'
  <2>1. CASE last
    <3> DEFINE q == pc'
    <3>1. /\ Line(chain, pc) /\ pc[r] \notin Waits /\ q[r] \in Waits
          /\ \A s \in Runners \ {r} : q[s] = pc[s]
      BY <1>4, <1>5, <2>1 DEF IInv
    <3> HIDE DEF q
    <3>2. Line(Append(chain, <<r, "-">>), q)
      BY ONLY <3>1, r \in Runners, AppendLine
    <3> QED BY <1>1, <2>1, <3>2 DEF q
  <2>2. CASE ~last
    BY <1>1, <2>2 DEF IInv
  <2> QED BY <2>1, <2>2
<1>8. \A s \in Runners, i \in Jobs : Held(s, i)' <=> Held(s, i)
  BY <1>1, <1>3 DEF Held
<1>9. Places'
  <2>1. At(r)
    BY DEF IInv, Places
  <2>2. At(r)'
    <3>1. CASE last
      <4>1. \A i \in Jobs : run'[r][i].pc \notin {"waiting", "executing"}
        BY <1>3, <3>1
      <4>2. pc'[r] = next
        BY <1>5, <3>1
      <4>3. CASE r \in Manuals
        <5>1. pc'[r] = "finish" /\ r # "start" /\ r # "tick" /\ r \notin Scheduled
          BY <4>2, <4>3, ManualFacts DEF Scheduled
        <5>2. \A i \in Jobs : Held(r, i)' => i = ManualJob[r]
          BY <1>8, <2>1, <4>3 DEF At
        <5>3. Held(r, ManualJob[r])'
          BY <1>4, <1>8, <4>3, ManualFacts
        <5> QED BY <4>1, <5>1, <5>2, <5>3 DEF At
      <4>4. CASE r \notin Manuals
        BY <4>1, <4>2, <4>4 DEF At
      <4> QED BY <4>3, <4>4
    <3>2. CASE ~last
      <4>1. pc'[r] = pc[r]
        BY <1>5, <3>2
      <4>2. \A i \in Jobs : run'[r][i] = run[r][i] \/ run'[r][i].pc = "ended"
        BY <1>3
      <4>3. \A i \in Jobs : ManualJob[r] = i => run'[r][i].start = run[r][i].start \/ pc[r] # "reserve"
        BY <1>4
      <4>4. r \in Manuals => pc'[r] # "reserve"
        BY <1>4, <4>1
      <4> QED BY <1>8, <2>1, <4>1, <4>2, <4>4, ManualFacts DEF At
    <3> QED BY <3>1, <3>2
  <2>3. \A s \in Runners \ {r} : pc'[s] = pc[s] /\ run'[s] = run[s]
    BY <1>1, <1>5 DEF IInv, Typed
  <2> QED BY <2>2, <2>3, PlacesKept DEF IInv
<1>10. Starting'
  <2> SUFFICES ASSUME pc'["start"] # "idle"
               PROVE  /\ ~armed'
                      /\ \A s \in Runners \ {"start"} : pc'[s] \in {"idle", "done"}
                      /\ \A i \in 1..Len(chain') : chain'[i][1] = "start"
    BY DEF Starting
  <2>1. pc["start"] # "idle"
    BY <1>4, <1>5, ManualFacts
  <2>2. r = "start"
    BY <1>4, <2>1 DEF IInv, Starting
  <2>3. \A i \in 1..Len(chain') : chain'[i][1] = "start"
    <3>1. CASE last
      <4>1. chain \in Seq(Entry) /\ chain' = Append(chain, <<"start", "-">>)
        BY <1>1, <2>2, <3>1 DEF IInv, Line
      <4>2. \A i \in 1..Len(chain) : chain[i][1] = "start"
        BY <2>1 DEF IInv, Starting
      <4>3. /\ \A i \in 1..Len(chain') : i \in 1..Len(chain) \/ i = Len(chain) + 1
            /\ \A i \in 1..Len(chain) : chain'[i] = chain[i]
            /\ chain'[Len(chain) + 1] = <<"start", "-">>
        BY <4>1
      <4> QED BY <4>2, <4>3
    <3>2. CASE ~last
      BY <1>1, <2>1, <3>2 DEF IInv, Starting
    <3> QED BY <3>1, <3>2
  <2> QED BY <1>1, <1>5, <2>1, <2>2, <2>3 DEF IInv, Starting
<1>11. Safe'
  BY <1>1, <1>8 DEF IInv, Safe, SafeAt, On
<1>12. SpentSafe'
  <2>1. \A s \in Runners, i \in Jobs : run[s][i].pc # "waiting" => run'[s][i].pc # "waiting"
    BY <1>3
  <2>2. spent \subseteq Jobs /\ Scheduled \subseteq Runners
    BY DEF IInv, Typed, Runners
  <2> QED BY <1>1, <2>1, <2>2 DEF IInv, SpentSafe, SpentAt, Guarded
<1> QED BY <1>6, <1>7, <1>9, <1>10, <1>11, <1>12 DEF IInv

----------------------------------------------------------------------------
(* The manual runs.                                                          *)

(* A manual run queues its second section. *)
LEMMA ManualQueues ==
    ASSUME IInv, NEW m \in Manuals, chain # <<>>, chain[1][1] = m, Queue(m),
           pc' = [pc EXCEPT ![m] = "reserve"]
    PROVE  /\ Line(chain, pc)' /\ Starting' /\ pc["start"] = "idle"
           /\ pc'[m] = "reserve" /\ \A r \in Runners \ {m} : pc'[r] = pc[r]
           /\ pc' \in [Runners -> Waits \union {"idle", "runs", "run", "done"}]
<1>1. /\ pc'[m] = "reserve" /\ \A r \in Runners \ {m} : pc'[r] = pc[r]
      /\ pc' \in [Runners -> Waits \union {"idle", "runs", "run", "done"}]
  BY ManualFacts DEF IInv, Typed, Waits
<1>2. m \in Runners /\ m # "start" /\ "start" \in Runners
  BY ManualFacts DEF Scheduled
<1>3. Line(chain, pc)'
  <2> DEFINE q == pc'
  <2>1. /\ Line(chain, pc) /\ chain # <<>> /\ chain[1][1] = m /\ q[m] \in Waits
        /\ \A r \in Runners \ {m} : q[r] = pc[r]
    BY <1>1 DEF IInv, Waits
  <2> HIDE DEF q
  <2>2. Line(Append(Tail(chain), <<m, "-">>), q)
    BY ONLY <1>2, <2>1, QueueLine
  <2> QED BY <2>2 DEF q, Queue
<1>4. pc["start"] = "idle"
  BY <1>2, AwakeFacts
<1>5. Starting'
  BY <1>1, <1>2, <1>4 DEF Starting
<1> QED BY <1>1, <1>3, <1>4, <1>5

LEMMA PreflightStep == ASSUME IInv, NEW m \in Manuals, Preflight(m) PROVE IInv'
<1> DEFINE j == ManualJob[m]
           s == Maintenance(mem, now, FALSE, TRUE)
           begins == /\ s.config[j] # "none" /\ s.state[j].running = 0
                     /\ m \in Forced \/ Runnable(s, j, now)
<1>1. /\ chain # <<>> /\ chain[1][1] = m /\ pc[m] = "preflight"
      /\ Leave(s, {}) /\ disk' = disk
      /\ IF begins
         THEN /\ pc' = [pc EXCEPT ![m] = "reserve"] /\ Queue(m)
              /\ run' = [run EXCEPT ![m][j].start = now]
         ELSE pc' = [pc EXCEPT ![m] = "done"] /\ chain' = Tail(chain) /\ run' = run
      /\ excused' = excused \union Aged(mem)
      /\ skip' = skip /\ shared' = shared /\ armed' = armed /\ spent' = spent
  BY DEF Preflight, HeadIs
<1> HIDE DEF begins
<1>2. Kept(mem, s, now) /\ mem \in StoreType /\ now \in Nat /\ now # 0
  BY MaintenanceKeeps, NowFact DEF IInv, Typed
<1> HIDE DEF s
<1>3. mem' = s /\ now' = now /\ promised' \in [Jobs -> Nat]
  BY <1>1, <1>2, LeaveFacts DEF IInv, Kept
<1>4. j \in Jobs /\ m \in Runners /\ m \notin Scheduled /\ m # "start" /\ m # "tick"
  BY ManualFacts DEF Scheduled
<1> HIDE DEF j
<1>5. /\ Line(chain, pc)' /\ Starting'
      /\ pc'[m] = IF begins THEN "reserve" ELSE "done"
      /\ \A r \in Runners \ {m} : pc'[r] = pc[r]
      /\ pc' \in [Runners -> Waits \union {"idle", "runs", "run", "done"}]
  <2>1. CASE begins
    BY <1>1, <2>1, ManualQueues
  <2>2. CASE ~begins
    <3>1. m \in Runners \ {"start"} /\ "done" \in {"idle", "runs", "run", "done"}
      BY <1>4
    <3> QED BY <1>1, <2>2, <3>1, LeaveChain
  <2> QED BY <2>1, <2>2
<1>6. /\ run' \in [Runners -> [Jobs -> RunType]]
      /\ \A r \in Runners, i \in Jobs : run'[r][i].pc = run[r][i].pc
      /\ \A r \in Runners \ {m} : run'[r] = run[r]
      /\ begins => run'[m][j].start = now
  <2>1. CASE begins
    <3> DEFINE taken == [run[m][j] EXCEPT !.start = now]
    <3>1. run' = [run EXCEPT ![m] = [run[m] EXCEPT ![j] = taken]]
      BY <1>1, <2>1, <1>4 DEF IInv, Typed
    <3>2. taken \in RunType /\ taken.pc = run[m][j].pc /\ taken.start = now
      <4>1. run[m][j] \in RunType
        BY <1>4 DEF IInv, Typed
      <4> QED BY <1>2, <4>1 DEF RunType
    <3> HIDE DEF taken
    <3> QED BY <1>4, <3>1, <3>2 DEF IInv, Typed
  <2>2. CASE ~begins
    BY <1>1, <2>2 DEF IInv, Typed
  <2> QED BY <2>1, <2>2
<1>7. Typed'
  BY <1>1, <1>2, <1>3, <1>5, <1>6 DEF IInv, Typed, Kept, Aged
<1>8. Places'
  <2>1. At(m)
    BY <1>4 DEF IInv, Places
  <2>2. \A i \in Jobs : ~Held(m, i)
    BY <1>1, <2>1 DEF At
  <2>3. \A i \in Jobs : ~Held(m, i)' /\ run'[m][i].pc = "none"
    BY <1>4, <1>6, <2>2 DEF Held
  <2>4. At(m)'
    BY <1>2, <1>4, <1>5, <1>6, <2>3 DEF At, j
  <2> QED BY <1>5, <1>6, <2>4, PlacesKept DEF IInv
<1>9. ASSUME NEW i \in Jobs, i \notin excused'
      PROVE  /\ i \notin excused
             /\ On(mem, i) => On(mem', i)
             /\ Guarded(mem, i) => Guarded(mem', i)
  BY <1>1, <1>2, <1>3, <1>9, KeptMeans DEF Aged
<1>10. Safe'
  <2> SUFFICES ASSUME NEW i \in Jobs \ excused' PROVE SafeAt(i)'
    BY DEF Safe
  <2>1. SafeAt(i)
    BY <1>9 DEF IInv, Safe
  <2>2. mem'.config[i] = disk'.config[i]
    BY <1>1, <1>2, <1>3, <2>1 DEF SafeAt, Kept
  <2> QED BY <1>1, <1>6, <1>9, <2>1, <2>2 DEF SafeAt, Held, On
<1>11. SpentSafe'
  <2>1. spent \subseteq Jobs /\ Scheduled \subseteq Runners
    BY DEF IInv, Typed, Runners
  <2> QED BY <1>1, <1>6, <1>9, <2>1 DEF IInv, SpentSafe, SpentAt, Guarded
<1> QED BY <1>5, <1>7, <1>8, <1>10, <1>11 DEF IInv

LEMMA ReserveStep == ASSUME IInv, NEW m \in Manuals, Reserve(m) PROVE IInv'
<1> DEFINE j == ManualJob[m]
           taken == Unavailable(m)
<1>1. /\ chain # <<>> /\ chain[1][1] = m /\ pc[m] = "reserve"
      /\ chain' = Tail(chain)
      /\ IF taken
         THEN /\ Leave(mem, {}) /\ disk' = disk /\ spent' = spent
              /\ pc' = [pc EXCEPT ![m] = "done"] /\ run' = [run EXCEPT ![m] = Idle]
              /\ excused' = excused
         ELSE /\ Save(ReservedStore(m), {j})
              /\ pc' = [pc EXCEPT ![m] = "run"]
              /\ run' = [run EXCEPT ![m][j].pc = "executing"]
              /\ spent' = IF Kind[j] = "at" THEN spent \union {j} ELSE spent
              /\ excused' = IF mem.config[j] = "off" THEN excused \union {j} ELSE excused
      /\ skip' = skip /\ shared' = shared /\ armed' = armed
  BY DEF Reserve, HeadIs
<1>2. /\ ReservedStore(m) \in StoreType
      /\ ReservedStore(m).config = mem.config
      /\ \A i \in Jobs : ReservedStore(m).state[i].running =
                    IF i = j THEN run[m][j].start ELSE mem.state[i].running
  BY ReservedFacts DEF IInv
<1>3. j \in Jobs /\ m \in Runners /\ m \notin Scheduled /\ m # "start" /\ m # "tick"
  BY ManualFacts DEF Scheduled
<1>4. /\ At(m) /\ run[m][j].start # 0 /\ run[m][j] \in RunType
      /\ \A i \in Jobs : ~Held(m, i) /\ run[m][i].pc = "none"
  <2>1. At(m) /\ run[m][j] \in RunType
    BY <1>3 DEF IInv, Typed, Places
  <2>2. run[m][j].start # 0 /\ \A i \in Jobs : ~Held(m, i)
    BY <1>1, <2>1 DEF At
  <2> QED BY <2>1, <2>2 DEF Held
<1> HIDE DEF j
<1>5. /\ Line(chain, pc)' /\ Starting'
      /\ pc'[m] = IF taken THEN "done" ELSE "run"
      /\ \A r \in Runners \ {m} : pc'[r] = pc[r]
      /\ pc' \in [Runners -> Waits \union {"idle", "runs", "run", "done"}]
  <2>1. /\ m \in Runners \ {"start"}
        /\ (IF taken THEN "done" ELSE "run") \in {"idle", "runs", "run", "done"}
        /\ pc' = [pc EXCEPT ![m] = IF taken THEN "done" ELSE "run"]
    BY <1>1, <1>3
  <2> HIDE DEF taken
  <2> QED BY <1>1, <2>1, LeaveChain
<1>6. CASE taken
  <2>1. mem' = mem /\ now' = now /\ promised' \in [Jobs -> Nat]
    BY <1>1, <1>6, LeaveFacts DEF IInv, Typed
  <2>2. run' = [run EXCEPT ![m] = Idle] /\ disk' = disk /\ spent' = spent /\ excused' = excused
    BY <1>1, <1>6
  <2>3. /\ run' \in [Runners -> [Jobs -> RunType]]
        /\ \A r \in Runners \ {m} : run'[r] = run[r]
        /\ \A r \in Runners, i \in Jobs : run'[r][i].pc = run[r][i].pc
    BY <1>3, <1>4, <2>2, RunFacts DEF IInv, Typed
  <2>4. Typed'
    BY <1>1, <1>5, <2>1, <2>2, <2>3 DEF IInv, Typed
  <2>5. Places'
    <3>1. At(m)'
      BY <1>3, <1>4, <1>5, <1>6, <2>3 DEF At, Held
    <3> QED BY <1>5, <2>3, <3>1, PlacesKept DEF IInv
  <2>6. Safe'
    BY <2>1, <2>2, <2>3 DEF IInv, Safe, SafeAt, Held, On
  <2>7. SpentSafe'
    <3>1. spent \subseteq Jobs /\ Scheduled \subseteq Runners
      BY DEF IInv, Typed, Runners
    <3> QED BY <2>1, <2>2, <2>3, <3>1 DEF IInv, SpentSafe, SpentAt, Guarded
  <2> QED BY <1>5, <2>4, <2>5, <2>6, <2>7 DEF IInv
<1>7. CASE ~taken
  <2>1. /\ mem' = ReservedStore(m) /\ disk' = mem' /\ now' = now
        /\ promised' \in [Jobs -> Nat]
    BY <1>1, <1>2, <1>7, SaveFacts DEF IInv
  <2>2. /\ run' \in [Runners -> [Jobs -> RunType]]
        /\ \A r \in Runners \ {m} : run'[r] = run[r]
        /\ \A i \in Jobs : run'[m][i].pc = IF i = j THEN "executing" ELSE "none"
    <3> DEFINE begun == [run[m][j] EXCEPT !.pc = "executing"]
    <3>1. run' = [run EXCEPT ![m] = [run[m] EXCEPT ![j] = begun]]
      BY <1>1, <1>3, <1>7 DEF IInv, Typed
    <3>2. begun \in RunType /\ begun.pc = "executing"
      BY <1>4 DEF RunType
    <3> HIDE DEF begun
    <3> QED BY <1>3, <1>4, <3>1, <3>2 DEF IInv, Typed
  <2>3. /\ spent' = IF Kind[j] = "at" THEN spent \union {j} ELSE spent
        /\ excused' = IF mem.config[j] = "off" THEN excused \union {j} ELSE excused
    BY <1>1, <1>7
  <2>4. Typed'
    BY <1>1, <1>2, <1>3, <1>5, <2>1, <2>2, <2>3 DEF IInv, Typed
  <2>5. Places'
    <3>1. At(m)'
      BY <1>3, <1>5, <1>7, <2>2 DEF At, Held, j
    <3> QED BY <1>5, <2>2, <3>1, PlacesKept DEF IInv
  <2>6. mem.state[j].running = 0 /\ ~On(mem, j)
    BY <1>7 DEF On, Unavailable, j
  <2>7. j \notin excused' => On(mem', j)
    <3>1. mem.config[j] \in {"on", "off", "none"}
      BY <1>3 DEF IInv, Typed, StoreType
    <3>2. j \notin excused' => mem.config[j] = "on"
      BY <1>7, <2>3, <3>1 DEF Unavailable, j
    <3> QED BY <1>2, <1>3, <1>4, <2>1, <3>2 DEF On
  <2>8. \A i \in Jobs \ {j} :
            /\ On(mem, i) => On(mem', i)
            /\ Guarded(mem, i) => Guarded(mem', i)
    BY <1>2, <2>1 DEF On, Guarded
  <2>9. Safe'
    <3> SUFFICES ASSUME NEW i \in Jobs \ excused' PROVE SafeAt(i)'
      BY DEF Safe
    <3>1. SafeAt(i)
      BY <2>3 DEF IInv, Safe
    <3>2. CASE i = j
      <4>1. \A r \in Runners : Held(r, j)' => r = m
        BY <1>3, <2>2, <2>6, <3>1, <3>2 DEF SafeAt, Held
      <4> QED BY <2>1, <2>7, <3>2, <4>1 DEF SafeAt, On
    <3>3. CASE i # j
      <4>1. \A r \in Runners : Held(r, i)' => Held(r, i)
        BY <2>2, <3>3 DEF Held
      <4>2. \A r \in Runners : Held(r, i) => On(mem', i)
        <5>1. i \in Jobs \ {j}
          BY <3>3
        <5>2. On(mem, i) => On(mem', i)
          BY <2>8, <5>1
        <5> QED BY <3>1, <5>2 DEF SafeAt
      <4> QED BY <2>1, <3>1, <4>1, <4>2 DEF SafeAt, On
    <3> QED BY <3>2, <3>3
  <2>10. SpentSafe'
    <3> SUFFICES ASSUME NEW i \in spent'
                 PROVE  Kind[i] = "at" /\ (i \notin excused' => SpentAt(i)')
      BY DEF SpentSafe
    <3>1. CASE i = j
      <4>1. Kind[j] = "at"
        BY <2>3, <3>1 DEF IInv, SpentSafe
      <4> SUFFICES ASSUME j \notin excused' PROVE SpentAt(j)'
        BY <3>1, <4>1
      <4>2. SafeAt(j)
        BY <1>3, <2>3 DEF IInv, Safe
      <4>3. \A r \in Runners \ {m} : ~Held(r, j)'
        BY <2>2, <2>6, <4>2 DEF SafeAt, Held
      <4>4. \A r \in Scheduled : run'[r][j].pc # "waiting"
        BY <1>3, <4>3 DEF Held, Runners
      <4> QED BY <2>1, <2>7, <4>4 DEF SpentAt, On, Guarded
    <3>2. CASE i # j
      <4>1. i \in spent /\ i \in Jobs
        BY <2>3, <3>2 DEF IInv, Typed
      <4>2. Kind[i] = "at" /\ (i \notin excused' => SpentAt(i))
        BY <2>3, <4>1 DEF IInv, SpentSafe
      <4>3. \A r \in Scheduled : run[r][i].pc # "waiting" => run'[r][i].pc # "waiting"
        BY <1>3, <2>2 DEF Runners
      <4> SUFFICES ASSUME i \notin excused' PROVE SpentAt(i)'
        BY <4>2
      <4>4. i \in Jobs \ {j} /\ SpentAt(i)
        BY <3>2, <4>1, <4>2
      <4>5. Guarded(mem', i)
        BY <2>8, <4>4 DEF SpentAt
      <4> QED BY <2>1, <4>3, <4>4, <4>5 DEF SpentAt, Guarded
    <3> QED BY <3>1, <3>2
  <2> QED BY <1>5, <2>4, <2>5, <2>9, <2>10 DEF IInv
<1> QED BY <1>6, <1>7

LEMMA FinishStep == ASSUME IInv, NEW m \in Manuals, Finish(m) PROVE IInv'
<1> DEFINE j == ManualJob[m]
           gone == mem.config[j] = "none"
<1>1. /\ chain # <<>> /\ chain[1][1] = m /\ pc[m] = "finish"
      /\ chain' = Tail(chain) /\ pc' = [pc EXCEPT ![m] = "done"]
      /\ run' = [run EXCEPT ![m] = Idle]
      /\ spent' = spent \ ToRetry(m, mem) /\ skip' = skip
      /\ IF gone
         THEN /\ Leave(mem, {}) /\ disk' = disk
              /\ shared' = shared /\ armed' = armed /\ excused' = excused
         ELSE /\ Save(FinishedStore(m), {}) /\ shared' = {}
              /\ armed' = Armed(mem') /\ excused' = excused \union Aged(Loaded)
  BY DEF Finish, HeadIs
<1>2. j \in Jobs /\ m \in Runners /\ m \notin Scheduled /\ m # "start" /\ m # "tick"
  BY ManualFacts DEF Scheduled
<1>3. Held(m, j) /\ j \in Ended(m)
  <2>1. At(m) /\ run[m][j] \in RunType
    BY <1>2 DEF IInv, Places, Typed
  <2>2. Held(m, j) /\ run[m][j].pc \notin {"waiting", "executing"}
    BY <1>1, <1>2, <2>1 DEF At
  <2> QED BY <1>2, <2>1, <2>2 DEF Held, Ended, RunType
<1>4. PICK w : Merged(m, w) /\ Kept(w, FinishedStore(m), now)
  BY FinishedFacts DEF IInv
<1>5. w \in StoreType /\ FinishedStore(m) \in StoreType /\ mem \in StoreType /\ now \in Nat
  BY <1>4, NowFact DEF Merged, Kept, IInv, Typed
<1>6. \A i \in Jobs \ {j} : w.config[i] = disk.config[i] /\ w.state[i] = Loaded.state[i]
  BY <1>4 DEF Merged
<1>7. Kind[j] = "at" /\ j \notin ToRetry(m, mem) => w.config[j] # "on"
  BY <1>3, <1>4 DEF Merged
<1> HIDE DEF j, gone
<1>8. /\ Line(chain, pc)' /\ Starting'
      /\ pc'[m] = "done" /\ \A r \in Runners \ {m} : pc'[r] = pc[r]
      /\ pc' \in [Runners -> Waits \union {"idle", "runs", "run", "done"}]
  <2>1. m \in Runners \ {"start"} /\ "done" \in {"idle", "runs", "run", "done"}
    BY <1>2
  <2> QED BY <1>1, <2>1, LeaveChain
<1>9. /\ run' \in [Runners -> [Jobs -> RunType]]
      /\ \A r \in Runners \ {m} : run'[r] = run[r]
      /\ \A i \in Jobs : run'[m][i].pc = "none"
  BY <1>1, <1>2, RunFacts DEF IInv, Typed
<1>10. Places'
  <2>1. At(m)'
    BY <1>2, <1>8, <1>9 DEF At, Held
  <2> QED BY <1>8, <1>9, <2>1, PlacesKept DEF IInv
<1>11. \A r \in Runners, i \in Jobs : Held(r, i)' => r # m /\ Held(r, i)
  BY <1>9 DEF Held
<1>12. spent' \subseteq Jobs /\ Scheduled \subseteq Runners
  BY <1>1 DEF IInv, Typed, Runners
<1>13. \A r \in Scheduled : run'[r] = run[r]
  BY <1>2, <1>9, <1>12
<1>14. CASE gone
  <2>1. mem' = mem /\ now' = now /\ promised' \in [Jobs -> Nat] /\ disk' = disk /\ excused' = excused
    BY <1>1, <1>5, <1>14, LeaveFacts DEF IInv
  <2>2. Typed'
    BY <1>1, <1>8, <1>9, <1>14, <2>1 DEF IInv, Typed
  <2>3. Safe'
    BY <1>11, <2>1 DEF IInv, Safe, SafeAt, On
  <2>4. SpentSafe'
    BY <1>1, <1>13, <2>1 DEF IInv, SpentSafe, SpentAt, Guarded
  <2> QED BY <1>8, <1>10, <2>2, <2>3, <2>4 DEF IInv
<1>15. CASE ~gone
  <2>1. /\ mem' = FinishedStore(m) /\ disk' = mem' /\ now' = now
        /\ promised' \in [Jobs -> Nat]
        /\ excused' = excused \union Aged(Loaded) /\ shared' = {} /\ armed' = Armed(mem')
    BY <1>1, <1>5, <1>15, SaveFacts DEF IInv
  <2>2. Typed'
    BY <1>1, <1>5, <1>8, <1>9, <2>1, ArmedType DEF IInv, Typed, Aged
  <2>3. ASSUME NEW i \in Jobs \ {j}, i \notin excused'
        PROVE  /\ On(disk, i) => On(mem', i)
               /\ Guarded(disk, i) => Guarded(mem', i)
    <3>1. ~IsStuck(w.state[i], now)
      BY <1>6, <2>1, <2>3 DEF Aged
    <3>2. /\ On(w, i) => On(mem', i)
          /\ Guarded(w, i) => Guarded(mem', i)
      BY <1>4, <1>5, <2>1, <3>1, KeptMeans
    <3>3. /\ On(disk, i) => On(w, i)
          /\ Guarded(disk, i) => Guarded(w, i)
      BY <1>6, LoadedFacts DEF IInv, On, Guarded
    <3> QED BY <3>2, <3>3
  <2>4. Safe'
    <3> SUFFICES ASSUME NEW i \in Jobs \ excused' PROVE SafeAt(i)'
      BY DEF Safe
    <3>1. SafeAt(i)
      BY <2>1 DEF IInv, Safe
    <3>2. \A r \in Runners : Held(r, i)' => i # j
      BY <1>2, <1>3, <1>11, <3>1 DEF SafeAt
    <3>3. \A r \in Runners : Held(r, i)' => On(mem', i)
      BY <1>11, <2>3, <3>1, <3>2 DEF SafeAt
    <3> QED BY <1>11, <2>1, <3>1, <3>3 DEF SafeAt, On
  <2>5. SpentSafe'
    <3> SUFFICES ASSUME NEW i \in spent'
                 PROVE  Kind[i] = "at" /\ (i \notin excused' => SpentAt(i)')
      BY DEF SpentSafe
    <3>1. /\ i \in Jobs /\ Kind[i] = "at" /\ (i \notin excused => SpentAt(i))
          /\ i \notin ToRetry(m, mem)
      BY <1>1, <1>12 DEF IInv, SpentSafe
    <3> SUFFICES ASSUME i \notin excused' PROVE SpentAt(i)'
      BY <3>1
    <3>2. SpentAt(i)
      BY <2>1, <3>1
    <3>3. Guarded(mem', i)
      <4>1. CASE i = j
        <5>1. FinishedStore(m).config[j] # "on"
          BY <1>4, <1>7, <3>1, <4>1 DEF Kept
        <5> QED BY <2>1, <4>1, <5>1 DEF Guarded
      <4>2. CASE i # j
        <5>1. i \in Jobs \ {j}
          BY <3>1, <4>2
        <5> QED BY <2>3, <3>2, <5>1 DEF SpentAt
      <4> QED BY <4>1, <4>2
    <3> QED BY <1>13, <2>1, <3>2, <3>3 DEF SpentAt, Guarded
  <2> QED BY <1>8, <1>10, <2>2, <2>4, <2>5 DEF IInv
<1> QED BY <1>14, <1>15

----------------------------------------------------------------------------
(* The operations on jobs, and the failures.                                 *)

(* Whose section it is, and what it saves. *)
LEMMA HeadCases ==
    ASSUME IInv, chain # <<>>
    PROVE  \/ chain[1][1] = "start" /\ pc["start"] = "boot" /\ HeadStore = BootStore
           \/ chain[1][1] = "start" /\ pc["start"] = "plan" /\ HeadStore = Marked(mem, Candidates)
           \/ chain[1][1] = "start" /\ pc["start"] = "apply" /\ HeadStore = CaughtUpStore
           \/ chain[1][1] = "start" /\ pc["start"] = "finish" /\ HeadStore = StartedStore
           \/ chain[1][1] = "tick" /\ pc["tick"] = "mark" /\ HeadStore = TickStore
           \/ chain[1][1] = "tick" /\ pc["tick"] = "apply" /\ HeadStore = TickedStore
           \/ chain[1][1] \in Manuals /\ HeadIs(chain[1][1], "preflight")
           \/ /\ chain[1][1] \in Manuals /\ pc[chain[1][1]] = "reserve"
              /\ HeadStore = ReservedStore(chain[1][1])
           \/ /\ chain[1][1] \in Manuals /\ pc[chain[1][1]] = "finish"
              /\ HeadStore = FinishedStore(chain[1][1])
           \/ /\ chain[1][1] \in Operations /\ chain[1][2] \in Jobs
              /\ chain[1][1] \notin Runners
              /\ HeadStore = OpStore(chain[1][1], chain[1][2])
<1> DEFINE who == chain[1][1]
<1>1. 1 \in 1..Len(chain) /\ chain[1] \in Entry
  BY DEF IInv, Line
<1>2. \/ who \in Runners /\ pc[who] \in Waits /\ At(who)
      \/ who \in Operations /\ who \notin Runners /\ chain[1][2] \in Jobs
  BY <1>1, EntryFacts DEF IInv, Line, Places
<1>3. \/ who = "start" /\ pc[who] = "boot"
      \/ who = "start" /\ pc[who] = "plan"
      \/ who = "start" /\ pc[who] = "apply"
      \/ who = "start" /\ pc[who] = "finish"
      \/ who = "tick" /\ pc[who] = "mark"
      \/ who = "tick" /\ pc[who] = "apply"
      \/ who \in Manuals /\ pc[who] = "preflight"
      \/ who \in Manuals /\ pc[who] = "reserve"
      \/ who \in Manuals /\ pc[who] = "finish"
      \/ who \in Operations /\ who \notin Runners /\ chain[1][2] \in Jobs
  <2> HIDE DEF who
  <2> QED BY <1>2 DEF At, Waits, Runners, Scheduled
<1>4. /\ "start" \notin Manuals /\ "tick" \notin Manuals
      /\ "start" \notin Operations /\ "tick" \notin Operations
      /\ \A m \in Manuals : m \notin Operations /\ m \in Runners
      /\ "start" \in Runners /\ "tick" \in Runners
  BY ManualFacts DEF Scheduled
<1>5. HeadStore =
    CASE who = "start" /\ pc[who] = "boot" -> BootStore
      [] who = "start" /\ pc[who] = "plan" -> Marked(mem, Candidates)
      [] who = "start" /\ pc[who] = "apply" -> CaughtUpStore
      [] who = "start" /\ pc[who] = "finish" -> StartedStore
      [] who = "tick" /\ pc[who] = "mark" -> TickStore
      [] who = "tick" /\ pc[who] = "apply" -> TickedStore
      [] who \in Manuals /\ pc[who] = "reserve" -> ReservedStore(who)
      [] who \in Manuals /\ pc[who] = "finish" -> FinishedStore(who)
      [] who \in Operations -> OpStore(who, chain[1][2])
  BY DEF HeadStore
<1> HIDE DEF who
<1> SUFFICES \/ who = "start" /\ pc["start"] = "boot" /\ HeadStore = BootStore
             \/ who = "start" /\ pc["start"] = "plan" /\ HeadStore = Marked(mem, Candidates)
             \/ who = "start" /\ pc["start"] = "apply" /\ HeadStore = CaughtUpStore
             \/ who = "start" /\ pc["start"] = "finish" /\ HeadStore = StartedStore
             \/ who = "tick" /\ pc["tick"] = "mark" /\ HeadStore = TickStore
             \/ who = "tick" /\ pc["tick"] = "apply" /\ HeadStore = TickedStore
             \/ who \in Manuals /\ pc[who] = "preflight"
             \/ who \in Manuals /\ pc[who] = "reserve" /\ HeadStore = ReservedStore(who)
             \/ who \in Manuals /\ pc[who] = "finish" /\ HeadStore = FinishedStore(who)
             \/ /\ who \in Operations /\ chain[1][2] \in Jobs /\ who \notin Runners
                /\ HeadStore = OpStore(who, chain[1][2])
  BY DEF HeadIs, who
<1>a. CASE who = "start" /\ pc[who] = "boot"
  BY <1>4, <1>5, <1>a
<1>b. CASE who = "start" /\ pc[who] = "plan"
  BY <1>4, <1>5, <1>b
<1>c. CASE who = "start" /\ pc[who] = "apply"
  BY <1>4, <1>5, <1>c
<1>d. CASE who = "start" /\ pc[who] = "finish"
  BY <1>4, <1>5, <1>d
<1>e. CASE who = "tick" /\ pc[who] = "mark"
  BY <1>4, <1>5, <1>e
<1>f. CASE who = "tick" /\ pc[who] = "apply"
  BY <1>4, <1>5, <1>f
<1>g. CASE who \in Manuals /\ pc[who] = "preflight"
  BY <1>g
<1>h. CASE who \in Manuals /\ pc[who] = "reserve"
  BY <1>4, <1>5, <1>h
<1>i. CASE who \in Manuals /\ pc[who] = "finish"
  BY <1>4, <1>5, <1>i
<1>j. CASE who \in Operations /\ who \notin Runners /\ chain[1][2] \in Jobs
  BY <1>4, <1>5, <1>j
<1> QED BY <1>3, <1>a, <1>b, <1>c, <1>d, <1>e, <1>f, <1>g, <1>h, <1>i, <1>j

LEMMA TickStoreFacts ==
    ASSUME Typed
    PROVE  /\ TickStore \in StoreType
           /\ \A j \in Jobs : Guarded(disk, j) /\ ~IsStuck(disk.state[j], now)
                                => Guarded(TickStore, j)
<1>1. Loaded \in StoreType /\ now \in Nat
  BY LoadedFacts, NowFact
<1>2. CASE Due = {}
  <2>1. TickStore = Maintenance(Loaded, now, TRUE, TRUE)
    BY <1>2 DEF TickStore
  <2>2. Kept(Loaded, TickStore, now)
    BY <1>1, <2>1, MaintenanceKeeps
  <2>3. ASSUME NEW j \in Jobs, Guarded(disk, j), ~IsStuck(disk.state[j], now)
        PROVE  Guarded(TickStore, j)
    <3>1. Guarded(Loaded, j) /\ ~IsStuck(Loaded.state[j], now)
      BY <2>3, LoadedFacts, NoStateType DEF IsStuck
    <3> QED BY <1>1, <2>2, <3>1, KeptMeans
  <2> QED BY <2>2, <2>3 DEF Kept
<1>3. CASE Due # {}
  <2>1. TickStore = Marked(Loaded, Due)
    BY <1>3 DEF TickStore
  <2> QED BY <1>1, <2>1, LoadedFacts, MarkedFacts
<1> QED BY <1>2, <1>3

LEMMA HeadStoreType ==
    ASSUME IInv, chain # <<>>, ~\E m \in Manuals : HeadIs(m, "preflight")
    PROVE  HeadStore \in StoreType
<1>1. Typed /\ mem \in StoreType
  BY DEF IInv, Typed
<1>2. /\ BootStore \in StoreType /\ Marked(mem, Candidates) \in StoreType
      /\ CaughtUpStore \in StoreType /\ StartedStore \in StoreType
      /\ TickStore \in StoreType /\ TickedStore \in StoreType
  BY <1>1, BootFacts, MarkedFacts, CaughtUpFacts, StartedFacts, TickStoreFacts, TickedFacts DEF Kept
<1>3. \A m \in Manuals : ReservedStore(m) \in StoreType /\ FinishedStore(m) \in StoreType
  BY <1>1, ReservedFacts, FinishedFacts DEF Kept
<1>4. \A op \in Operations, j \in Jobs : OpStore(op, j) \in StoreType
  BY <1>1, OpFacts
<1> DEFINE who == chain[1][1]
<1>5. ~(who \in Manuals /\ HeadIs(who, "preflight"))
  OBVIOUS
<1> QED BY <1>2, <1>3, <1>4, <1>5, HeadCases

(* Whatever section is at the head, what it saves keeps the guard of a       *)
(* one-shot that it does not put down for a retry.                           *)
LEMMA HeadGuards ==
    ASSUME IInv, chain # <<>>, ~\E m \in Manuals : HeadIs(m, "preflight"),
           NEW j \in Jobs, Kind[j] = "at", Guarded(mem, j), Guarded(disk, j),
           ~IsStuck(mem.state[j], now), ~IsStuck(disk.state[j], now),
           mem.config[j] = disk.config[j], HeadStore.config[j] = disk.config[j],
           ~HeadOp => j \notin ToRetry(chain[1][1], IF chain[1][1] = "tick" THEN Loaded ELSE mem)
    PROVE  Guarded(HeadStore, j)
<1>1. Typed /\ mem \in StoreType /\ Loaded \in StoreType /\ now \in Nat
  BY LoadedFacts, NowFact DEF IInv, Typed
<1>2. Guarded(Loaded, j) /\ ~IsStuck(Loaded.state[j], now)
  BY <1>1, LoadedFacts, NoStateType DEF IsStuck
<1> DEFINE who == chain[1][1]
<1>3. who \in Runners => ~HeadOp
  BY ManualFacts DEF HeadOp
<1>4. CASE who = "start" /\ HeadStore = BootStore
  BY <1>1, <1>4, BootFacts
<1>5. CASE who = "start" /\ HeadStore = Marked(mem, Candidates)
  BY <1>1, <1>5, MarkedFacts
<1>6. CASE who = "start" /\ HeadStore = CaughtUpStore
  <2> DEFINE a == ApplyAll(mem, "start")
  <2>1. Settled("start", mem, a) /\ Kept(a, CaughtUpStore, now) /\ a \in StoreType
    BY <1>1, CaughtUpFacts DEF Settled
  <2>2. j \notin ToRetry("start", mem)
    BY <1>3, <1>6, ManualFacts
  <2> HIDE DEF a
  <2>3. Guarded(a, j) /\ ~IsStuck(a.state[j], now)
    BY <2>1, <2>2 DEF Settled, Guarded, IsStuck
  <2> QED BY <1>1, <1>6, <2>1, <2>3, KeptMeans
<1>7. CASE who = "start" /\ HeadStore = StartedStore
  BY <1>1, <1>7, StartedFacts, KeptMeans
<1>8. CASE who = "tick" /\ HeadStore = TickStore
  BY <1>1, <1>8, TickStoreFacts
<1>9. CASE who = "tick" /\ HeadStore = TickedStore
  <2> DEFINE a == ApplyAll(Loaded, "tick")
  <2>1. Settled("tick", Loaded, a) /\ Kept(a, TickedStore, now) /\ a \in StoreType
    BY <1>1, TickedFacts DEF Settled
  <2>2. j \notin ToRetry("tick", Loaded)
    BY <1>3, <1>9, ManualFacts
  <2> HIDE DEF a
  <2>3. Guarded(a, j) /\ ~IsStuck(a.state[j], now)
    BY <1>2, <2>1, <2>2 DEF Settled, Guarded, IsStuck
  <2> QED BY <1>1, <1>9, <2>1, <2>3, KeptMeans
<1>10. CASE who \in Manuals /\ pc[who] = "reserve" /\ HeadStore = ReservedStore(who)
  <2>1. who \in Runners /\ At(who)
    BY <1>10, ManualFacts DEF IInv, Places
  <2>2. run[who][ManualJob[who]].start # 0
    BY <1>10, <2>1 DEF At
  <2> HIDE DEF who
  <2> QED BY <1>1, <1>10, <2>2, ReservedFacts DEF Guarded
<1>11. CASE who \in Manuals /\ pc[who] = "finish" /\ HeadStore = FinishedStore(who)
  <2>1. who \in Runners /\ At(who) /\ ManualJob[who] \in Jobs
    BY <1>11, ManualFacts DEF IInv, Places
  <2>2. ManualJob[who] \in Ended(who)
    <3>1. Held(who, ManualJob[who]) /\ run[who][ManualJob[who]] \in RunType
      BY <1>1, <1>11, <2>1 DEF At, Typed
    <3>2. run[who][ManualJob[who]].pc \notin {"waiting", "executing"}
      BY <1>11, <2>1 DEF At
    <3> QED BY <2>1, <3>1, <3>2 DEF Held, Ended, RunType
  <2>3. j \notin ToRetry(who, mem)
    BY <1>3, <1>11, <2>1, ManualFacts DEF Scheduled
  <2> HIDE DEF who
  <2>4. PICK w : Merged(who, w) /\ Kept(w, FinishedStore(who), now)
    BY <1>1, <1>11, FinishedFacts
  <2>5. CASE j = ManualJob[who]
    <3>1. w.config[j] # "on"
      BY <2>2, <2>3, <2>4, <2>5 DEF Merged
    <3> QED BY <1>11, <2>4, <3>1 DEF Kept, Guarded
  <2>6. CASE j # ManualJob[who]
    <3>1. w.config[j] = disk.config[j] /\ w.state[j] = Loaded.state[j] /\ w \in StoreType
      BY <2>4, <2>6 DEF Merged
    <3>2. Guarded(w, j) /\ ~IsStuck(w.state[j], now)
      BY <1>1, <1>2, <3>1, LoadedFacts DEF Guarded
    <3> QED BY <1>1, <1>11, <2>4, <3>1, <3>2, KeptMeans
  <2> QED BY <2>5, <2>6
<1>12. CASE /\ who \in Operations /\ chain[1][2] \in Jobs
            /\ HeadStore = OpStore(who, chain[1][2])
  <2> DEFINE i == chain[1][2]
  <2>1. CASE who = "read"
    <3>1. Kept(mem, HeadStore, now)
      BY <1>1, <1>12, <2>1, OpFacts
    <3> QED BY <1>1, <3>1, KeptMeans
  <2>2. CASE who # "read"
    <3>1. CASE mem.config[j] # "on"
      BY <3>1 DEF Guarded
    <3>2. CASE mem.config[j] = "on"
      <4> HIDE DEF who, i
      <4>1. Guarded(OpStore(who, i), j)
        BY <1>1, <1>12, <2>2, <3>2, OpFacts DEF i
      <4> QED BY <1>12, <4>1 DEF i
    <3> QED BY <3>1, <3>2
  <2> QED BY <2>1, <2>2
<1>13. ~(who \in Manuals /\ HeadIs(who, "preflight"))
  OBVIOUS
<1> QED BY <1>4, <1>5, <1>6, <1>7, <1>8, <1>9, <1>10, <1>11, <1>12, <1>13, HeadCases

LEMMA OperationDone ==
    ASSUME IInv, Operation, ~Unknown(chain[1][1], chain[1][2])
    PROVE  IInv'
<1> DEFINE op == chain[1][1]
           j == chain[1][2]
<1>1. /\ chain # <<>> /\ op \in Operations /\ chain' = Tail(chain)
      /\ IF op = "read"
         THEN /\ SaveIfChanged(HeadStore, mem) /\ excused' = excused \union Aged(mem)
              /\ UNCHANGED <<shared, armed, spent>>
         ELSE /\ Save(HeadStore, {j})
              /\ shared' = shared \ {j} /\ armed' = Armed(mem')
              /\ spent' = IF op \in {"enable", "add"} THEN spent \ {j} ELSE spent
              /\ excused' = excused \union
                     (IF op = "add" THEN Aged(mem) \union {i \in Jobs : promised[i] # 0}
                      ELSE Active \intersect {j})
      /\ pc' = pc /\ run' = run /\ skip' = skip
  BY DEF Operation, HeadOp
<1>2. j \in Jobs /\ op \notin Runners /\ HeadStore = OpStore(op, j)
  BY <1>1, HeadCases, ManualFacts
<1>3. pc["start"] = "idle"
  BY <1>1, <1>2, AwakeFacts, ManualFacts
<1> HIDE DEF op, j
<1>4. /\ HeadStore \in StoreType /\ mem \in StoreType /\ now \in Nat
      /\ op = "read" => Kept(mem, HeadStore, now)
      /\ op # "read" =>
            \A i \in Jobs : (op = "add" => ~IsStuck(mem.state[i], now)) =>
                /\ On(mem, i) /\ (i = j => op \notin {"remove", "disable"}) => On(HeadStore, i)
                /\ /\ Guarded(mem, i)
                   /\ i = j => op \notin {"enable", "add"}
                   => Guarded(HeadStore, i)
  <2>1. Typed /\ mem \in StoreType /\ now \in Nat
    BY NowFact DEF IInv, Typed
  <2> QED BY <1>1, <1>2, <2>1, OpFacts
<1>5. /\ mem' = HeadStore /\ now' = now /\ promised' \in [Jobs -> Nat]
      /\ disk' = HeadStore \/ (op = "read" /\ disk' = disk)
  BY <1>1, <1>4, SaveFacts, SaveIfChangedFacts DEF IInv
<1>6. Typed'
  <2>1. armed' \in BOOLEAN
    BY <1>1, ArmedType DEF IInv, Typed
  <2>2. excused' \subseteq Jobs /\ spent' \subseteq Jobs
    BY <1>1, <1>2 DEF IInv, Typed, Aged, Active
  <2> QED BY <1>1, <1>4, <1>5, <2>1, <2>2 DEF IInv, Typed
<1>7. Line(chain, pc)'
  <2>1. /\ Line(chain, pc) /\ chain # <<>> /\ chain[1][1] = op
        /\ op \in Runners => pc[op] \notin Waits
        /\ \A r \in Runners \ {op} : pc[r] = pc[r]
    BY <1>1, <1>2 DEF IInv, op
  <2>2. Line(Tail(chain), pc)
    BY ONLY <2>1, TailLine
  <2> QED BY <1>1, <2>2
<1>8. Places' /\ Starting'
  BY <1>1, <1>3 DEF IInv, Places, At, Held, Starting
<1>9. ASSUME NEW i \in Jobs, i \notin excused'
      PROVE  /\ i \notin excused
             /\ On(mem, i) /\ (\E r \in Runners : Held(r, i)) => On(HeadStore, i)
             /\ Guarded(mem, i) /\ (i = j => op \notin {"enable", "add"}) => Guarded(HeadStore, i)
  <2>1. i \notin excused
    BY <1>1, <1>9
  <2>2. CASE op = "read"
    <3>1. ~IsStuck(mem.state[i], now)
      BY <1>1, <1>9, <2>2 DEF Aged
    <3> QED BY <1>4, <2>1, <2>2, <3>1, KeptMeans
  <2>3. CASE op # "read"
    <3>1. op = "add" => ~IsStuck(mem.state[i], now)
      BY <1>1, <1>9, <2>3 DEF Aged
    <3>2. i = j /\ (\E r \in Runners : Held(r, i)) => op \notin {"remove", "disable"}
      BY <1>1, <1>9, <2>3 DEF Active, Held
    <3> QED BY <1>4, <2>1, <2>3, <3>1, <3>2
  <2> QED BY <2>2, <2>3
<1>10. Safe'
  <2> SUFFICES ASSUME NEW i \in Jobs \ excused' PROVE SafeAt(i)'
    BY DEF Safe
  <2>1. SafeAt(i)
    BY <1>9 DEF IInv, Safe
  <2>2. mem'.config[i] = disk'.config[i]
    BY <1>4, <1>5, <2>1 DEF SafeAt, Kept
  <2>3. \A r \in Runners : Held(r, i) => On(mem', i) /\ On(disk', i)
    BY <1>5, <1>9, <2>1 DEF SafeAt
  <2> QED BY <1>1, <2>1, <2>2, <2>3 DEF SafeAt, Held, On
<1>11. SpentSafe'
  <2> SUFFICES ASSUME NEW i \in spent'
               PROVE  Kind[i] = "at" /\ (i \notin excused' => SpentAt(i)')
    BY DEF SpentSafe
  <2>1. i \in Jobs /\ i \in spent /\ Kind[i] = "at" /\ (i \notin excused => SpentAt(i))
    BY <1>1 DEF IInv, Typed, SpentSafe
  <2> SUFFICES ASSUME i \notin excused' PROVE SpentAt(i)'
    BY <2>1
  <2>2. SpentAt(i) /\ (i = j => op \notin {"enable", "add"})
    BY <1>1, <1>9, <2>1
  <2>3. Guarded(mem', i) /\ Guarded(disk', i)
    BY <1>5, <1>9, <2>1, <2>2 DEF SpentAt
  <2> QED BY <1>1, <2>2, <2>3 DEF SpentAt, Guarded
<1> QED BY <1>6, <1>7, <1>8, <1>10, <1>11 DEF IInv

LEMMA OperationStep == ASSUME IInv, Operation PROVE IInv'
<1>1. CASE ~Unknown(chain[1][1], chain[1][2])
  BY <1>1, OperationDone
<1>2. CASE Unknown(chain[1][1], chain[1][2])
  <2> DEFINE op == chain[1][1]
  <2>1. /\ chain # <<>> /\ op \in Operations /\ chain' = Tail(chain)
        /\ Leave(mem, {}) /\ disk' = disk /\ shared' = shared /\ armed' = armed
        /\ spent' = spent /\ excused' = excused
        /\ pc' = pc /\ run' = run /\ skip' = skip
    BY <1>2 DEF Operation, HeadOp
  <2>2. pc["start"] = "idle" /\ op \notin Runners
    BY <2>1, AwakeFacts, ManualFacts
  <2> HIDE DEF op
  <2>3. mem' = mem /\ now' = now /\ promised' \in [Jobs -> Nat]
    BY <2>1, LeaveFacts DEF IInv, Typed
  <2>4. Typed'
    BY <2>1, <2>3 DEF IInv, Typed
  <2>5. Line(chain, pc)'
    <3>1. /\ Line(chain, pc) /\ chain # <<>> /\ chain[1][1] = op
          /\ op \in Runners => pc[op] \notin Waits
          /\ \A r \in Runners \ {op} : pc[r] = pc[r]
      BY <2>1, <2>2 DEF IInv, op
    <3>2. Line(Tail(chain), pc)
      BY ONLY <3>1, TailLine
    <3> QED BY <2>1, <3>2
  <2>6. Places' /\ Starting'
    BY <2>1, <2>2 DEF IInv, Places, At, Held, Starting
  <2> QED BY <2>1, <2>3, <2>4, <2>5, <2>6, QuietSafe DEF IInv
<1> QED BY <1>1, <1>2

LEMMA SaveFailsAt == ASSUME IInv, SaveFails, NEW who, chain[1][1] = who PROVE IInv'
<1> DEFINE s == HeadStore
<1>1. /\ chain # <<>> /\ chain' = Tail(chain)
      /\ mem' = s /\ promised' = Owe(s, now, IF HeadOp THEN {chain[1][2]} ELSE {})
      /\ excused' = excused \union {j \in Jobs : s.config[j] # disk.config[j]
                                            \/ s.state[j] # disk.state[j]}
      /\ pc' = IF HeadOp THEN pc
               ELSE [pc EXCEPT ![who] = IF who = "tick" THEN "idle" ELSE "done"]
      /\ run' = IF HeadOp THEN run ELSE [run EXCEPT ![who] = Idle]
      /\ armed' = IF who = "tick" THEN Armed(s) ELSE armed
      /\ shared' = {}
      /\ UNCHANGED <<now, disk, skip, spent>>
  BY DEF SaveFails, HeadIs, HeadOp
<1>2. /\ \/ who = "tick" \/ HeadOp
         \/ who \in Manuals /\ pc[who] \in {"reserve", "finish"}
      /\ HeadOp => who \notin Runners /\ who \in Operations
      /\ ~HeadOp => who \in Runners /\ who \notin Operations /\ who # "start"
  <2>1. \/ who = "tick" \/ HeadOp
        \/ who \in Manuals /\ pc[who] \in {"reserve", "finish"}
    BY DEF SaveFails, HeadIs
  <2> QED BY <1>1, <2>1, ManualFacts DEF HeadOp, Scheduled
<1>3. ~\E m \in Manuals : HeadIs(m, "preflight")
  BY <1>2, ManualFacts DEF HeadIs, Scheduled, HeadOp
<1>4. s \in StoreType
  BY <1>1, <1>3, HeadStoreType
<1>5. pc["start"] = "idle"
  <2>1. who # "start"
    BY <1>2, ManualFacts
  <2> QED BY <1>1, <2>1, AwakeFacts
<1> HIDE DEF s
<1>6. promised' \in [Jobs -> Nat]
  BY <1>1, <1>4, OweType DEF IInv
<1>7. /\ pc' \in [Runners -> Waits \union {"idle", "runs", "run", "done"}]
      /\ \A r \in Runners \ {who} : pc'[r] = pc[r] /\ run'[r] = run[r]
      /\ run' \in [Runners -> [Jobs -> RunType]]
      /\ who \in Runners => /\ pc'[who] = IF who = "tick" THEN "idle" ELSE "done"
                            /\ run'[who] = Idle
  BY <1>1, <1>2, RunFacts DEF IInv, Typed
<1>8. Typed'
  <2>1. armed' \in BOOLEAN
    BY <1>1, ArmedType DEF IInv, Typed
  <2> QED BY <1>1, <1>4, <1>6, <1>7, <2>1 DEF IInv, Typed
<1>9. Line(chain, pc)'
  <2> DEFINE q == pc'
  <2>1. /\ Line(chain, pc) /\ chain # <<>> /\ chain[1][1] = who
        /\ who \in Runners => q[who] \notin Waits
        /\ \A r \in Runners \ {who} : q[r] = pc[r]
    BY <1>1, <1>7 DEF IInv, Waits
  <2> HIDE DEF q
  <2>2. Line(Tail(chain), q)
    BY ONLY <2>1, TailLine
  <2> QED BY <1>1, <2>2 DEF q
<1>10. Places'
  <2>1. who \in Runners => At(who)'
    <3> SUFFICES ASSUME who \in Runners PROVE At(who)'
      OBVIOUS
    <3>1. \A j \in Jobs : run'[who][j].pc = "none"
      BY <1>7, RunFacts
    <3>2. who = "tick" \/ who \in Manuals
      BY <1>2
    <3>3. CASE who = "tick"
      <4>1. pc'["tick"] = "idle" /\ "tick" \notin Manuals
        BY <1>7, <3>3, ManualFacts DEF Scheduled
      <4> QED BY <3>1, <3>3, <4>1 DEF At, Held
    <3>4. CASE who \in Manuals
      <4>1. /\ pc'[who] = "done" /\ who # "tick" /\ who # "start" /\ who \notin Scheduled
        BY <1>7, <3>4, ManualFacts DEF Scheduled
      <4> QED BY <3>1, <4>1 DEF At, Held
    <3> QED BY <3>2, <3>3, <3>4
  <2>2. Places /\ \A r \in Runners \ {who} : pc'[r] = pc[r] /\ run'[r] = run[r]
    BY <1>7 DEF IInv
  <2> QED BY <2>1, <2>2, PlacesKept
<1>11. Starting'
  <2>1. pc'["start"] = "idle"
    BY <1>1, <1>2, <1>5, <1>7, ManualFacts
  <2> QED BY <2>1 DEF Starting
<1>12. \A r \in Runners, j \in Jobs : run'[r][j] = run[r][j] \/ run'[r][j].pc = "none"
  BY <1>7, RunFacts
<1>13. ASSUME NEW j \in Jobs, j \notin excused'
       PROVE  /\ j \notin excused
              /\ mem'.config[j] = disk'.config[j] /\ mem'.state[j] = disk'.state[j]
              /\ disk' = disk
  BY <1>1, <1>13
<1>14. Safe'
  BY <1>12, <1>13 DEF IInv, Safe, SafeAt, Held, On
<1>15. SpentSafe'
  <2>1. spent \subseteq Jobs /\ Scheduled \subseteq Runners
    BY DEF IInv, Typed, Runners
  <2> QED BY <1>1, <1>12, <1>13, <2>1 DEF IInv, SpentSafe, SpentAt, Guarded
<1> QED BY <1>8, <1>9, <1>10, <1>11, <1>14, <1>15 DEF IInv

LEMMA SaveFailsStep == ASSUME IInv, SaveFails PROVE IInv'
  BY SaveFailsAt

LEMMA RestartFacts ==
    ASSUME IInv, Restart, disk' \in StoreType, spent' \subseteq Jobs, excused' \subseteq Jobs
    PROVE  /\ Typed' /\ Line(chain, pc)' /\ Places' /\ Starting' /\ Safe'
           /\ mem' = disk' /\ \A r \in Runners, j \in Jobs : run'[r][j].pc = "none"
<1>1. /\ mem' = disk' /\ chain' = << <<"start", "-">> >> /\ now' = now
      /\ pc' = [r \in Runners |-> IF r = "start" THEN "boot"
                                 ELSE IF r = "tick" \/ pc[r] = "idle" THEN "idle" ELSE "done"]
      /\ run' = [r \in Runners |-> Idle]
      /\ skip' = {} /\ shared' = {} /\ armed' = FALSE
      /\ promised' = [j \in Jobs |-> 0]
  BY DEF Restart
<1>2. \A r \in Runners, j \in Jobs : run'[r][j].pc = "none"
  BY <1>1, RunFacts
<1>3. Typed'
  BY <1>1, RunFacts DEF IInv, Typed, Waits
<1>4. /\ chain' \in Seq(Entry) /\ Len(chain') = 1 /\ chain'[1][1] = "start"
      /\ "start" \in Runners
  BY <1>1, EntryFacts, ManualFacts
<1>5. Line(chain, pc)'
  <2>1. \A i \in 1..Len(chain') : i = 1
    BY <1>4
  <2>2. \A r \in Runners : pc'[r] \in Waits => r = "start"
    BY <1>1 DEF Waits
  <2>3. pc'["start"] \in Waits /\ 1 \in 1..Len(chain')
    BY <1>1, <1>4 DEF Waits
  <2> QED BY <1>4, <2>1, <2>2, <2>3 DEF Line
<1>6. Places'
  <2> SUFFICES ASSUME NEW r \in Runners PROVE At(r)'
    BY DEF Places
  <2> QED BY <1>1, <1>2, ManualFacts DEF At, Held, Scheduled
<1>7. Starting'
  BY <1>1, <1>4 DEF Starting
<1>8. Safe'
  BY <1>1, <1>2 DEF Safe, SafeAt, Held
<1> QED BY <1>1, <1>2, <1>3, <1>5, <1>6, <1>7, <1>8

LEMMA CrashStep == ASSUME IInv, Crash PROVE IInv'
<1>1. disk' = disk /\ spent' = spent /\ excused' = excused /\ Restart
  BY DEF Crash
<1>2. /\ Typed' /\ Line(chain, pc)' /\ Places' /\ Starting' /\ Safe'
      /\ mem' = disk' /\ \A r \in Runners, j \in Jobs : run'[r][j].pc = "none"
  BY <1>1, RestartFacts DEF IInv, Typed
<1>3. SpentSafe'
  <2>1. spent \subseteq Jobs /\ Scheduled \subseteq Runners
    BY DEF IInv, Typed, Runners
  <2> QED BY <1>1, <1>2, <2>1 DEF IInv, SpentSafe, SpentAt, Guarded
<1> QED BY <1>2, <1>3 DEF IInv

LEMMA CrashInSaveStep == ASSUME IInv, CrashInSave PROVE IInv'
<1> DEFINE s == HeadStore
           who == chain[1][1]
<1>1. /\ chain # <<>> /\ ~\E m \in Manuals : HeadIs(m, "preflight")
      /\ disk' = [disk EXCEPT !.state = s.state]
      /\ excused' = excused \union {j \in Jobs : s.config[j] # disk.config[j]}
                            \union Aged(mem) \union Aged(disk)
      /\ spent' = IF HeadOp THEN spent
                  ELSE spent \ ToRetry(who, IF who = "tick" THEN Loaded ELSE mem)
      /\ Restart
  BY DEF CrashInSave
<1>2. s \in StoreType
  BY <1>1, HeadStoreType
<1> HIDE DEF s
<1>3. disk' \in StoreType /\ disk'.config = disk.config /\ disk'.state = s.state
  BY <1>1, <1>2 DEF IInv, Typed, StoreType
<1>4. spent' \subseteq spent /\ spent \subseteq Jobs /\ excused' \subseteq Jobs
  BY <1>1 DEF IInv, Typed, Aged
<1>5. /\ Typed' /\ Line(chain, pc)' /\ Places' /\ Starting' /\ Safe'
      /\ mem' = disk' /\ \A r \in Runners, j \in Jobs : run'[r][j].pc = "none"
  BY <1>1, <1>3, <1>4, RestartFacts
<1>6. SpentSafe'
  <2> SUFFICES ASSUME NEW j \in spent'
               PROVE  Kind[j] = "at" /\ (j \notin excused' => SpentAt(j)')
    BY DEF SpentSafe
  <2>1. j \in Jobs /\ Kind[j] = "at" /\ (j \notin excused => SpentAt(j))
    BY <1>4 DEF IInv, SpentSafe
  <2> SUFFICES ASSUME j \notin excused' PROVE SpentAt(j)'
    BY <2>1
  <2>2. /\ j \notin excused /\ s.config[j] = disk.config[j]
        /\ ~IsStuck(mem.state[j], now) /\ ~IsStuck(disk.state[j], now)
    BY <1>1, <2>1 DEF Aged
  <2>3. /\ Guarded(mem, j) /\ Guarded(disk, j) /\ mem.config[j] = disk.config[j]
    BY <2>1, <2>2 DEF SpentAt, IInv, Safe, SafeAt
  <2>4. ~HeadOp => j \notin ToRetry(who, IF who = "tick" THEN Loaded ELSE mem)
    BY <1>1
  <2>5. Guarded(s, j)
    BY <1>1, <2>1, <2>2, <2>3, <2>4, HeadGuards DEF s
  <2>6. Guarded(disk', j)
    BY <1>3, <2>2, <2>5 DEF Guarded
  <2> QED BY <1>5, <2>1, <2>6 DEF SpentAt, Guarded, Runners
<1> QED BY <1>5, <1>6 DEF IInv

LEMMA InitInv == ASSUME Init PROVE IInv
<1> DEFINE config == [j \in Jobs |-> IF j \in Initial THEN "on" ELSE "none"]
           state == [j \in Jobs |-> NoState]
<1>1. /\ now = 1 /\ disk = [config |-> config, state |-> state] /\ mem = disk
      /\ chain = << <<"start", "-">> >>
      /\ pc = [r \in Runners |-> IF r = "start" THEN "boot" ELSE "idle"]
      /\ run = [r \in Runners |-> Idle]
      /\ skip = {} /\ shared = {} /\ armed = FALSE
      /\ promised = [j \in Jobs |-> 0] /\ spent = {} /\ excused = {}
  BY DEF Init
<1>2. config \in [Jobs -> {"on", "off", "none"}] /\ state \in [Jobs -> StateType]
  BY NoStateType
<1> HIDE DEF config, state
<1>3. disk \in StoreType /\ mem \in StoreType
  BY <1>1, <1>2 DEF StoreType
<1>4. Typed
  <2>1. now \in 1..MaxTime
    BY <1>1, NatFacts
  <2>2. pc \in [Runners -> Waits \union {"idle", "runs", "run", "done"}]
    BY <1>1 DEF Waits
  <2>3. run \in [Runners -> [Jobs -> RunType]]
    BY <1>1, RunFacts
  <2>4. promised \in [Jobs -> Nat] /\ armed \in BOOLEAN
        /\ skip \union shared \union spent \union excused \subseteq Jobs
    BY <1>1
  <2> QED BY <1>3, <2>1, <2>2, <2>3, <2>4 DEF Typed
<1>5. /\ chain \in Seq(Entry) /\ Len(chain) = 1 /\ chain[1][1] = "start" /\ "start" \in Runners
  BY <1>1, EntryFacts, ManualFacts
<1>6. Line(chain, pc)
  <2>1. \A i \in 1..Len(chain) : i = 1
    BY <1>5
  <2>2. \A r \in Runners : pc[r] \in Waits => r = "start"
    BY <1>1 DEF Waits
  <2>3. pc["start"] \in Waits /\ 1 \in 1..Len(chain)
    BY <1>1, <1>5 DEF Waits
  <2> QED BY <1>5, <2>1, <2>2, <2>3 DEF Line
<1>7. \A r \in Runners, j \in Jobs : run[r][j].pc = "none"
  BY <1>1, RunFacts
<1>8. Places
  <2> SUFFICES ASSUME NEW r \in Runners PROVE At(r)
    BY DEF Places
  <2> QED BY <1>1, <1>7, ManualFacts DEF At, Held, Scheduled
<1>9. Starting
  BY <1>1, <1>5 DEF Starting
<1>10. Safe /\ SpentSafe
  BY <1>1, <1>7 DEF Safe, SafeAt, SpentSafe, Held
<1> QED BY <1>4, <1>6, <1>8, <1>9, <1>10 DEF IInv

LEMMA NextInv == ASSUME IInv, [Next]_vars PROVE IInv'
<1>1. CASE Section
  BY <1>1, BootStep, PlanStep, ApplyStep, StartFinishStep, TickMarkStep, TickApplyStep,
     OperationStep, PreflightStep, ReserveStep, FinishStep
     DEF Section, StartStep, TickStep, ManualStep
<1>2. CASE Execution
  BY <1>2, BeginStep, EndStep DEF Execution
<1>3. CASE TimerFires \/ Clock
  BY <1>3, TimerStep, ClockStep
<1>4. CASE \E m \in Manuals : Call(m)
  BY <1>4, CallStep
<1>5. CASE \E op \in Ops, j \in Jobs : Ask(op, j)
  BY <1>5, AskStep
<1>6. CASE SaveFails \/ Crash \/ CrashInSave
  BY <1>6, SaveFailsStep, CrashStep, CrashInSaveStep
<1>7. CASE UNCHANGED vars
  BY <1>7 DEF vars, IInv, Typed, Line, Places, At, Held, Starting, Safe, SafeAt, On,
              SpentSafe, SpentAt, Guarded
<1> QED BY <1>1, <1>2, <1>3, <1>4, <1>5, <1>6, <1>7 DEF Next

LEMMA Invariance == Spec => []IInv
<1>1. Init => IInv
  BY InitInv
<1>2. IInv /\ [Next]_vars => IInv'
  BY NextInv
<1> QED BY <1>1, <1>2, PTL DEF Spec

----------------------------------------------------------------------------
(* The theorems.                                                             *)

(* The store, the runners and the chain keep their types, and a runner is in *)
(* the chain exactly when it waits for a section, and once, whatever timers, *)
(* manual runs, operations, failed saves and crashes there are (locked.ts).  *)
THEOREM TypeCorrect == Spec => []TypeOK
<1>1. ASSUME IInv PROVE TypeOK
  <2>1. ASSUME NEW r \in Runners
        PROVE  Cardinality({i \in DOMAIN chain : chain[i][1] = r}) = IF pc[r] \in Waits THEN 1 ELSE 0
    <3> DEFINE S == {i \in 1..Len(chain) : chain[i][1] = r}
    <3>1. DOMAIN chain = 1..Len(chain)
      BY <1>1 DEF IInv, Line
    <3>2. CASE pc[r] \in Waits
      <4>1. PICK k \in 1..Len(chain) : chain[k][1] = r
        BY <1>1, <3>2 DEF IInv, Line
      <4>2. S = {k}
        BY <1>1, <4>1 DEF IInv, Line
      <4>3. Cardinality(S) = 1
        BY <4>2, FS_Singleton
      <4> QED BY <3>1, <3>2, <4>3
    <3>3. CASE pc[r] \notin Waits
      <4>1. S = {}
        BY <1>1, <3>3 DEF IInv, Line
      <4>2. Cardinality(S) = 0
        BY <4>1, FS_EmptySet
      <4> QED BY <3>1, <3>3, <4>2
    <3> QED BY <3>2, <3>3
  <2>2. \A r \in Runners, j \in Jobs :
            run[r][j].pc \in {"waiting", "executing", "ended"}
                => pc[r] \in {"runs", "run", "apply", "finish"}
    BY <1>1 DEF IInv, Places, At, Held, Runners
  <2> QED BY <1>1, <2>1, <2>2 DEF IInv, Typed, TypeOK
<1> QED BY <1>1, Invariance, PTL

(* Two runs of one job never execute at once, whether a tick, the startup or *)
(* manual runs began them, unless the job was changed, disabled or marked    *)
(* too long ago under its run, or its files differ (runningAtMs, looked at   *)
(* and saved under the lock).                                                *)
THEOREM OneRunAtATime == Spec => []NoOverlap
<1>1. ASSUME IInv PROVE NoOverlap
  <2> SUFFICES ASSUME NEW j \in Jobs \ excused
               PROVE  Cardinality({r \in Runners : run[r][j].pc = "executing"}) <= 1
    BY DEF NoOverlap
  <2> DEFINE S == {r \in Runners : run[r][j].pc = "executing"}
  <2>1. \A r, t \in S : r = t
    BY <1>1 DEF IInv, Safe, SafeAt, Held
  <2>2. CASE S = {}
    BY <2>2, FS_EmptySet
  <2>3. CASE S # {}
    <3>1. PICK r : S = {r}
      BY <2>1, <2>3
    <3>2. Cardinality(S) = 1
      BY <3>1, FS_Singleton
    <3> QED BY <3>2
  <2> QED BY <2>2, <2>3
<1> QED BY <1>1, Invariance, PTL

(* The scheduler begins a one-shot once: it begins it again only as a retry  *)
(* or when it was enabled anew, also after crashes, and after a crash        *)
(* between the two files of a save (markInterruptedStartupRun).              *)
THEOREM OneShotsRunOnce == Spec => OneShotOnce
<1>1. ASSUME IInv
      PROVE  [\A r \in Scheduled, j \in spent \ excused : ~Begin(r, j)]_vars
  <2> SUFFICES ASSUME NEW r \in Scheduled, NEW j \in spent \ excused PROVE ~Begin(r, j)
    OBVIOUS
  <2>1. run[r][j].pc # "waiting"
    BY <1>1 DEF IInv, SpentSafe, SpentAt
  <2> QED BY <2>1 DEF Begin
<1> QED BY <1>1, Invariance, PTL DEF OneShotOnce

----------------------------------------------------------------------------
(* No slot is skipped.                                                       *)

LEMMA SlotAfter ==
    ASSUME NEW t \in Nat
    PROVE  NextSlot(t) \in Nat /\ t < NextSlot(t) /\ NextSlot(t) <= t + Period
<1> DEFINE d == t \div Period
           m == t % Period
<1>1. Period \in Nat /\ Period > 0
  BY NatFacts
<1>2. d \in Nat /\ m \in Nat /\ m < Period
  BY <1>1
<1>3. t = Period * d + m
  BY <1>1
<1>4. NextSlot(t) = (d + 1) * Period
  BY DEF NextSlot
<1> HIDE DEF d, m
<1>5. (d + 1) * Period = Period * d + Period
  BY <1>1, <1>2
<1>6. Period * d \in Nat
  BY <1>1, <1>2
<1> QED BY <1>1, <1>2, <1>3, <1>4, <1>5, <1>6

LEMMA NonZeroSlot ==
    ASSUME NEW t \in Nat
    PROVE  Larger(1, (t + Period - 1) \div Period) * Period # 0
<1> DEFINE q == (t + Period - 1) \div Period
           k == Larger(1, q)
<1>1. q \in Nat
  BY NatFacts
<1> HIDE DEF q
<1>2. k \in Nat /\ k >= 1
  BY <1>1 DEF Larger
<1> HIDE DEF k
<1>3. k * Period # 0
  BY <1>2, NatFacts
<1> QED BY <1>3 DEF k, q

(* No future time is repaired, and what the catch-up puts off stays ahead:    *)
(* jobs on a cron expression are agent turns, and the stagger is no longer    *)
(* than two periods.                                                         *)
Unrepaired ==
    /\ \A j \in Jobs : Kind[j] = "cron" => j \in AgentTurn
    /\ Stagger # 0 /\ Stagger <= 2 * Period

(* What was recorded is of the past; a time far ahead is a retry's.          *)
Fit(j, st, t) ==
    /\ st.last <= t /\ st.running <= t
    /\ st.status = "error" => st.last <= st.ended
    /\ Kind[j] = "cron" => \/ st.status = "error" /\ st.next <= st.ended + Backoff
                           \/ st.next <= t + 2 * Period
Fits(s, t) == \A j \in Jobs : Fit(j, s.state[j], t)

LEMMA FitLater ==
    ASSUME NEW j \in Jobs, NEW st \in StateType, NEW t \in Nat, NEW u \in Nat, t <= u, Fit(j, st, t)
    PROVE  Fit(j, st, u)
<1>1. st.last \in Nat /\ st.running \in Nat /\ st.next \in Nat /\ st.ended \in Nat
  BY DEF StateType
<1> QED BY <1>1, NatFacts DEF Fit

LEMMA NoState0 ==
    ASSUME NEW j \in Jobs, NEW t \in Nat
    PROVE  Fit(j, NoState, t) /\ NoState.next = 0 /\ NoState.status = "none"
  BY NatFacts DEF Fit, NoState

LEMMA NoRepair ==
    ASSUME Unrepaired, NEW j \in Jobs, NEW st \in StateType, NEW t \in Nat, Fit(j, st, t)
    PROVE  ~NeedsRepair(j, st, t)
<1> SUFFICES ASSUME NeedsRepair(j, st, t) PROVE FALSE
  OBVIOUS
<1>1. st.next \in Nat /\ st.ended \in Nat
  BY DEF StateType
<1>2. NextSlot(t) \in Nat /\ t < NextSlot(t)
  BY SlotAfter
<1>3. /\ Kind[j] = "cron" /\ st.next > t
      /\ ~(st.status = "error" /\ t < st.ended + Backoff /\ st.next <= st.ended + Backoff)
      /\ st.next >= NextSlot(t) + 2 * Period
  BY DEF NeedsRepair, Unrepaired
<1>4. \/ st.status = "error" /\ st.next <= st.ended + Backoff
      \/ st.next <= t + 2 * Period
  BY <1>3 DEF Fit
<1> QED BY <1>1, <1>2, <1>3, <1>4, NatFacts

LEMMA RecomputedFields ==
    ASSUME NEW j \in Jobs, NEW st \in StateType, NEW t \in Nat
    PROVE  /\ Recomputed(j, st, t).next = 0 <=> ComputeNext(j, st, t) = 0
           /\ Recomputed(j, st, t).last = st.last
           /\ Recomputed(j, st, t).ended = st.ended
           /\ Recomputed(j, st, t).status = st.status
           /\ Kind[j] = "cron" =>
                 \/ Recomputed(j, st, t).next <= t + Period
                 \/ /\ st.status = "error"
                    /\ Recomputed(j, st, t).next = st.last + Backoff
<1> DEFINE floor == IF Kind[j] # "at" /\ st.status = "error" THEN st.last + Backoff ELSE 0
           next == ComputeNext(j, st, t)
           time == IF next = 0 THEN 0 ELSE Larger(next, floor)
           r == Recomputed(j, st, t)
<1>1. next \in Nat
  BY ComputeNextType
<1>2. st.last \in Nat /\ floor \in Nat
  BY NatFacts DEF StateType
<1>3. time \in Nat /\ (time = 0 <=> next = 0)
  BY <1>1, <1>2 DEF Larger
<1>4. Kind[j] = "cron" => next <= t + Period
  BY SlotAfter DEF ComputeNext
<1>5. ASSUME floor # 0
      PROVE  st.status = "error" /\ floor = st.last + Backoff
  <2>1. Kind[j] # "at" /\ st.status = "error"
    BY <1>5
  <2> QED BY <2>1
<1>6. ASSUME time # next
      PROVE  time = floor /\ floor # 0
  <2>1. next # 0
    BY <1>6
  <2>2. time = Larger(next, floor)
    BY <2>1
  <2> HIDE DEF time, next, floor
  <2> QED BY <1>1, <1>2, <1>6, <2>2 DEF Larger
<1>7. r = [st EXCEPT !.next = time]
  BY DEF Recomputed
<1> HIDE DEF time, floor, r, next
<1>8. /\ r.next = time /\ r.last = st.last /\ r.status = st.status /\ r.ended = st.ended
  BY <1>7 DEF StateType
<1> QED BY <1>3, <1>4, <1>5, <1>6, <1>8 DEF r, next

LEMMA FitRecomputed ==
    ASSUME NEW j \in Jobs, NEW st \in StateType, NEW t \in Nat, Fit(j, st, t)
    PROVE  Fit(j, Recomputed(j, st, t), t)
<1> DEFINE r == Recomputed(j, st, t)
<1>1. /\ r.last = st.last /\ r.running = st.running /\ r.status = st.status /\ r.ended = st.ended
      /\ Kind[j] = "cron" => \/ r.next <= t + Period
                             \/ st.status = "error" /\ r.next = st.last + Backoff
      /\ r.next \in Nat /\ st.last \in Nat /\ st.ended \in Nat
  BY RecomputedFields, RecomputedType DEF StateType
<1> HIDE DEF r
<1>2. Fit(j, r, t)
  BY <1>1, NatFacts DEF Fit
<1> QED BY <1>2 DEF r

LEMMA FitTidy ==
    ASSUME NEW s \in StoreType, NEW j \in Jobs, NEW t \in Nat, Fit(j, s.state[j], t)
    PROVE  Fit(j, Tidy(s, j, t), t)
<1> DEFINE st == s.state[j]
<1>1. st \in StateType
  BY DEF StoreType
<1>2. st.ended \in Nat /\ st.next \in Nat
  BY <1>1 DEF StateType
<1>3. ASSUME NEW x \in StateType, x.last = st.last, x.ended = st.ended, x.status = st.status,
             x.running \in {0, st.running}, x.next \in {0, st.next}
      PROVE  Fit(j, x, t)
  BY <1>2, <1>3, NatFacts DEF Fit
<1>4. /\ [st EXCEPT !.next = 0, !.running = 0] \in StateType
      /\ [st EXCEPT !.next = 0, !.running = 0].last = st.last
      /\ [st EXCEPT !.next = 0, !.running = 0].ended = st.ended
      /\ [st EXCEPT !.next = 0, !.running = 0].status = st.status
      /\ [st EXCEPT !.next = 0, !.running = 0].next = 0
      /\ [st EXCEPT !.next = 0, !.running = 0].running = 0
  BY <1>1, ClearedType DEF StateType
<1>5. /\ [st EXCEPT !.running = 0] \in StateType
      /\ [st EXCEPT !.running = 0].last = st.last
      /\ [st EXCEPT !.running = 0].ended = st.ended
      /\ [st EXCEPT !.running = 0].status = st.status
      /\ [st EXCEPT !.running = 0].next = st.next
      /\ [st EXCEPT !.running = 0].running = 0
  BY <1>1, ClearedType DEF StateType
<1>6. Fit(j, [st EXCEPT !.next = 0, !.running = 0], t)
  BY <1>3, <1>4
<1>7. Fit(j, [st EXCEPT !.running = 0], t)
  BY <1>3, <1>5
<1>8. \/ Tidy(s, j, t) = NoState \/ Tidy(s, j, t) = st
      \/ Tidy(s, j, t) = [st EXCEPT !.next = 0, !.running = 0]
      \/ Tidy(s, j, t) = [st EXCEPT !.running = 0]
  BY DEF Tidy, Unmarked
<1> HIDE DEF st
<1> QED BY <1>6, <1>7, <1>8, NoState0 DEF st

(* The state of a job after a walk. *)
LEMMA Walked ==
    ASSUME NEW s \in StoreType, NEW t \in Nat, NEW again, NEW j \in Jobs
    PROVE  /\ Walk(s, t, again).config = s.config
           /\ Walk(s, t, again).state[j] = Tidy(s, j, t)
              \/ /\ j \in again /\ s.config[j] = "on"
                 /\ Walk(s, t, again).state[j] = Recomputed(j, Tidy(s, j, t), t)
           /\ j \in again /\ s.config[j] = "on" /\ ~IsStuck(s.state[j], t)
                 => Walk(s, t, again).state[j] = Recomputed(j, Tidy(s, j, t), t)
<1> DEFINE skipped == {i \in again : IsStuck(s.state[i], t) /\ ~Executed(s.state[i])}
           after == [i \in Jobs |-> IF s.config[i] = "on" /\ i \in again \ skipped
                                    THEN Recomputed(i, Tidy(s, i, t), t) ELSE Tidy(s, i, t)]
<1>1. Walk(s, t, again) = [s EXCEPT !.state = after]
  BY DEF Walk
<1>2. after[j] = IF s.config[j] = "on" /\ j \in again \ skipped
                 THEN Recomputed(j, Tidy(s, j, t), t) ELSE Tidy(s, j, t)
  OBVIOUS
<1>3. ~IsStuck(s.state[j], t) => j \notin skipped
  OBVIOUS
<1> HIDE DEF after, skipped
<1>4. Walk(s, t, again).config = s.config /\ Walk(s, t, again).state = after
  BY <1>1 DEF StoreType
<1> QED BY <1>2, <1>3, <1>4

LEMMA FitsWalk ==
    ASSUME NEW s \in StoreType, NEW t \in Nat, NEW again, Fits(s, t)
    PROVE  Fits(Walk(s, t, again), t)
<1> SUFFICES ASSUME NEW j \in Jobs PROVE Fit(j, Walk(s, t, again).state[j], t)
  BY DEF Fits
<1>1. Fit(j, Tidy(s, j, t), t)
  BY FitTidy DEF Fits
<1>2. Fit(j, Recomputed(j, Tidy(s, j, t), t), t)
  BY <1>1, FitRecomputed, TidyType
<1> QED BY <1>1, <1>2, Walked

----------------------------------------------------------------------------
(* What a job is in a store, and what the maintenance makes of it.           *)

(* A job that is not there has no state, a disabled one no next run; and it  *)
(* has no marker, unless a restart left one.                                 *)
Inert(s, j) ==
    /\ s.config[j] = "none" => s.state[j] = NoState
    /\ s.config[j] = "off" => s.state[j].next = 0
Asleep(s, j) == s.config[j] = "off" => s.state[j].running = 0

(* An enabled job has a next run, unless it is a one-shot that was run.      *)
Planned(s, j) ==
    s.config[j] = "on" /\ s.state[j].next = 0 =>
        Kind[j] = "at" /\ s.state[j].status = "ok" /\ AtTime <= s.state[j].last

(* A job that is owed the slot p is marked, or its next run is not later.    *)
Carried(s, j, p) ==
    /\ s.config[j] = "on"
    /\ \/ s.state[j].running # 0
       \/ s.state[j].next \in 1..p /\ ~Executed(s.state[j])

(* Two stores that have the same of a job, but for the time of its marker.   *)
Like(s, w, j) ==
    /\ s.config[j] = w.config[j]
    /\ s.state[j].running = 0 <=> w.state[j].running = 0
    /\ s.state[j].next = w.state[j].next /\ s.state[j].last = w.state[j].last
    /\ s.state[j].status = w.state[j].status
    /\ s.config[j] = "none" => s.state[j] = w.state[j]

LEMMA LikeMeans ==
    ASSUME NEW s, NEW w, NEW j, Like(s, w, j)
    PROVE  /\ Like(w, s, j)
           /\ Inert(s, j) => Inert(w, j)
           /\ Asleep(s, j) => Asleep(w, j)
           /\ Planned(s, j) => Planned(w, j)
           /\ \A p : Carried(s, j, p) => Carried(w, j, p)
  BY DEF Like, Inert, Asleep, Planned, Carried, Executed

LEMMA LikeChain ==
    ASSUME NEW s, NEW w, NEW v, NEW j, Like(s, w, j), Like(w, v, j)
    PROVE  Like(s, v, j)
  BY DEF Like

LEMMA TidyCases ==
    ASSUME NEW s \in StoreType, NEW j \in Jobs, NEW t \in Nat
    PROVE  /\ s.config[j] = "none" => Tidy(s, j, t) = NoState
           /\ s.config[j] = "off" => /\ Tidy(s, j, t).next = 0 /\ Tidy(s, j, t).running = 0
                                     /\ Tidy(s, j, t).last = s.state[j].last
                                     /\ Tidy(s, j, t).status = s.state[j].status
           /\ s.config[j] = "on" /\ ~IsStuck(s.state[j], t) => Tidy(s, j, t) = s.state[j]
<1>1. s.state[j] \in StateType
  BY DEF StoreType
<1>2. CASE s.config[j] = "off"
  <2>1. Tidy(s, j, t) = [s.state[j] EXCEPT !.next = 0, !.running = 0]
    BY <1>2 DEF Tidy
  <2> QED BY <1>1, <1>2, <2>1 DEF StateType
<1>3. CASE s.config[j] # "off"
  BY <1>3 DEF Tidy
<1> QED BY <1>2, <1>3

LEMMA NeverNext ==
    ASSUME NEW j \in Jobs, NEW st \in StateType, NEW t \in Nat
    PROVE  ComputeNext(j, st, t) = 0 <=> Kind[j] = "at" /\ st.status = "ok" /\ AtTime <= st.last
<1>1. NextSlot(t) # 0
  BY SlotAfter
<1>2. Larger(1, (t + Period - 1) \div Period) * Period # 0
  BY NonZeroSlot
<1>3. st.last # 0 => st.last + Period # 0
  BY NatFacts DEF StateType
<1>4. AtTime # 0
  BY NatFacts
<1>5. CASE Kind[j] = "cron"
  BY <1>1, <1>5 DEF ComputeNext
<1>6. CASE Kind[j] = "every"
  <2> DEFINE later == Larger(1, (t + Period - 1) \div Period) * Period
  <2>1. ComputeNext(j, st, t) = IF st.last # 0 /\ st.last + Period > t THEN st.last + Period ELSE later
    BY <1>6 DEF ComputeNext
  <2> HIDE DEF later
  <2>2. later # 0
    BY <1>2 DEF later
  <2> QED BY <1>3, <1>6, <2>1, <2>2
<1>7. CASE Kind[j] = "at"
  BY <1>4, <1>7 DEF ComputeNext
<1> QED BY <1>5, <1>6, <1>7, KindFact

(* A walk that computes again what has no next run, and nothing that is      *)
(* owed, leaves every job as it should be.                                   *)
LEMMA WalkGood ==
    ASSUME NEW s \in StoreType, NEW t \in Nat, NEW again, NEW j \in Jobs,
           ~IsStuck(s.state[j], t),
           s.config[j] = "on" /\ s.state[j].next = 0 => j \in again
    PROVE  /\ Walk(s, t, again).config[j] = s.config[j]
           /\ Inert(Walk(s, t, again), j) /\ Asleep(Walk(s, t, again), j)
           /\ Planned(Walk(s, t, again), j)
           /\ \A p : Carried(s, j, p) /\ (s.state[j].running = 0 => j \notin again)
                        => Carried(Walk(s, t, again), j, p)
<1> DEFINE w == Walk(s, t, again)
           st == Tidy(s, j, t)
<1>1. s.state[j] \in StateType /\ st \in StateType
  BY TidyType DEF StoreType
<1>2. /\ w.config = s.config
      /\ w.state[j] = st \/ /\ j \in again /\ s.config[j] = "on"
                            /\ w.state[j] = Recomputed(j, st, t)
      /\ j \in again /\ s.config[j] = "on" => w.state[j] = Recomputed(j, st, t)
  BY Walked
<1>3. /\ s.config[j] = "none" => st = NoState
      /\ s.config[j] = "off" => st.next = 0 /\ st.running = 0
      /\ s.config[j] = "on" => st = s.state[j]
  BY TidyCases
<1> HIDE DEF w, st
<1>4. Inert(w, j) /\ Asleep(w, j)
  BY <1>2, <1>3 DEF Inert, Asleep
<1>5. Planned(w, j)
  <2> SUFFICES ASSUME w.config[j] = "on", w.state[j].next = 0
               PROVE  Kind[j] = "at" /\ w.state[j].status = "ok" /\ AtTime <= w.state[j].last
    BY DEF Planned
  <2>1. s.config[j] = "on" /\ st = s.state[j]
    BY <1>2, <1>3
  <2>2. w.state[j] = Recomputed(j, st, t)
    BY <1>2, <2>1
  <2>3. /\ Recomputed(j, st, t).next = 0 => ComputeNext(j, st, t) = 0
        /\ Recomputed(j, st, t).last = st.last /\ Recomputed(j, st, t).status = st.status
    BY <1>1, RecomputedFields
  <2> QED BY <1>1, <2>2, <2>3, NeverNext
<1>6. ASSUME NEW p, Carried(s, j, p), s.state[j].running = 0 => j \notin again
      PROVE  Carried(w, j, p)
  <2>1. s.config[j] = "on" /\ w.config[j] = "on" /\ st = s.state[j]
    BY <1>2, <1>3, <1>6 DEF Carried
  <2>2. CASE s.state[j].running # 0
    <3>1. w.state[j].running # 0
      BY <1>1, <1>2, <2>1, <2>2, RecomputedType
    <3> QED BY <2>1, <3>1 DEF Carried
  <2>3. CASE s.state[j].running = 0
    <3>1. w.state[j] = s.state[j]
      BY <1>2, <1>6, <2>1, <2>3
    <3> QED BY <1>6, <2>1, <3>1 DEF Carried
  <2> QED BY <2>2, <2>3
<1> QED BY <1>2, <1>4, <1>5, <1>6 DEF w

LEMMA MaintenanceFits ==
    ASSUME NEW s \in StoreType, NEW t \in Nat, NEW e, NEW r, Fits(s, t)
    PROVE  Fits(Maintenance(s, t, e, r), t)
<1> DEFINE Again(j) == \E st \in {Tidy(s, j, t)} :
            \/ st.next = 0
            \/ r /\ NeedsRepair(j, st, t)
            \/ e /\ st.next <= t /\ st.running = 0 /\ Executed(st)
<1>1. Maintenance(s, t, e, r) = Walk(s, t, {j \in Jobs : Again(j)})
  BY DEF Maintenance
<1> HIDE DEF Again
<1> QED BY <1>1, FitsWalk

LEMMA MaintenanceGood ==
    ASSUME Unrepaired, NEW s \in StoreType, NEW t \in Nat, NEW e \in BOOLEAN, NEW r \in BOOLEAN,
           NEW j \in Jobs, ~IsStuck(s.state[j], t), Fit(j, s.state[j], t)
    PROVE  LET w == Maintenance(s, t, e, r) IN
           /\ w.config[j] = s.config[j]
           /\ Inert(w, j) /\ Asleep(w, j) /\ Planned(w, j)
           /\ \A p : Carried(s, j, p) => Carried(w, j, p)
           /\ ~e /\ Inert(s, j) /\ Asleep(s, j) /\ Planned(s, j) => Like(w, s, j)
<1> DEFINE Again(i) == \E st \in {Tidy(s, i, t)} :
            \/ st.next = 0
            \/ r /\ NeedsRepair(i, st, t)
            \/ e /\ st.next <= t /\ st.running = 0 /\ Executed(st)
           again == {i \in Jobs : Again(i)}
           w == Maintenance(s, t, e, r)
<1>1. w = Walk(s, t, again)
  BY DEF Maintenance
<1>2. s.state[j] \in StateType
  BY DEF StoreType
<1>3. s.config[j] = "on" => Tidy(s, j, t) = s.state[j]
  BY TidyCases
<1>4. s.config[j] = "on" =>
        (j \in again <=> \/ s.state[j].next = 0
                         \/ e /\ s.state[j].next <= t /\ s.state[j].running = 0
                              /\ Executed(s.state[j]))
  <2>1. ~NeedsRepair(j, s.state[j], t)
    BY <1>2, NoRepair
  <2> QED BY <1>3, <2>1
<1> HIDE DEF again, w
<1>5. /\ Walk(s, t, again).config[j] = s.config[j]
      /\ Inert(Walk(s, t, again), j) /\ Asleep(Walk(s, t, again), j)
      /\ Planned(Walk(s, t, again), j)
      /\ \A p : Carried(s, j, p) /\ (s.state[j].running = 0 => j \notin again)
                   => Carried(Walk(s, t, again), j, p)
  BY <1>4, WalkGood
<1>6. ASSUME NEW p, Carried(s, j, p)
      PROVE  Carried(w, j, p)
  <2>1. s.state[j].running = 0 => j \notin again
    BY <1>2, <1>4, <1>6 DEF Carried
  <2> QED BY <1>1, <1>5, <1>6, <2>1
<1>7. ASSUME ~e, Inert(s, j), Asleep(s, j), Planned(s, j)
      PROVE  Like(w, s, j)
  <2>1. /\ w.config[j] = s.config[j]
        /\ w.state[j] = Tidy(s, j, t)
           \/ /\ j \in again /\ s.config[j] = "on"
              /\ w.state[j] = Recomputed(j, Tidy(s, j, t), t)
    BY <1>1, <1>5, Walked
  <2>2. CASE w.state[j] = Tidy(s, j, t)
    <3>1. s.config[j] \in {"on", "off", "none"}
      BY DEF StoreType
    <3>2. CASE s.config[j] = "none"
      BY <1>7, <2>1, <2>2, <3>2, TidyCases DEF Like, Inert
    <3>3. CASE s.config[j] = "off"
      BY <1>7, <2>1, <2>2, <3>3, TidyCases DEF Like, Inert, Asleep
    <3>4. CASE s.config[j] = "on"
      BY <2>1, <2>2, <3>4, TidyCases DEF Like
    <3> QED BY <3>1, <3>2, <3>3, <3>4
  <2>3. CASE /\ j \in again /\ s.config[j] = "on"
             /\ w.state[j] = Recomputed(j, Tidy(s, j, t), t)
    <3>1. s.state[j].next = 0 /\ w.state[j] = Recomputed(j, s.state[j], t)
      BY <1>3, <1>4, <1>7, <2>3
    <3>2. ComputeNext(j, s.state[j], t) = 0
      BY <1>2, <1>7, <2>3, <3>1, NeverNext DEF Planned
    <3>3. /\ Recomputed(j, s.state[j], t).next = 0
          /\ Recomputed(j, s.state[j], t).last = s.state[j].last
          /\ Recomputed(j, s.state[j], t).status = s.state[j].status
          /\ Recomputed(j, s.state[j], t).running = s.state[j].running
      BY <1>2, <3>2, RecomputedFields, RecomputedType
    <3> QED BY <2>1, <2>3, <3>1, <3>3 DEF Like
  <2> QED BY <2>1, <2>2, <2>3
<1> QED BY <1>1, <1>5, <1>6, <1>7 DEF w

----------------------------------------------------------------------------
(* The files, the restart and the results.                                   *)

LEMMA LoadedFits ==
    ASSUME Typed, Fits(disk, now)
    PROVE  /\ Fits(Loaded, now)
           /\ \A j \in Jobs : Like(disk, mem, j) /\ Inert(mem, j) => Like(Loaded, mem, j)
<1>1. \A j \in Jobs : Loaded.state[j] = IF disk.config[j] = "none" THEN NoState ELSE disk.state[j]
  BY LoadedFacts
<1>2. Loaded.config = disk.config
  BY LoadedFacts
<1>3. Fits(Loaded, now)
  BY <1>1, NoState0, NowFact DEF Fits
<1>4. ASSUME NEW j \in Jobs, Like(disk, mem, j), Inert(mem, j)
      PROVE  Like(Loaded, mem, j)
  <2>1. CASE disk.config[j] = "none"
    <3>1. mem.config[j] = "none" /\ mem.state[j] = NoState /\ Loaded.state[j] = NoState
      BY <1>1, <1>4, <2>1 DEF Like, Inert
    <3> QED BY <1>2, <2>1, <3>1 DEF Like
  <2>2. CASE disk.config[j] # "none"
    BY <1>1, <1>2, <1>4, <2>2 DEF Like
  <2> QED BY <2>1, <2>2
<1> QED BY <1>3, <1>4

LEMMA BootFits ==
    ASSUME Typed, Fits(disk, now)
    PROVE  /\ Fits(BootStore, now)
           /\ \A j \in Jobs : BootStore.state[j].running = 0
           /\ \A j \in Jobs : Inert(Loaded, j) => Inert(BootStore, j)
<1> DEFINE config == [j \in Jobs |-> IF j \in Interrupted /\ Kind[j] = "at" THEN "off"
                                     ELSE Loaded.config[j]]
           Failed1(st) == [st EXCEPT !.running = 0, !.last = st.running, !.ended = now,
                                     !.status = "error", !.next = 0,
                                     !.errors = IF @ > MaxRetries THEN @ ELSE @ + 1]
           state == [j \in Jobs |-> LET st == Loaded.state[j] IN
                    IF j \notin Interrupted THEN st ELSE Failed1(st)]
<1>1. BootStore.config = config /\ BootStore.state = state
  BY DEF BootStore
<1>2. ASSUME NEW st \in StateType, st.running <= now
      PROVE  /\ Failed1(st).running = 0 /\ Failed1(st).last = st.running
             /\ Failed1(st).ended = now /\ Failed1(st).status = "error" /\ Failed1(st).next = 0
  BY <1>2 DEF StateType
<1>3. ASSUME NEW j \in Jobs
      PROVE  /\ Loaded.state[j] \in StateType
             /\ state[j] = IF j \notin Interrupted THEN Loaded.state[j] ELSE Failed1(Loaded.state[j])
             /\ config[j] = IF j \in Interrupted /\ Kind[j] = "at" THEN "off" ELSE Loaded.config[j]
             /\ Fit(j, Loaded.state[j], now)
             /\ j \in Interrupted <=> Loaded.state[j].running # 0
  BY LoadedFacts, LoadedFits DEF StoreType, Fits, Interrupted
<1> HIDE DEF state, config, Failed1
<1>4. ASSUME NEW j \in Jobs
      PROVE  Fit(j, state[j], now) /\ state[j].running = 0
  <2>1. CASE j \notin Interrupted
    BY <1>3, <2>1
  <2>2. CASE j \in Interrupted
    <3> DEFINE st == Loaded.state[j]
    <3>1. st \in StateType /\ st.running \in Nat /\ st.running <= now /\ state[j] = Failed1(st)
      BY <1>3, <2>2 DEF Fit, StateType
    <3> HIDE DEF st
    <3> QED BY <1>2, <3>1, NatFacts, NowFact DEF Fit
  <2> QED BY <2>1, <2>2
<1>5. ASSUME NEW j \in Jobs, Inert(Loaded, j)
      PROVE  Inert(BootStore, j)
  <2>1. CASE j \notin Interrupted
    BY <1>1, <1>3, <1>5, <2>1 DEF Inert
  <2>2. CASE j \in Interrupted
    <3>1. state[j].next = 0
      BY <1>2, <1>3, <2>2 DEF Fit
    <3>2. Loaded.config[j] # "none"
      BY <1>3, <1>5, <2>2, NoStateType DEF Inert
    <3>3. config[j] # "none"
      BY <1>3, <3>2
    <3> QED BY <1>1, <3>1, <3>3 DEF Inert
  <2> QED BY <2>1, <2>2
<1> QED BY <1>1, <1>4, <1>5 DEF Fits

LEMMA MarkedFits ==
    ASSUME Typed, NEW s \in StoreType, NEW due
    PROVE  /\ Fits(s, now) => Fits(Marked(s, due), now)
           /\ \A j \in Jobs : (j \in due => s.config[j] = "on") =>
                /\ Inert(s, j) => Inert(Marked(s, due), j)
                /\ Asleep(s, j) => Asleep(Marked(s, due), j)
                /\ Planned(s, j) => Planned(Marked(s, due), j)
                /\ \A p : Carried(s, j, p) => Carried(Marked(s, due), j, p)
<1> DEFINE w == Marked(s, due)
           M(st) == [st EXCEPT !.running = now]
<1>1. ASSUME NEW j \in Jobs
      PROVE  /\ w.config[j] = s.config[j]
             /\ w.state[j] = IF j \in due THEN M(s.state[j]) ELSE s.state[j]
             /\ s.state[j] \in StateType
  BY DEF Marked, StoreType
<1>2. ASSUME NEW st \in StateType
      PROVE  /\ M(st).running = now /\ M(st).next = st.next /\ M(st).last = st.last
             /\ M(st).status = st.status /\ M(st).ended = st.ended
  BY DEF StateType
<1> HIDE DEF w, M
<1>3. ASSUME NEW j \in Jobs, Fit(j, s.state[j], now)
      PROVE  Fit(j, w.state[j], now)
  <2>1. CASE j \in due
    BY <1>1, <1>2, <1>3, <2>1, NowFact DEF Fit
  <2>2. CASE j \notin due
    BY <1>1, <1>3, <2>2
  <2> QED BY <2>1, <2>2
<1>4. ASSUME NEW j \in Jobs, j \in due => s.config[j] = "on"
      PROVE  /\ Inert(s, j) => Inert(w, j)
             /\ Asleep(s, j) => Asleep(w, j)
             /\ Planned(s, j) => Planned(w, j)
             /\ \A p : Carried(s, j, p) => Carried(w, j, p)
  <2>1. CASE j \notin due
    BY <1>1, <2>1 DEF Inert, Asleep, Planned, Carried
  <2>2. CASE j \in due
    <3>1. w.config[j] = "on" /\ w.state[j] = M(s.state[j]) /\ s.config[j] = "on"
      BY <1>1, <1>4, <2>2
    <3>2. w.state[j].running # 0
      BY <1>1, <1>2, <3>1, NowFact
    <3>3. Planned(s, j) => Planned(w, j)
      BY <1>1, <1>2, <3>1 DEF Planned
    <3> QED BY <3>1, <3>2, <3>3 DEF Inert, Asleep, Carried
  <2> QED BY <2>1, <2>2
<1> QED BY <1>3, <1>4 DEF w, Fits

----------------------------------------------------------------------------
RunTimes ==
    \A r \in Runners, j \in Jobs :
        /\ run[r][j].start <= now /\ run[r][j].end <= now
        /\ run[r][j].pc = "ended" => run[r][j].start <= run[r][j].end

LEMMA ResultFits ==
    ASSUME NEW s \in StoreType, NEW j \in Jobs, NEW res \in RunType, NEW preserve \in BOOLEAN,
           NEW t \in Nat, Fit(j, s.state[j], t),
           res.start <= res.end, res.end <= t
    PROVE  Fit(j, ApplyResult(s, j, res, preserve).state[j], t)
<1> DEFINE old == s.state[j]
           st == [old EXCEPT !.running = 0, !.last = res.start, !.ended = res.end,
                             !.status = IF Failed(res.status) THEN "error" ELSE res.status,
                             !.errors = IF Failed(res.status)
                                        THEN IF @ > MaxRetries THEN @ ELSE @ + 1 ELSE 0]
           basis == IF preserve /\ Kind[j] = "every" THEN [st EXCEPT !.last = old.last] ELSE st
           natural == ComputeNext(j, basis, res.end)
           next == IF Failed(res.status) THEN Larger(natural, res.end + Backoff) ELSE natural
           After(config, time) == [s EXCEPT !.config[j] = config,
                                            !.state[j] = [st EXCEPT !.next = time]]
           result == ApplyResult(s, j, res, preserve)
<1>1. old \in StateType /\ s.config[j] \in {"on", "off", "none"}
  BY DEF StoreType
<1>2. /\ st.running = 0 /\ st.last = res.start /\ st.ended = res.end
      /\ Failed(res.status) => st.status = "error"
      /\ ~Failed(res.status) => st.status # "error"
      /\ res.start \in Nat /\ res.end \in Nat
  BY <1>1 DEF StateType, RunType, Failed
<1>3. st \in StateType
  <2> DEFINE c == IF Failed(res.status) THEN "error" ELSE res.status
             e == IF Failed(res.status)
                  THEN IF old.errors > MaxRetries THEN old.errors ELSE old.errors + 1 ELSE 0
  <2>1. c \in {"none", "ok", "error"} /\ res.start \in Nat /\ res.end \in Nat
    BY DEF RunType, Failed
  <2>2. e \in 0..MaxRetries + 1
    BY <1>1, NatFacts DEF StateType
  <2>3. st = [old EXCEPT !.running = 0, !.last = res.start, !.ended = res.end,
                         !.status = c, !.errors = e]
    BY <1>1 DEF StateType
  <2> HIDE DEF st, old, c, e
  <2> QED BY <1>1, <2>1, <2>2, <2>3 DEF StateType
<1>4. Kind[j] = "cron" => natural \in Nat /\ natural <= res.end + Period
  BY <1>2, SlotAfter DEF ComputeNext
<1> HIDE DEF st, basis, natural
<1>5. ASSUME Kind[j] = "cron"
      PROVE  \/ next <= t + 2 * Period
             \/ st.status = "error" /\ next <= st.ended + Backoff
  <2>1. CASE Failed(res.status)
    <3>1. next = Larger(natural, res.end + Backoff) /\ st.status = "error"
      BY <1>2, <2>1
    <3> HIDE DEF next
    <3>2. next = natural \/ next = st.ended + Backoff
      BY <1>2, <3>1 DEF Larger
    <3>3. CASE next = natural
      BY <1>2, <1>4, <1>5, <3>3, NatFacts
    <3>4. CASE next = st.ended + Backoff
      <4>1. next <= st.ended + Backoff
        BY <1>2, <3>4, NatFacts
      <4> QED BY <3>1, <4>1
    <3> QED BY <3>2, <3>3, <3>4
  <2>2. CASE ~Failed(res.status)
    <3>1. next = natural
      BY <2>2
    <3> HIDE DEF next
    <3> QED BY <1>2, <1>4, <1>5, <3>1, NatFacts
  <2> QED BY <2>1, <2>2
<1> HIDE DEF next
<1>6. ASSUME NEW config, NEW time, result = After(config, time),
             Kind[j] = "cron" => \/ time <= t + 2 * Period
                                 \/ st.status = "error" /\ time <= st.ended + Backoff
      PROVE  Fit(j, result.state[j], t)
  <2>1. result.state[j] = [st EXCEPT !.next = time]
    BY <1>6 DEF StoreType
  <2> DEFINE x == [st EXCEPT !.next = time]
  <2>2. x.next = time /\ x.running = st.running /\ x.last = st.last /\ x.ended = st.ended
        /\ x.status = st.status
    BY <1>3 DEF StateType
  <2> HIDE DEF x, result
  <2>3. Fit(j, x, t)
    BY <1>2, <1>6, <2>2 DEF Fit
  <2> QED BY <2>1, <2>3 DEF x
<1>7. result = IF s.config[j] = "none" THEN s
               ELSE IF Kind[j] = "at" /\ j \in DeleteAfterRun /\ res.status = "ok" THEN Deleted(s, j)
               ELSE IF Kind[j] = "at" /\ Retried(j, res, old)
                    THEN After(s.config[j], res.end + Backoff)
               ELSE IF Kind[j] = "at" THEN After("off", 0)
               ELSE After(s.config[j], IF s.config[j] = "on" THEN next ELSE 0)
  BY DEF ApplyResult, st, next, natural, basis
<1>8. Deleted(s, j).state[j] = NoState
  BY DEF Deleted, StoreType
<1> SUFFICES Fit(j, result.state[j], t)
  OBVIOUS
<1> HIDE DEF result, After
<1>a. CASE s.config[j] = "none"
  BY <1>7, <1>a
<1>b. CASE s.config[j] # "none" /\ Kind[j] = "at"
  <2>1. \/ result = Deleted(s, j)
        \/ result = After(s.config[j], res.end + Backoff)
        \/ result = After("off", 0)
    BY <1>7, <1>b
  <2>2. Kind[j] # "cron"
    BY <1>b
  <2> QED BY <1>6, <1>8, <2>1, <2>2, NoState0
<1>c. CASE s.config[j] # "none" /\ Kind[j] # "at" /\ s.config[j] = "on"
  <2>1. result = After(s.config[j], next)
    BY <1>7, <1>c
  <2>2. Kind[j] = "cron" => \/ next <= t + 2 * Period
                            \/ st.status = "error" /\ next <= st.ended + Backoff
    BY <1>5
  <2> QED BY <1>6, <2>1, <2>2
<1>d. CASE s.config[j] # "none" /\ Kind[j] # "at" /\ s.config[j] # "on"
  <2>1. 0 <= t + 2 * Period
    BY NatFacts
  <2>2. result = After(s.config[j], 0)
    BY <1>7, <1>d
  <2> QED BY <1>6, <2>1, <2>2
<1> QED BY <1>a, <1>b, <1>c, <1>d

LEMMA AllFit ==
    ASSUME Typed, RunTimes, NEW s \in StoreType, NEW r \in Runners, Fits(s, now)
    PROVE  Fits(ApplyAll(s, r), now)
<1> DEFINE Applied(j) == ApplyResult(s, j, run[r][j], r \in Forced)
<1>1. \A j \in Jobs : ApplyAll(s, r).state[j] = IF j \in Ended(r) THEN Applied(j).state[j]
                                                ELSE s.state[j]
  BY DEF ApplyAll
<1>2. ASSUME NEW j \in Jobs, j \in Ended(r)
      PROVE  Fit(j, Applied(j).state[j], now)
  <2>1. /\ run[r][j] \in RunType /\ (r \in Forced) \in BOOLEAN
        /\ run[r][j].start <= run[r][j].end /\ run[r][j].end <= now
    BY <1>2 DEF Typed, RunTimes, Ended
  <2> QED BY <2>1, ResultFits, NowFact DEF Fits
<1> HIDE DEF Applied
<1> QED BY <1>1, <1>2 DEF Fits

(* The results of a runner leave the other jobs alone.                       *)
LEMMA OthersCarried ==
    ASSUME Typed, NEW s \in StoreType, NEW r \in Runners, NEW j \in Jobs, NEW p,
           Carried(s, j, p), j \notin Ended(r)
    PROVE  Carried(ApplyAll(s, r), j, p)
  BY AllApplied DEF Settled, Carried, Typed

----------------------------------------------------------------------------
(* The sections of the startup and of the timer.                             *)

(* The store w has of a job all that matters of it in the store s.           *)
Keeps(s, w, j) ==
    /\ Inert(s, j) => Inert(w, j)
    /\ Asleep(s, j) => Asleep(w, j)
    /\ Planned(s, j) => Planned(w, j)
    /\ \A p : Carried(s, j, p) => Carried(w, j, p)

(* ... and it is as it should be whatever it was.                            *)
Tidied(s, w, j) ==
    /\ Inert(w, j) /\ Asleep(w, j) /\ Planned(w, j)
    /\ \A p : Carried(s, j, p) => Carried(w, j, p)

LEMMA StartedSlots ==
    ASSUME Unrepaired, Typed, Fits(mem, now)
    PROVE  /\ Fits(StartedStore, now)
           /\ \A j \in Jobs : ~IsStuck(mem.state[j], now) => Tidied(mem, StartedStore, j)
<1>1. mem \in StoreType /\ now \in Nat
  BY NowFact DEF Typed
<1>2. \A j \in Jobs : Fit(j, mem.state[j], now)
  BY DEF Fits
<1> QED BY <1>1, <1>2, MaintenanceFits, MaintenanceGood DEF StartedStore, Tidied

LEMMA TickSlots ==
    ASSUME Unrepaired, Typed, Fits(disk, now)
    PROVE  /\ Fits(TickStore, now)
           /\ \A j \in Jobs : (Due = {} => ~IsStuck(Loaded.state[j], now)) =>
                    Keeps(Loaded, TickStore, j)
<1>1. Loaded \in StoreType /\ now \in Nat /\ Fits(Loaded, now)
  BY LoadedFacts, LoadedFits, NowFact
<1>2. CASE Due = {}
  <2>1. TickStore = Maintenance(Loaded, now, TRUE, TRUE)
    BY <1>2 DEF TickStore
  <2>2. Fits(TickStore, now)
    BY <1>1, <2>1, MaintenanceFits
  <2>3. ASSUME NEW j \in Jobs, ~IsStuck(Loaded.state[j], now)
        PROVE  Keeps(Loaded, TickStore, j)
    <3>1. Fit(j, Loaded.state[j], now)
      BY <1>1 DEF Fits
    <3> QED BY <1>1, <2>1, <2>3, <3>1, MaintenanceGood DEF Keeps
  <2> QED BY <1>2, <2>2, <2>3
<1>3. CASE Due # {}
  <2>1. TickStore = Marked(Loaded, Due)
    BY <1>3 DEF TickStore
  <2>2. \A j \in Due : Loaded.config[j] = "on"
    BY DEF Due, Runnable
  <2>3. Fits(Marked(Loaded, Due), now)
    BY <1>1, MarkedFits
  <2>4. \A j \in Jobs : Keeps(Loaded, Marked(Loaded, Due), j)
    BY <1>1, <2>2, MarkedFits DEF Keeps
  <2> QED BY <2>1, <2>3, <2>4
<1> QED BY <1>2, <1>3

LEMMA TickedSlots ==
    ASSUME Unrepaired, Typed, RunTimes, Fits(disk, now)
    PROVE  /\ Fits(TickedStore, now)
           /\ \A j \in Jobs : ~IsStuck(ApplyAll(Loaded, "tick").state[j], now) =>
                /\ Inert(TickedStore, j) /\ Asleep(TickedStore, j) /\ Planned(TickedStore, j)
                /\ j \notin Ended("tick") =>
                      \A p : Carried(Loaded, j, p) => Carried(TickedStore, j, p)
<1> DEFINE s == ApplyAll(Loaded, "tick")
<1>1. Loaded \in StoreType /\ now \in Nat /\ Fits(Loaded, now) /\ "tick" \in Runners
  BY LoadedFacts, LoadedFits, NowFact, ManualFacts
<1>2. s \in StoreType /\ Fits(s, now)
  BY <1>1, AllFit, AllApplied DEF Settled, Typed
<1>3. TickedStore = Maintenance(s, now, FALSE, TRUE)
  BY DEF TickedStore
<1>4. \A j \in Jobs : \A p : Carried(Loaded, j, p) /\ j \notin Ended("tick") => Carried(s, j, p)
  BY <1>1, OthersCarried
<1> HIDE DEF s
<1>5. Fits(TickedStore, now)
  BY <1>1, <1>2, <1>3, MaintenanceFits
<1>6. ASSUME NEW j \in Jobs, ~IsStuck(s.state[j], now)
      PROVE  /\ Inert(TickedStore, j) /\ Asleep(TickedStore, j) /\ Planned(TickedStore, j)
             /\ \A p : Carried(s, j, p) => Carried(TickedStore, j, p)
  <2>1. Fit(j, s.state[j], now)
    BY <1>2 DEF Fits
  <2> QED BY <1>1, <1>2, <1>3, <1>6, <2>1, MaintenanceGood
<1> QED BY <1>4, <1>5, <1>6 DEF s

(* What is put off at startup is due a stagger later, and then for the first *)
(* time since it was run.                                                    *)
LEMMA CaughtUpSlots ==
    ASSUME Unrepaired, Typed, RunTimes, Fits(mem, now)
    PROVE  /\ Fits(CaughtUpStore, now)
           /\ \A j \in Jobs : ~IsStuck(ApplyAll(mem, "start").state[j], now) =>
                /\ Inert(CaughtUpStore, j) /\ Asleep(CaughtUpStore, j) /\ Planned(CaughtUpStore, j)
                /\ j \in PutOff(ApplyAll(mem, "start")) => Carried(CaughtUpStore, j, now + Stagger)
                /\ j \notin Ended("start") /\ j \notin PutOff(ApplyAll(mem, "start")) =>
                      \A p : Carried(mem, j, p) => Carried(CaughtUpStore, j, p)
<1> DEFINE s == ApplyAll(mem, "start")
           put == PutOff(s)
           Later(st) == [st EXCEPT !.next = now + Stagger]
           state == [j \in Jobs |-> IF j \in put THEN Later(s.state[j]) ELSE s.state[j]]
           deferred == [s EXCEPT !.state = state]
<1>1. mem \in StoreType /\ now \in Nat /\ Stagger \in Nat /\ Stagger # 0 /\ "start" \in Runners
  BY NowFact, NatFacts, ManualFacts DEF Typed, Unrepaired
<1>2. s \in StoreType /\ Fits(s, now)
  BY <1>1, AllFit, AllApplied DEF Settled, Typed
<1>3. \A j \in Jobs : \A p : Carried(mem, j, p) /\ j \notin Ended("start") => Carried(s, j, p)
  BY <1>1, OthersCarried
<1>4. \A j \in put : s.config[j] = "on"
  BY DEF PutOff
<1> HIDE DEF s, put
<1>5. CaughtUpStore = Maintenance(deferred, now, FALSE, FALSE)
  BY <1>2 DEF CaughtUpStore, s, put, StoreType
<1>6. ASSUME NEW st \in StateType
      PROVE  /\ Later(st) \in StateType
             /\ Later(st).next = now + Stagger /\ Later(st).last = st.last
             /\ Later(st).running = st.running /\ Later(st).status = st.status
             /\ Later(st).ended = st.ended
  BY <1>1 DEF StateType
<1> HIDE DEF Later
<1>7. ASSUME NEW j \in Jobs
      PROVE  /\ s.state[j] \in StateType /\ state[j] \in StateType
             /\ state[j] = IF j \in put THEN Later(s.state[j]) ELSE s.state[j]
  BY <1>2, <1>6 DEF StoreType
<1>8. state \in [Jobs -> StateType]
  <2>1. state = [j \in Jobs |-> state[j]]
    OBVIOUS
  <2> HIDE DEF state
  <2> QED BY <1>7, <2>1
<1> HIDE DEF state
<1>9. deferred \in StoreType /\ deferred.config = s.config /\ deferred.state = state
  BY <1>2, <1>8 DEF StoreType
<1> HIDE DEF deferred
<1>10. ASSUME NEW j \in Jobs
       PROVE  Fit(j, deferred.state[j], now)
  <2>1. CASE j \in put
    <3> DEFINE st == s.state[j]
    <3>1. Fit(j, st, now) /\ st \in StateType
      BY <1>2, <1>7 DEF Fits
    <3>2. deferred.state[j] = Later(st)
      BY <1>7, <1>9, <2>1
    <3>3. Later(st).next <= now + 2 * Period
      BY <1>1, <1>6, <3>1, NatFacts DEF Unrepaired
    <3> HIDE DEF st
    <3> QED BY <1>6, <3>1, <3>2, <3>3 DEF Fit
  <2>2. CASE j \notin put
    BY <1>2, <1>7, <1>9, <2>2 DEF Fits
  <2> QED BY <2>1, <2>2
<1>11. Fits(CaughtUpStore, now)
  BY <1>1, <1>5, <1>9, <1>10, MaintenanceFits DEF Fits
<1>12. ASSUME NEW j \in Jobs, ~IsStuck(s.state[j], now)
       PROVE  /\ Inert(CaughtUpStore, j) /\ Asleep(CaughtUpStore, j) /\ Planned(CaughtUpStore, j)
              /\ \A p : Carried(deferred, j, p) => Carried(CaughtUpStore, j, p)
  <2>1. deferred.state[j].running = s.state[j].running
    BY <1>6, <1>7, <1>9
  <2>2. ~IsStuck(deferred.state[j], now)
    BY <1>12, <2>1 DEF IsStuck
  <2> QED BY <1>1, <1>5, <1>9, <1>10, <2>2, MaintenanceGood
<1>13. ASSUME NEW j \in Jobs, j \in put
       PROVE  Carried(deferred, j, now + Stagger)
  <2>1. deferred.state[j] = Later(s.state[j]) /\ s.state[j] \in StateType
    BY <1>7, <1>9, <1>13
  <2>2. deferred.state[j].next = now + Stagger /\ deferred.state[j].last <= now
    BY <1>2, <1>6, <2>1 DEF Fits, Fit
  <2>3. deferred.state[j].last \in Nat
    BY <1>9 DEF StoreType, StateType
  <2>4. now + Stagger \in 1..now + Stagger /\ ~Executed(deferred.state[j])
    BY <1>1, <2>2, <2>3 DEF Executed
  <2> QED BY <1>4, <1>9, <1>13, <2>2, <2>4 DEF Carried
<1>14. ASSUME NEW j \in Jobs, j \notin put, NEW p, Carried(s, j, p)
       PROVE  Carried(deferred, j, p)
  BY <1>7, <1>9, <1>14 DEF Carried
<1> QED BY <1>3, <1>11, <1>12, <1>13, <1>14 DEF s, put

----------------------------------------------------------------------------
(* The sections of the manual runs, and the operations.                      *)

LEMMA ReservedSlots ==
    ASSUME Typed, RunTimes, Fits(mem, now), NEW m \in Manuals
    PROVE  /\ Fits(ReservedStore(m), now)
           /\ \A i \in Jobs :
                /\ i = ManualJob[m] => mem.config[i] = "on" /\ run[m][i].start # 0
                => Keeps(mem, ReservedStore(m), i)
           /\ \A i \in Jobs : Inert(mem, i) /\ mem.config[ManualJob[m]] # "none"
                                => Inert(ReservedStore(m), i)
<1> DEFINE j == ManualJob[m]
           start == run[m][j].start
           Mark(st) == [st EXCEPT !.running = start]
           state == [mem.state EXCEPT ![j] = Mark(mem.state[j])]
           w == ReservedStore(m)
<1>1. j \in Jobs /\ start \in Nat /\ start <= now /\ now \in Nat
  BY ManualFacts, NowFact DEF Typed, RunType, RunTimes
<1>2. mem \in StoreType /\ mem.state \in [Jobs -> StateType]
  BY DEF Typed, StoreType
<1>3. w = [mem EXCEPT !.state = state]
  BY <1>2 DEF ReservedStore, StoreType
<1>4. ASSUME NEW st \in StateType
      PROVE  /\ Mark(st).running = start /\ Mark(st).next = st.next /\ Mark(st).last = st.last
             /\ Mark(st).status = st.status /\ Mark(st).ended = st.ended
  BY DEF StateType
<1>5. \A i \in Jobs : state[i] = IF i = j THEN Mark(mem.state[j]) ELSE mem.state[i]
  BY <1>1, <1>2
<1> HIDE DEF state
<1>6. w.config = mem.config /\ w.state = state
  BY <1>2, <1>3 DEF StoreType
<1> HIDE DEF w, Mark
<1>7. ASSUME NEW i \in Jobs
      PROVE  Fit(i, w.state[i], now)
  <2>1. Fit(i, mem.state[i], now) /\ mem.state[i] \in StateType
    BY <1>2 DEF Fits
  <2> QED BY <1>1, <1>4, <1>5, <1>6, <2>1 DEF Fit
<1>8. ASSUME NEW i \in Jobs, i = j => mem.config[i] = "on" /\ start # 0
      PROVE  Keeps(mem, w, i)
  <2>1. CASE i = j
    <3>1. w.config[i] = "on" /\ w.state[i] = Mark(mem.state[i]) /\ mem.state[i] \in StateType
      BY <1>2, <1>5, <1>6, <1>8, <2>1
    <3>2. w.state[i].running # 0
      BY <1>4, <1>8, <2>1, <3>1
    <3>3. Planned(mem, i) => Planned(w, i)
      BY <1>4, <1>6, <3>1 DEF Planned
    <3> QED BY <3>1, <3>2, <3>3 DEF Keeps, Inert, Asleep, Carried
  <2>2. CASE i # j
    BY <1>5, <1>6, <2>2 DEF Keeps, Inert, Asleep, Planned, Carried
  <2> QED BY <2>1, <2>2
<1>9. ASSUME NEW i \in Jobs, Inert(mem, i), mem.config[j] # "none"
      PROVE  Inert(w, i)
  <2>1. CASE i = j
    BY <1>1, <1>2, <1>4, <1>5, <1>6, <1>9, <2>1 DEF Inert
  <2>2. CASE i # j
    BY <1>5, <1>6, <1>9, <2>2 DEF Inert
  <2> QED BY <2>1, <2>2
<1> QED BY <1>7, <1>8, <1>9 DEF w, j, start, Fits

LEMMA FinishedSlots ==
    ASSUME Unrepaired, Typed, RunTimes, Fits(mem, now), Fits(disk, now), NEW m \in Manuals
    PROVE  /\ Fits(FinishedStore(m), now)
           /\ \A i \in Jobs :
                /\ ~IsStuck(Loaded.state[i], now)
                /\ i = ManualJob[m] => i \in Ended(m) /\ mem.config[i] # "none"
                =>
                    /\ Inert(FinishedStore(m), i) /\ Asleep(FinishedStore(m), i)
                    /\ Planned(FinishedStore(m), i)
                    /\ i # ManualJob[m] =>
                          \A p : Carried(Loaded, i, p) => Carried(FinishedStore(m), i, p)
<1> DEFINE j == ManualJob[m]
           s == ApplyAll(mem, m)
           merged == IF s.config[j] = "none" THEN Deleted(Loaded, j)
                     ELSE IF Loaded.config[j] = "none" THEN Loaded
                     ELSE [Loaded EXCEPT !.config[j] = s.config[j], !.state[j] = s.state[j]]
<1>1. FinishedStore(m) = Maintenance(merged, now, TRUE, TRUE)
  BY DEF FinishedStore
<1>2. j \in Jobs /\ m \in Runners /\ mem \in StoreType /\ now \in Nat /\ now # 0
  BY ManualFacts, NowFact DEF Typed
<1>3. s \in StoreType /\ Fits(s, now) /\ Settled(m, mem, s)
  BY <1>2, AllFit, AllApplied DEF Settled, Typed
<1>4. Loaded \in StoreType /\ Fits(Loaded, now)
  BY LoadedFacts, LoadedFits
<1>5. ASSUME j \in Ended(m), mem.config[j] # "none"
      PROVE  s.state[j].running = 0
  <2> DEFINE a == ApplyResult(mem, j, run[m][j], m \in Forced)
  <2>1. s.state[j] = a.state[j]
    BY <1>2, <1>5 DEF ApplyAll
  <2>2. run[m][j] \in RunType /\ (m \in Forced) \in BOOLEAN
    BY <1>2 DEF Typed
  <2>3. a.state[j].running = 0
    BY <1>2, <1>5, <2>2, ResultApplied
  <2> QED BY <2>1, <2>3
<1> HIDE DEF s
<1>6. /\ merged \in StoreType
      /\ \A i \in Jobs \ {j} : merged.config[i] = Loaded.config[i] /\ merged.state[i] = Loaded.state[i]
      /\ \/ merged.state[j] = NoState
         \/ merged.state[j] = Loaded.state[j] /\ Loaded.config[j] = "none"
         \/ merged.state[j] = s.state[j]
  <2>1. CASE s.config[j] = "none"
    <3>1. Deleted(Loaded, j).state[j] = NoState
      BY <1>2, <1>4 DEF Deleted, StoreType
    <3>2. merged = Deleted(Loaded, j)
      BY <2>1
    <3> HIDE DEF merged, j
    <3> QED BY <1>2, <1>4, <3>1, <3>2, DeletedFacts
  <2>2. CASE s.config[j] # "none" /\ Loaded.config[j] = "none"
    BY <1>4, <2>2
  <2>3. CASE s.config[j] # "none" /\ Loaded.config[j] # "none"
    <3> DEFINE c == s.config[j]
               a == s.state[j]
    <3>1. j \in Jobs /\ c \in {"on", "off", "none"} /\ a \in StateType
      BY <1>2, <1>3 DEF StoreType
    <3>2. merged = Replace(Loaded, j, c, a)
      BY <2>3 DEF Replace
    <3> HIDE DEF c, a, merged, j
    <3>3. /\ Replace(Loaded, j, c, a) \in StoreType
          /\ \A i \in Jobs : /\ Replace(Loaded, j, c, a).config[i] = IF i = j THEN c ELSE Loaded.config[i]
                             /\ Replace(Loaded, j, c, a).state[i] = IF i = j THEN a ELSE Loaded.state[i]
      BY <1>4, <3>1, ReplacedFacts
    <3> QED BY <3>1, <3>2, <3>3 DEF a
  <2> QED BY <2>1, <2>2, <2>3
<1> HIDE DEF merged
<1>7. Fits(merged, now)
  <2> SUFFICES ASSUME NEW i \in Jobs PROVE Fit(i, merged.state[i], now)
    BY DEF Fits
  <2>1. Fit(i, Loaded.state[i], now) /\ Fit(i, s.state[i], now) /\ Fit(i, NoState, now)
    BY <1>2, <1>3, <1>4, NoState0 DEF Fits
  <2>2. CASE i = j
    BY <1>6, <2>1, <2>2
  <2>3. CASE i # j
    BY <1>6, <2>1, <2>3
  <2> QED BY <2>2, <2>3
<1>8. Fits(FinishedStore(m), now)
  BY <1>1, <1>2, <1>6, <1>7, MaintenanceFits
<1>9. ASSUME NEW i \in Jobs, ~IsStuck(Loaded.state[i], now), i = j => i \in Ended(m),
             i = j => ~IsStuck(s.state[j], now)
      PROVE  ~IsStuck(merged.state[i], now)
  <2>1. ~IsStuck(NoState, now)
    BY NoStateType DEF IsStuck
  <2>2. CASE i = j
    BY <1>6, <1>9, <2>1, <2>2
  <2>3. CASE i # j
    BY <1>6, <1>9, <2>3
  <2> QED BY <2>2, <2>3
<1>10. ASSUME NEW i \in Jobs, ~IsStuck(merged.state[i], now)
       PROVE  /\ Inert(FinishedStore(m), i) /\ Asleep(FinishedStore(m), i)
              /\ Planned(FinishedStore(m), i)
              /\ \A p : Carried(merged, i, p) => Carried(FinishedStore(m), i, p)
  <2>1. Fit(i, merged.state[i], now)
    BY <1>7 DEF Fits
  <2> DEFINE w == Maintenance(merged, now, TRUE, TRUE)
  <2>2. merged \in StoreType /\ now \in Nat /\ TRUE \in BOOLEAN
    BY <1>2, <1>6
  <2>3. /\ Inert(w, i) /\ Asleep(w, i) /\ Planned(w, i)
        /\ \A p : Carried(merged, i, p) => Carried(w, i, p)
    BY <1>10, <2>1, <2>2, MaintenanceGood
  <2> HIDE DEF w
  <2> QED BY <1>1, <2>3 DEF w
<1>11. ASSUME NEW i \in Jobs \ {j}, NEW p, Carried(Loaded, i, p)
       PROVE  Carried(merged, i, p)
  BY <1>6, <1>11 DEF Carried
<1>12. j \in Ended(m) /\ mem.config[j] # "none" => ~IsStuck(s.state[j], now)
  BY <1>5 DEF IsStuck
<1> QED BY <1>8, <1>9, <1>10, <1>11, <1>12 DEF j

LEMMA EnabledSlots ==
    ASSUME Typed, Fits(mem, now), NEW j \in Jobs
    PROVE  LET w == [mem EXCEPT !.config[j] = "on",
                                !.state[j].next = ComputeNext(j, mem.state[j], now)] IN
           /\ w \in StoreType /\ Fits(w, now)
           /\ Inert(w, j) /\ Asleep(w, j) /\ Planned(w, j)
           /\ \A i \in Jobs : w.state[i].running = mem.state[i].running
           /\ \A i \in Jobs \ {j} : w.config[i] = mem.config[i] /\ w.state[i] = mem.state[i]
<1> DEFINE st == mem.state[j]
           next == ComputeNext(j, st, now)
           waiting == [st EXCEPT !.next = next]
           w == [mem EXCEPT !.config[j] = "on", !.state[j].next = ComputeNext(j, mem.state[j], now)]
<1>1. mem \in StoreType /\ st \in StateType /\ now \in Nat
  BY NowFact DEF Typed, StoreType
<1>2. w = Replace(mem, j, "on", waiting)
  BY <1>1 DEF StoreType, Replace
<1>3. next \in Nat /\ (Kind[j] = "cron" => next <= now + 2 * Period)
  <2>1. next \in Nat
    BY <1>1, ComputeNextType
  <2>2. Kind[j] = "cron" => next = NextSlot(now)
    BY DEF ComputeNext
  <2> HIDE DEF next
  <2> QED BY <1>1, <2>1, <2>2, SlotAfter, NatFacts
<1>4. next = 0 => Kind[j] = "at" /\ st.status = "ok" /\ AtTime <= st.last
  BY <1>1, NeverNext
<1> HIDE DEF next, w
<1>5. /\ waiting \in StateType /\ waiting.next = next /\ waiting.running = st.running
      /\ waiting.last = st.last /\ waiting.status = st.status /\ waiting.ended = st.ended
  BY <1>1, <1>3 DEF StateType
<1> HIDE DEF waiting
<1>6. /\ w \in StoreType
      /\ \A i \in Jobs : /\ w.config[i] = IF i = j THEN "on" ELSE mem.config[i]
                         /\ w.state[i] = IF i = j THEN waiting ELSE mem.state[i]
  <2>1. "on" \in {"on", "off", "none"}
    OBVIOUS
  <2>2. /\ Replace(mem, j, "on", waiting) \in StoreType
        /\ \A i \in Jobs : /\ Replace(mem, j, "on", waiting).config[i] = IF i = j THEN "on" ELSE mem.config[i]
                           /\ Replace(mem, j, "on", waiting).state[i] = IF i = j THEN waiting ELSE mem.state[i]
    BY <1>1, <1>5, <2>1, ReplacedFacts
  <2> QED BY <1>2, <2>2
<1>7. Fit(j, waiting, now)
  <2>1. Fit(j, st, now)
    BY DEF Fits
  <2> QED BY <1>3, <1>5, <2>1 DEF Fit
<1>8. Fits(w, now)
  BY <1>6, <1>7 DEF Fits
<1>9. Inert(w, j) /\ Asleep(w, j)
  BY <1>6 DEF Inert, Asleep
<1>10. Planned(w, j)
  BY <1>4, <1>5, <1>6 DEF Planned
<1> QED BY <1>5, <1>6, <1>8, <1>9, <1>10 DEF w

LEMMA OpSlots ==
    ASSUME Unrepaired, Typed, Fits(mem, now), NEW op \in Operations, NEW j \in Jobs
    PROVE  /\ Fits(OpStore(op, j), now)
           /\ \A i \in Jobs : op = "read" /\ ~IsStuck(mem.state[i], now) =>
                /\ Tidied(mem, OpStore(op, j), i)
                /\ Inert(mem, i) /\ Asleep(mem, i) /\ Planned(mem, i)
                      => Like(OpStore(op, j), mem, i)
           /\ \A i \in Jobs : op = "add" /\ ~IsStuck(mem.state[i], now) =>
                Inert(OpStore(op, j), i) /\ Asleep(OpStore(op, j), i) /\ Planned(OpStore(op, j), i)
           /\ op \notin {"read", "add"} =>
                /\ Inert(OpStore(op, j), j) /\ Asleep(OpStore(op, j), j) /\ Planned(OpStore(op, j), j)
                /\ \A i \in Jobs \ {j} : Keeps(mem, OpStore(op, j), i)
<1> DEFINE enabled == [mem EXCEPT !.config[j] = "on",
                                  !.state[j].next = ComputeNext(j, mem.state[j], now)]
           w == OpStore(op, j)
<1>1. /\ mem \in StoreType /\ now \in Nat /\ now # 0
      /\ mem.state[j] \in StateType /\ \A i \in Jobs : Fit(i, mem.state[i], now)
  BY NowFact DEF Typed, StoreType, Fits
<1>2. /\ enabled \in StoreType /\ Fits(enabled, now)
      /\ Inert(enabled, j) /\ Asleep(enabled, j) /\ Planned(enabled, j)
      /\ \A i \in Jobs : enabled.state[i].running = mem.state[i].running
      /\ \A i \in Jobs \ {j} : enabled.config[i] = mem.config[i] /\ enabled.state[i] = mem.state[i]
  BY EnabledSlots
<1>3. CASE op = "read"
  <2>1. w = Maintenance(mem, now, FALSE, TRUE)
    BY <1>3 DEF OpStore
  <2>2. Fits(w, now)
    BY <1>1, <2>1, MaintenanceFits
  <2>3. ASSUME NEW i \in Jobs, ~IsStuck(mem.state[i], now)
        PROVE  /\ Tidied(mem, w, i)
               /\ Inert(mem, i) /\ Asleep(mem, i) /\ Planned(mem, i) => Like(w, mem, i)
    <3> DEFINE v == Maintenance(mem, now, FALSE, TRUE)
    <3>1. FALSE \in BOOLEAN /\ TRUE \in BOOLEAN /\ Fit(i, mem.state[i], now)
      BY <1>1
    <3>2. /\ Inert(v, i) /\ Asleep(v, i) /\ Planned(v, i)
          /\ \A p : Carried(mem, i, p) => Carried(v, i, p)
          /\ Inert(mem, i) /\ Asleep(mem, i) /\ Planned(mem, i) => Like(v, mem, i)
      BY <1>1, <2>3, <3>1, MaintenanceGood
    <3> HIDE DEF v, w
    <3> QED BY <2>1, <3>2 DEF v, Tidied
  <2> QED BY <1>3, <2>2, <2>3
<1>4. CASE op = "add"
  <2> DEFINE again == {i \in Jobs : \/ Tidy(enabled, i, now).next <= now
                                    \/ NeedsRepair(i, Tidy(enabled, i, now), now)}
  <2>1. w = Walk(enabled, now, again)
    BY <1>4 DEF OpStore, RecomputeNextRuns, enabled
  <2>2. ASSUME NEW i \in Jobs, ~IsStuck(enabled.state[i], now),
               enabled.config[i] = "on", enabled.state[i].next = 0
        PROVE  i \in again
    <3> HIDE DEF enabled
    <3>0. enabled \in StoreType /\ now \in Nat
      BY <1>1, <1>2
    <3>1. Tidy(enabled, i, now) = enabled.state[i]
      BY <2>2, <3>0, TidyCases
    <3>2. Tidy(enabled, i, now).next = 0
      BY <2>2, <3>1
    <3> QED BY <1>1, <3>2
  <2> HIDE DEF again, enabled, w
  <2>3. Fits(w, now)
    BY <1>1, <1>2, <2>1, FitsWalk
  <2>4. ASSUME NEW i \in Jobs, ~IsStuck(mem.state[i], now)
        PROVE  Inert(w, i) /\ Asleep(w, i) /\ Planned(w, i)
    <3>1. ~IsStuck(enabled.state[i], now)
      BY <1>2, <2>4 DEF IsStuck
    <3> QED BY <1>1, <1>2, <2>1, <2>2, <3>1, WalkGood
  <2> QED BY <1>4, <2>3, <2>4 DEF w
<1>5. CASE op = "remove"
  <2>1. w = Replace(mem, j, "none", NoState)
    BY <1>5 DEF OpStore, Deleted, Replace
  <2>2. /\ Replace(mem, j, "none", NoState) \in StoreType
        /\ \A i \in Jobs : /\ Replace(mem, j, "none", NoState).config[i] = IF i = j THEN "none" ELSE mem.config[i]
                           /\ Replace(mem, j, "none", NoState).state[i] = IF i = j THEN NoState ELSE mem.state[i]
    BY <1>1, NoStateType, ReplacedFacts
  <2> HIDE DEF w
  <2>3. Fits(w, now)
    BY <1>1, <2>1, <2>2, NoState0 DEF Fits
  <2>4. Inert(w, j) /\ Asleep(w, j) /\ Planned(w, j)
    BY <2>1, <2>2 DEF Inert, Asleep, Planned
  <2>5. \A i \in Jobs \ {j} : Keeps(mem, w, i)
    BY <2>1, <2>2 DEF Keeps, Inert, Asleep, Planned, Carried
  <2> QED BY <1>5, <2>3, <2>4, <2>5 DEF w
<1>6. CASE op = "enable"
  <2>1. w = enabled
    BY <1>6 DEF OpStore, enabled
  <2> HIDE DEF w, enabled
  <2>2. \A i \in Jobs \ {j} : Keeps(mem, w, i)
    BY <1>2, <2>1 DEF Keeps, Inert, Asleep, Planned, Carried
  <2> QED BY <1>2, <1>6, <2>1, <2>2 DEF w
<1>7. CASE op = "disable"
  <2> DEFINE off == [mem.state[j] EXCEPT !.next = 0, !.running = 0]
  <2>1. w = Replace(mem, j, "off", off)
    BY <1>1, <1>7 DEF OpStore, Replace, StoreType, StateType
  <2>2. /\ off \in StateType /\ off.next = 0 /\ off.running = 0
        /\ off.last = mem.state[j].last /\ off.ended = mem.state[j].ended
        /\ off.status = mem.state[j].status
    BY <1>1, ClearedType DEF StateType
  <2> HIDE DEF w, off
  <2>3. /\ Replace(mem, j, "off", off) \in StoreType
        /\ \A i \in Jobs : /\ Replace(mem, j, "off", off).config[i] = IF i = j THEN "off" ELSE mem.config[i]
                           /\ Replace(mem, j, "off", off).state[i] = IF i = j THEN off ELSE mem.state[i]
    BY <1>1, <2>2, ReplacedFacts
  <2>4. Fit(j, off, now)
    BY <1>1, <2>2, NatFacts DEF Fit
  <2>5. Fits(w, now)
    BY <1>1, <2>1, <2>3, <2>4 DEF Fits
  <2>6. Inert(w, j) /\ Asleep(w, j) /\ Planned(w, j)
    BY <2>1, <2>2, <2>3 DEF Inert, Asleep, Planned
  <2>7. \A i \in Jobs \ {j} : Keeps(mem, w, i)
    BY <2>1, <2>3 DEF Keeps, Inert, Asleep, Planned, Carried
  <2> QED BY <1>7, <2>5, <2>6, <2>7 DEF w
<1> QED BY <1>3, <1>4, <1>5, <1>6, <1>7 DEF Operations

----------------------------------------------------------------------------
LEMMA HeadFits ==
    ASSUME Unrepaired, IInv, RunTimes, Fits(mem, now), Fits(disk, now), chain # <<>>,
           ~\E m \in Manuals : HeadIs(m, "preflight")
    PROVE  Fits(HeadStore, now)
<1> DEFINE who == chain[1][1]
<1>1. Typed /\ mem \in StoreType
  BY DEF IInv, Typed
<1>2. /\ Fits(BootStore, now) /\ Fits(Marked(mem, Candidates), now)
      /\ Fits(CaughtUpStore, now) /\ Fits(StartedStore, now)
      /\ Fits(TickStore, now) /\ Fits(TickedStore, now)
  BY <1>1, BootFits, MarkedFits, CaughtUpSlots, StartedSlots, TickSlots, TickedSlots
<1>3. \A m \in Manuals : Fits(ReservedStore(m), now) /\ Fits(FinishedStore(m), now)
  BY <1>1, ReservedSlots, FinishedSlots
<1>4. \A op \in Operations, j \in Jobs : Fits(OpStore(op, j), now)
  BY <1>1, OpSlots
<1>5. ~(who \in Manuals /\ HeadIs(who, "preflight"))
  OBVIOUS
<1> QED BY <1>2, <1>3, <1>4, <1>5, HeadCases

----------------------------------------------------------------------------
(* The inductive invariant of the slots; steps that leave the stores alone.  *)

(* A promise is carried by the job, and there is none while a run of it has  *)
(* begun and is not recorded.                                                *)
Owed(j) == promised[j] # 0 => Carried(mem, j, promised[j])
Begun(j) == \A r \in Runners : run[r][j].pc \in {"executing", "ended"} => promised[j] = 0
SlotAt(j) ==
    /\ Like(disk, mem, j) /\ Inert(mem, j)
    /\ pc["start"] # "boot" => Asleep(mem, j)
    /\ pc["start"] = "idle" => Planned(mem, j)
    /\ Owed(j) /\ Begun(j)
Slots == \A j \in Jobs \ excused : SlotAt(j)
Booting == pc["start"] = "boot" => \A j \in Jobs : promised[j] = 0
Timed == Fits(mem, now) /\ Fits(disk, now) /\ RunTimes
SInv == Timed /\ Booting /\ Slots

LEMMA FitsLater ==
    ASSUME NEW s \in StoreType, NEW t \in Nat, NEW u \in Nat, t <= u, Fits(s, t)
    PROVE  Fits(s, u)
<1>1. \A j \in Jobs : s.state[j] \in StateType
  BY DEF StoreType
<1> QED BY <1>1, FitLater DEF Fits

(* Runs that are new or forgotten have no times yet.                         *)
LEMMA TimesKept ==
    ASSUME IInv, RunTimes, IInv', now' = now,
           \A r \in Runners, j \in Jobs : \/ run'[r][j] = run[r][j]
                                          \/ /\ run'[r][j].pc # "ended"
                                             /\ run'[r][j].start \in {0, now}
                                             /\ run'[r][j].end \in {0, now, run[r][j].end}
    PROVE  RunTimes'
<1> SUFFICES ASSUME NEW r \in Runners, NEW j \in Jobs
             PROVE  /\ run'[r][j].start <= now /\ run'[r][j].end <= now
                    /\ run'[r][j].pc = "ended" => run'[r][j].start <= run'[r][j].end
  BY DEF RunTimes
<1>1. now \in Nat
  BY NowFact DEF IInv
<1>2. /\ run[r][j].start <= now /\ run[r][j].end <= now
      /\ run[r][j].pc = "ended" => run[r][j].start <= run[r][j].end
  BY DEF RunTimes
<1>3. CASE run'[r][j] = run[r][j]
  BY <1>2, <1>3
<1>4. CASE run'[r][j] # run[r][j]
  <2>1. /\ run'[r][j].pc # "ended"
        /\ run'[r][j].start \in {0, now}
        /\ run'[r][j].end \in {0, now, run[r][j].end}
    BY <1>4
  <2> QED BY <1>1, <1>2, <2>1
<1> QED BY <1>3, <1>4

LEMMA BlankRuns ==
    /\ NoRun.start = 0 /\ NoRun.end = 0 /\ NoRun.pc = "none"
    /\ \A j \in Jobs : Idle[j] = NoRun
    /\ \A due : \A j \in Jobs : /\ Taken(due)[j].start = 0 /\ Taken(due)[j].end = 0
                                /\ Taken(due)[j].pc \in {"none", "waiting"}
<1>1. NoRun.start = 0 /\ NoRun.end = 0 /\ NoRun.pc = "none"
  BY DEF NoRun
<1>2. /\ [NoRun EXCEPT !.pc = "waiting"].start = 0 /\ [NoRun EXCEPT !.pc = "waiting"].end = 0
      /\ [NoRun EXCEPT !.pc = "waiting"].pc = "waiting"
  BY DEF NoRun
<1> QED BY <1>1, <1>2 DEF Idle, Taken

(* What a promise becomes when a section, or time, leaves the store mem'.    *)
LEMMA PromiseKept ==
    ASSUME IInv', NEW j \in Jobs, j \notin excused', Owed(j), Begun(j),
           NEW t, NEW over, promised'[j] = Owe(mem', t, over)[j],
           promised[j] # 0 /\ j \notin over /\ Carried(mem, j, promised[j])
                => Carried(mem', j, promised[j]),
           \A r \in Runners : run'[r][j].pc \in {"executing", "ended"}
                => run[r][j].pc \in {"executing", "ended"} \/ j \in over
    PROVE  Owed(j)' /\ Begun(j)'
<1> DEFINE st == mem'.state[j]
           due == Runnable(mem', j, t) /\ ~Executed(st)
<1>1. promised'[j] = IF promised[j] # 0 /\ j \notin over THEN promised[j]
                     ELSE IF Runnable(mem', j, t) /\ ~Executed(st) THEN st.next ELSE 0
  BY DEF Owe
<1>2. st.next \in Nat
  BY DEF IInv, Typed, StoreType, StateType
<1>3. CASE promised[j] # 0 /\ j \notin over
  <2>1. promised'[j] = promised[j] /\ Carried(mem', j, promised[j])
    BY <1>1, <1>3 DEF Owed
  <2>2. \A r \in Runners : run'[r][j].pc \notin {"executing", "ended"}
    BY <1>3 DEF Begun
  <2> QED BY <2>1, <2>2 DEF Owed, Begun
<1>4. CASE ~(promised[j] # 0 /\ j \notin over) /\ due
  <2>1. promised'[j] = st.next /\ ~Executed(st)
    BY <1>1, <1>4
  <2>2. mem'.config[j] = "on" /\ st.running = 0 /\ st.next # 0
    BY <1>4 DEF Runnable
  <2>3. st.next \in 1..st.next
    BY <1>2, <2>2
  <2>4. Carried(mem', j, promised'[j])
    BY <2>1, <2>2, <2>3 DEF Carried
  <2>5. \A r \in Runners : ~Held(r, j)'
    BY <2>2 DEF IInv, Safe, SafeAt, On
  <2> QED BY <2>4, <2>5 DEF Owed, Begun, Held
<1>5. CASE ~(promised[j] # 0 /\ j \notin over) /\ ~due
  <2>1. promised'[j] = 0
    BY <1>1, <1>5
  <2> QED BY <2>1 DEF Owed, Begun
<1> QED BY <1>3, <1>4, <1>5

(* Steps that leave the stores and the promises alone.                       *)
LEMMA QuietSlots ==
    ASSUME SInv, UNCHANGED <<now, mem, disk, promised, excused>>,
           pc'["start"] \in {"boot", "idle"} => pc'["start"] = pc["start"],
           pc'["start"] # "boot" => pc["start"] # "boot",
           \A r \in Runners, j \in Jobs :
                run'[r][j].pc \in {"executing", "ended"} => run[r][j].pc \in {"executing", "ended"},
           RunTimes'
    PROVE  SInv'
<1>1. Timed' /\ Booting'
  BY DEF SInv, Timed, Fits, Fit, Booting
<1>2. ASSUME NEW j \in Jobs \ excused'
      PROVE  SlotAt(j)'
  <2>1. SlotAt(j)
    BY DEF SInv, Slots
  <2>2. Owed(j)' /\ Begun(j)'
    BY <2>1 DEF SlotAt, Owed, Begun
  <2> QED BY <2>1, <2>2 DEF SlotAt
<1> QED BY <1>1, <1>2 DEF SInv, Slots

LEMMA QuietStepsSlots ==
    ASSUME IInv, SInv, \/ TimerFires \/ \E m \in Manuals : Call(m)
                       \/ \E op \in Ops, j \in Jobs : Ask(op, j)
    PROVE  SInv'
<1>1. /\ UNCHANGED <<now, mem, disk, promised, excused, run>>
      /\ pc'["start"] = pc["start"]
  <2>1. CASE TimerFires
    BY <2>1, ManualFacts DEF TimerFires, IInv, Typed
  <2>2. CASE \E m \in Manuals : Call(m)
    BY <2>2, ManualFacts DEF Call, IInv, Typed, Scheduled
  <2>3. CASE \E op \in Ops, j \in Jobs : Ask(op, j)
    BY <2>3 DEF Ask
  <2> QED BY <2>1, <2>2, <2>3
<1>2. RunTimes'
  BY <1>1 DEF SInv, Timed, RunTimes
<1> QED BY <1>1, <1>2, QuietSlots

(* What the end of an execution changes.                                     *)
LEMMA EndFacts ==
    ASSUME IInv, NEW r \in Runners, NEW j \in Jobs, NEW status \in Outcomes(j), End(r, j, status)
    PROVE  /\ run[r][j].pc = "executing"
           /\ run'[r][j].pc = "ended" /\ run'[r][j].end = now /\ run'[r][j].start = run[r][j].start
           /\ \A s \in Runners, i \in Jobs : s # r \/ i # j => run'[s][i] = run[s][i]
           /\ UNCHANGED <<now, mem, disk, promised, excused>>
           /\ \/ pc' = pc
              \/ pc' = [pc EXCEPT ![r] = IF r \in Manuals THEN "finish" ELSE "apply"]
<1> DEFINE last == \A i \in Jobs \ {j} : run[r][i].pc \in {"none", "ended"}
           taken == [run[r][j] EXCEPT !.pc = "ended", !.status = status, !.end = now]
           next == IF r \in Manuals THEN "finish" ELSE "apply"
<1>1. /\ run[r][j].pc = "executing"
      /\ run' = [run EXCEPT ![r] = [run[r] EXCEPT ![j] = taken]]
      /\ chain' = IF last THEN Append(chain, <<r, "-">>) ELSE chain
      /\ pc' = IF ~last THEN pc ELSE [pc EXCEPT ![r] = next]
      /\ UNCHANGED <<now, mem, disk, skip, shared, armed, promised, spent, excused>>
  BY DEF End, IInv, Typed, RunType
<1>2. run[r][j] \in RunType
  BY DEF IInv, Typed
<1>3. taken.pc = "ended" /\ taken.end = now /\ taken.start = run[r][j].start
  BY <1>2 DEF RunType
<1> HIDE DEF taken
<1>4. /\ run'[r][j] = taken
      /\ \A s \in Runners, i \in Jobs : s # r \/ i # j => run'[s][i] = run[s][i]
  BY <1>1 DEF IInv, Typed
<1>5. pc' = pc \/ pc' = [pc EXCEPT ![r] = next]
  BY <1>1
<1> QED BY <1>1, <1>3, <1>4, <1>5

LEMMA EndSlots ==
    ASSUME IInv, SInv, IInv', NEW r \in Runners, NEW j \in Jobs, NEW status \in Outcomes(j),
           End(r, j, status)
    PROVE  SInv'
<1> DEFINE next == IF r \in Manuals THEN "finish" ELSE "apply"
<1>1. /\ run[r][j].pc = "executing" /\ UNCHANGED <<now, mem, disk, promised, excused>>
      /\ pc' = pc \/ pc' = [pc EXCEPT ![r] = next]
  BY EndFacts
<1>3. run'[r][j].pc = "ended" /\ run'[r][j].end = now /\ run'[r][j].start = run[r][j].start
  BY EndFacts
<1>4. \A s \in Runners, i \in Jobs : s # r \/ i # j => run'[s][i] = run[s][i]
  BY EndFacts
<1>5. RunTimes'
  BY <1>1, <1>3, <1>4, NowFact DEF SInv, Timed, RunTimes, IInv
<1>6. \A s \in Runners, i \in Jobs :
          run'[s][i].pc \in {"executing", "ended"} => run[s][i].pc \in {"executing", "ended"}
  BY <1>1, <1>4
<1>7. /\ pc'["start"] \in {"boot", "idle"} => pc'["start"] = pc["start"]
      /\ pc'["start"] # "boot" => pc["start"] # "boot"
  <2>1. At(r)
    BY DEF IInv, Places
  <2>2. pc[r] \in {"runs", "run"}
    BY <1>1, <2>1 DEF At
  <2>3. pc'["start"] = pc["start"] \/ (r = "start" /\ pc'["start"] \in {"finish", "apply"})
    BY <1>1, ManualFacts DEF IInv, Typed
  <2> QED BY <2>2, <2>3
<1> QED BY <1>1, <1>5, <1>6, <1>7, QuietSlots

LEMMA ClockSlots == ASSUME IInv, SInv, IInv', Clock PROVE SInv'
<1>1. /\ now' = now + 1 /\ UNCHANGED <<mem, disk, pc, run, excused>>
      /\ promised' = IF pc["start"] = "boot" THEN promised ELSE Owe(mem, now + 1, {})
  BY DEF Clock
<1>2. now \in Nat /\ now' \in Nat /\ now <= now' /\ mem \in StoreType /\ disk \in StoreType
  BY <1>1, NowFact DEF IInv, Typed
<1>3. Fits(mem, now') /\ Fits(disk, now')
  BY <1>2, FitsLater DEF SInv, Timed
<1>4. RunTimes'
  <2>1. \A r \in Runners, j \in Jobs : run[r][j].start \in Nat /\ run[r][j].end \in Nat
    BY DEF IInv, Typed, RunType
  <2> QED BY <1>1, <1>2, <2>1 DEF SInv, Timed, RunTimes
<1>5. Timed' /\ Booting'
  BY <1>1, <1>3, <1>4 DEF SInv, Timed, Booting, Fits, Fit
<1>6. ASSUME NEW j \in Jobs \ excused'
      PROVE  SlotAt(j)'
  <2>1. SlotAt(j) /\ j \notin excused'
    BY <1>1 DEF SInv, Slots
  <2>2. Owed(j)' /\ Begun(j)'
    <3>1. CASE pc["start"] = "boot"
      BY <1>1, <2>1, <3>1 DEF SlotAt, Owed, Begun
    <3>2. CASE pc["start"] # "boot"
      <4>1. promised'[j] = Owe(mem', now + 1, {})[j]
        BY <1>1, <3>2
      <4> QED BY <1>1, <2>1, <4>1, PromiseKept DEF SlotAt
    <3> QED BY <3>1, <3>2
  <2> QED BY <1>1, <2>1, <2>2 DEF SlotAt, Like, Inert, Asleep, Planned
<1> QED BY <1>5, <1>6 DEF SInv, Slots

----------------------------------------------------------------------------
(* The startup keeps the slots.                                              *)

(* The sections of the startup; while they last no runner holds a job that   *)
(* is not the startup's.                                                     *)
LEMMA BootSlots == ASSUME IInv, SInv, IInv', BootSection PROVE SInv'
<1>1. /\ chain # <<>> /\ chain[1][1] = "start" /\ pc["start"] = "boot"
      /\ Save(BootStore, {}) /\ pc' = [pc EXCEPT !["start"] = "plan"]
      /\ run' = run /\ excused' = excused
  BY DEF BootSection, HeadIs
<1>2. mem' = BootStore /\ disk' = BootStore /\ now' = now /\ promised' = Owe(BootStore, now, {})
  BY <1>1 DEF Save, Leave
<1>3. pc'["start"] = "plan"
  BY <1>1, ManualFacts DEF IInv, Typed
<1>4. \A r \in Runners, j \in Jobs : ~Held(r, j)
  BY <1>1, StartFacts
<1>5. Timed'
  <2>1. Fits(BootStore, now)
    BY BootFits DEF IInv, SInv, Timed
  <2> QED BY <1>1, <1>2, <2>1 DEF SInv, Timed, Fits, Fit, RunTimes
<1>6. ASSUME NEW j \in Jobs \ excused'
      PROVE  SlotAt(j)'
  <2>1. SlotAt(j) /\ promised[j] = 0
    BY <1>1 DEF SInv, Slots, Booting
  <2>2. Inert(Loaded, j)
    <3>1. Like(Loaded, mem, j)
      BY <2>1, LoadedFits DEF SlotAt, SInv, Timed, IInv
    <3> QED BY <2>1, <3>1, LikeMeans DEF SlotAt
  <2>3. Inert(BootStore, j) /\ BootStore.state[j].running = 0
    BY <2>2, BootFits DEF IInv, SInv, Timed
  <2>4. Owed(j)' /\ Begun(j)'
    <3>1. promised'[j] = Owe(mem', now, {})[j]
      BY <1>2
    <3>2. \A r \in Runners : run'[r][j].pc \in {"executing", "ended"}
                                => run[r][j].pc \in {"executing", "ended"}
      BY <1>1
    <3> QED BY <2>1, <3>1, <3>2, PromiseKept DEF SlotAt
  <2> QED BY <1>2, <1>3, <2>3, <2>4 DEF SlotAt, Like, Inert, Asleep
<1> QED BY <1>3, <1>5, <1>6 DEF SInv, Slots, Booting

LEMMA CandidatesOn == \A j \in Candidates : mem.config[j] = "on"
  BY DEF Candidates, MissedJobs, Missed

LEMMA PlanSlots == ASSUME IInv, SInv, IInv', PlanSection PROVE SInv'
<1>1. /\ chain # <<>> /\ chain[1][1] = "start" /\ pc["start"] = "plan" /\ excused' = excused
  BY DEF PlanSection, HeadIs
<1>2. mem \in StoreType
  BY DEF IInv, Typed
<1>3. /\ now' = now /\ promised' = Owe(mem', now, {})
      /\ \/ mem' = mem /\ disk' = disk
         \/ mem' = Marked(mem, Candidates) /\ disk' = mem'
      /\ run' = run \/ run' = [run EXCEPT !["start"] = Taken(Candidates)]
      /\ \/ pc' = [pc EXCEPT !["start"] = "finish"]
         \/ pc' = [pc EXCEPT !["start"] = "apply"]
         \/ pc' = [pc EXCEPT !["start"] = "runs"]
  <2>1. CASE MissedJobs = {}
    BY <2>1 DEF PlanSection, Leave
  <2>2. CASE MissedJobs # {}
    BY <2>2 DEF PlanSection, Save, Leave, Taken
  <2> QED BY <2>1, <2>2
<1>4. pc'["start"] \in {"finish", "apply", "runs"}
  BY <1>3, ManualFacts DEF IInv, Typed
<1>5. \A r \in Runners, j \in Jobs :
        \/ run'[r][j] = run[r][j]
        \/ run'[r][j].start = 0 /\ run'[r][j].end = 0 /\ run'[r][j].pc \in {"none", "waiting"}
  BY <1>3, BlankRuns DEF IInv, Typed
<1>6. Timed'
  <2>1. Fits(Marked(mem, Candidates), now)
    BY <1>2, MarkedFits DEF SInv, Timed, IInv
  <2>2. Fits(mem', now) /\ Fits(disk', now)
    BY <1>3, <2>1 DEF SInv, Timed
  <2>3. RunTimes'
    BY <1>3, <1>5, TimesKept DEF SInv, Timed
  <2> QED BY <1>3, <2>2, <2>3 DEF Timed, Fits, Fit
<1>7. ASSUME NEW j \in Jobs \ excused'
      PROVE  SlotAt(j)'
  <2>1. SlotAt(j)
    BY <1>1 DEF SInv, Slots
  <2>2. Keeps(mem, mem', j) /\ Like(disk', mem', j)
    <3>1. Keeps(mem, Marked(mem, Candidates), j)
      BY <1>2, CandidatesOn, MarkedFits DEF Keeps, IInv
    <3> QED BY <1>3, <2>1, <3>1 DEF Keeps, SlotAt, Like
  <2>3. Owed(j)' /\ Begun(j)'
    <3>1. promised'[j] = Owe(mem', now, {})[j]
      BY <1>3
    <3>2. \A r \in Runners : run'[r][j].pc \in {"executing", "ended"}
                                => run[r][j].pc \in {"executing", "ended"}
      BY <1>5
    <3>3. Carried(mem, j, promised[j]) => Carried(mem', j, promised[j])
      BY <2>2 DEF Keeps
    <3> QED BY <2>1, <3>1, <3>2, <3>3, PromiseKept DEF SlotAt
  <2>4. Inert(mem', j) /\ Asleep(mem', j)
    BY <1>1, <2>1, <2>2 DEF SlotAt, Keeps
  <2> QED BY <1>4, <2>2, <2>3, <2>4 DEF SlotAt, Inert, Asleep
<1> QED BY <1>4, <1>6, <1>7 DEF SInv, Slots, Booting

LEMMA ApplySlots == ASSUME Unrepaired, IInv, SInv, IInv', StartApply PROVE SInv'
<1> DEFINE s == ApplyAll(mem, "start")
<1>1. /\ chain # <<>> /\ chain[1][1] = "start" /\ pc["start"] = "apply" /\ now' = now
      /\ mem' = CaughtUpStore /\ disk' = CaughtUpStore
      /\ promised' = [j \in Jobs |-> IF j \in PutOff(s) THEN now + Stagger
                                     ELSE Owe(CaughtUpStore, now, {})[j]]
      /\ pc' = [pc EXCEPT !["start"] = "finish"]
      /\ run' = [run EXCEPT !["start"] = Idle]
      /\ excused' = excused \union Aged(s)
  BY DEF StartApply, HeadIs
<1>2. pc'["start"] = "finish"
  BY <1>1, ManualFacts DEF IInv, Typed
<1>3. \A r \in Runners, j \in Jobs : run'[r][j] = run[r][j] \/ run'[r][j] = NoRun
  BY <1>1, BlankRuns DEF IInv, Typed
<1>4. \A r \in Runners, j \in Jobs : run'[r][j].pc = "none"
  <2>1. \A r \in Runners, j \in Jobs : Held(r, j) => r = "start"
    BY <1>1, StartFacts
  <2>2. \A j \in Jobs : run'["start"][j] = NoRun
    BY <1>1, BlankRuns, ManualFacts DEF IInv, Typed
  <2> QED BY <1>3, <2>1, <2>2, BlankRuns DEF Held
<1>5. /\ Fits(CaughtUpStore, now)
      /\ \A j \in Jobs : ~IsStuck(s.state[j], now) =>
            /\ Inert(CaughtUpStore, j) /\ Asleep(CaughtUpStore, j) /\ Planned(CaughtUpStore, j)
            /\ j \in PutOff(s) => Carried(CaughtUpStore, j, now + Stagger)
            /\ j \notin Ended("start") /\ j \notin PutOff(s) =>
                  \A p : Carried(mem, j, p) => Carried(CaughtUpStore, j, p)
  BY CaughtUpSlots DEF IInv, SInv, Timed
<1> HIDE DEF s
<1>6. Timed'
  <2>1. RunTimes'
    BY <1>1, <1>3, BlankRuns, TimesKept DEF SInv, Timed
  <2> QED BY <1>1, <1>5, <2>1 DEF Timed, Fits, Fit
<1>7. ASSUME NEW j \in Jobs \ excused'
      PROVE  SlotAt(j)'
  <2>1. SlotAt(j) /\ ~IsStuck(s.state[j], now)
    BY <1>1 DEF SInv, Slots, Aged
  <2>2. Inert(mem', j) /\ Asleep(mem', j) /\ Planned(mem', j)
    BY <1>1, <1>5, <2>1
  <2>3. Begun(j)'
    BY <1>4 DEF Begun
  <2>4. CASE j \in PutOff(s)
    <3>1. promised'[j] = now + Stagger /\ Carried(mem', j, now + Stagger)
      BY <1>1, <1>5, <2>1, <2>4
    <3> QED BY <1>1, <2>2, <2>3, <3>1 DEF SlotAt, Owed, Like, Inert, Asleep, Planned
  <2>5. CASE j \notin PutOff(s)
    <3>1. promised'[j] = Owe(mem', now, {})[j]
      BY <1>1, <2>5
    <3>2. promised[j] # 0 => j \notin Ended("start")
      BY <2>1, ManualFacts DEF SlotAt, Begun, Ended
    <3>3. promised[j] # 0 /\ Carried(mem, j, promised[j]) => Carried(mem', j, promised[j])
      BY <1>1, <1>5, <2>1, <2>5, <3>2
    <3>4. Owed(j)'
      BY <1>4, <2>1, <3>1, <3>3, PromiseKept DEF SlotAt
    <3> QED BY <1>1, <2>2, <2>3, <3>4 DEF SlotAt, Like, Inert, Asleep, Planned
  <2> QED BY <2>4, <2>5
<1> QED BY <1>2, <1>6, <1>7 DEF SInv, Slots, Booting

(* A store that is saved only if it changed.                                 *)
LEMMA SavedIfChanged ==
    ASSUME NEW s, NEW old, SaveIfChanged(s, old)
    PROVE  /\ mem' = s /\ now' = now /\ promised' = Owe(s, now, {})
           /\ disk' = s \/ (disk' = disk /\ s = old)
  BY DEF SaveIfChanged, Leave

LEMMA StartFinishSlots == ASSUME Unrepaired, IInv, SInv, IInv', StartFinish PROVE SInv'
<1>1. /\ pc["start"] = "finish" /\ SaveIfChanged(StartedStore, mem)
      /\ pc' = [pc EXCEPT !["start"] = "idle"] /\ run' = run
      /\ excused' = excused \union Aged(mem)
  BY DEF StartFinish, HeadIs
<1>2. /\ mem' = StartedStore /\ now' = now /\ promised' = Owe(StartedStore, now, {})
      /\ disk' = StartedStore \/ (disk' = disk /\ mem' = mem)
  BY <1>1, SavedIfChanged
<1>3. pc'["start"] = "idle"
  BY <1>1, ManualFacts DEF IInv, Typed
<1>4. /\ Fits(StartedStore, now)
      /\ \A j \in Jobs : ~IsStuck(mem.state[j], now) => Tidied(mem, StartedStore, j)
  BY StartedSlots DEF IInv, SInv, Timed
<1>5. Timed'
  BY <1>1, <1>2, <1>4 DEF SInv, Timed, Fits, Fit, RunTimes
<1>6. ASSUME NEW j \in Jobs \ excused'
      PROVE  SlotAt(j)'
  <2>1. SlotAt(j) /\ ~IsStuck(mem.state[j], now)
    BY <1>1 DEF SInv, Slots, Aged
  <2>2. Tidied(mem, mem', j)
    BY <1>2, <1>4, <2>1
  <2>3. Like(disk', mem', j)
    BY <1>2, <2>1 DEF SlotAt, Like
  <2>4. Owed(j)' /\ Begun(j)'
    <3>1. promised'[j] = Owe(mem', now, {})[j]
      BY <1>2
    <3>2. Carried(mem, j, promised[j]) => Carried(mem', j, promised[j])
      BY <2>2 DEF Tidied
    <3> QED BY <1>1, <2>1, <3>1, <3>2, PromiseKept DEF SlotAt
  <2>5. Inert(mem', j) /\ Asleep(mem', j) /\ Planned(mem', j)
    BY <2>2 DEF Tidied
  <2> QED BY <2>3, <2>4, <2>5 DEF SlotAt, Inert, Asleep, Planned
<1> QED BY <1>3, <1>5, <1>6 DEF SInv, Slots, Booting

----------------------------------------------------------------------------
(* The timer and the manual runs keep them.                                  *)

(* A section after the startup: it is enough to compare the stores it leaves *)
(* with the one in memory, for the jobs nothing interfered with.             *)
LEMMA SectionSlots ==
    ASSUME IInv, SInv, IInv', now' = now, pc["start"] = "idle", pc'["start"] = "idle",
           Fits(mem', now), Fits(disk', now), RunTimes', excused \subseteq excused',
           NEW over, promised' = Owe(mem', now, over),
           \A j \in Jobs \ excused' :
              /\ Like(disk', mem', j)
              /\ Inert(mem', j) /\ Asleep(mem', j) /\ Planned(mem', j)
              /\ promised[j] # 0 /\ j \notin over /\ Carried(mem, j, promised[j])
                    => Carried(mem', j, promised[j])
              /\ \A r \in Runners : run'[r][j].pc \in {"executing", "ended"}
                    => run[r][j].pc \in {"executing", "ended"} \/ j \in over
    PROVE  SInv'
<1>1. Timed' /\ Booting'
  BY DEF Timed, Booting, Fits, Fit
<1>2. ASSUME NEW j \in Jobs \ excused'
      PROVE  SlotAt(j)'
  <2>1. SlotAt(j)
    BY DEF SInv, Slots
  <2>2. promised'[j] = Owe(mem', now, over)[j]
    OBVIOUS
  <2>3. Owed(j)' /\ Begun(j)'
    BY <2>1, <2>2, PromiseKept DEF SlotAt
  <2> QED BY <2>3 DEF SlotAt, Like, Inert, Asleep, Planned
<1> QED BY <1>1, <1>2 DEF SInv, Slots

(* What the files hold of a job is what the memory holds of it.              *)
LEMMA LoadedAt ==
    ASSUME IInv, SInv, NEW j \in Jobs \ excused
    PROVE  /\ Like(Loaded, mem, j) /\ Like(mem, Loaded, j) /\ Like(disk, Loaded, j)
           /\ \A p : Carried(mem, j, p) => Carried(Loaded, j, p)
           /\ Inert(Loaded, j)
           /\ pc["start"] = "idle" => Asleep(Loaded, j) /\ Planned(Loaded, j)
<1>1. SlotAt(j)
  BY DEF SInv, Slots
<1>2. Like(Loaded, mem, j)
  BY <1>1, LoadedFits DEF SlotAt, SInv, Timed, IInv
<1>3. Like(mem, Loaded, j)
  BY <1>2, LikeMeans
<1>4. Like(disk, Loaded, j)
  BY <1>1, <1>3, LikeChain DEF SlotAt
<1> QED BY <1>1, <1>2, <1>3, <1>4, LikeMeans DEF SlotAt

LEMMA TickMarkSlots == ASSUME Unrepaired, IInv, SInv, IInv', TickMark PROVE SInv'
<1>1. /\ chain # <<>> /\ chain[1][1] = "tick"
      /\ Due = {} => SaveIfChanged(TickStore, Loaded) /\ excused' = excused \union Aged(Loaded)
      /\ Due # {} => Save(TickStore, {}) /\ excused' = excused
      /\ pc' = [pc EXCEPT !["tick"] = IF Due = {} THEN "idle" ELSE "runs"]
      /\ run' = [run EXCEPT !["tick"] = Taken(Due)]
  BY DEF TickMark, HeadIs, Taken
<1>2. /\ mem' = TickStore /\ now' = now /\ promised' = Owe(mem', now, {})
      /\ disk' = TickStore \/ (disk' = disk /\ TickStore = Loaded)
  <2>1. CASE Due = {}
    BY <1>1, <2>1, SavedIfChanged
  <2>2. CASE Due # {}
    BY <1>1, <2>2 DEF Save, Leave
  <2> QED BY <2>1, <2>2
<1>3. pc["start"] = "idle" /\ pc'["start"] = "idle"
  BY <1>1, AwakeFacts, ManualFacts DEF IInv, Typed
<1>4. \A r \in Runners, j \in Jobs :
        \/ run'[r][j] = run[r][j]
        \/ run'[r][j].start = 0 /\ run'[r][j].end = 0 /\ run'[r][j].pc \in {"none", "waiting"}
  BY <1>1, BlankRuns DEF IInv, Typed
<1>5. RunTimes'
  BY <1>2, <1>4, TimesKept DEF SInv, Timed
<1>6. /\ Fits(TickStore, now)
      /\ \A j \in Jobs : (Due = {} => ~IsStuck(Loaded.state[j], now)) => Keeps(Loaded, TickStore, j)
  BY TickSlots DEF IInv, SInv, Timed
<1>7. Fits(mem', now) /\ Fits(disk', now)
  BY <1>2, <1>6 DEF SInv, Timed
<1>8. excused \subseteq excused'
  BY <1>1
<1>9. ASSUME NEW j \in Jobs \ excused'
      PROVE  /\ Like(disk', mem', j)
             /\ Inert(mem', j) /\ Asleep(mem', j) /\ Planned(mem', j)
             /\ \A p : Carried(mem, j, p) => Carried(mem', j, p)
  <2>1. j \in Jobs \ excused /\ (Due = {} => ~IsStuck(Loaded.state[j], now))
    BY <1>1 DEF Aged
  <2>2. Keeps(Loaded, mem', j)
    BY <1>2, <1>6, <2>1
  <2>3. Like(disk', mem', j)
    <3>1. CASE disk' = TickStore
      BY <1>2, <3>1 DEF Like
    <3>2. CASE disk' = disk /\ TickStore = Loaded
      BY <1>2, <2>1, <3>2, LoadedAt
    <3> QED BY <1>2, <3>1, <3>2
  <2> QED BY <1>3, <2>1, <2>2, <2>3, LoadedAt DEF Keeps
<1> QED BY <1>2, <1>3, <1>4, <1>5, <1>7, <1>8, <1>9, SectionSlots

LEMMA TickApplySlots == ASSUME Unrepaired, IInv, SInv, IInv', TickApply PROVE SInv'
<1> DEFINE s == ApplyAll(Loaded, "tick")
<1>1. /\ chain # <<>> /\ chain[1][1] = "tick"
      /\ Save(TickedStore, {}) /\ excused' = excused \union Aged(s)
      /\ pc' = [pc EXCEPT !["tick"] = "idle"]
      /\ run' = [run EXCEPT !["tick"] = Idle]
  BY DEF TickApply, HeadIs
<1>2. mem' = TickedStore /\ disk' = TickedStore /\ now' = now /\ promised' = Owe(mem', now, {})
  BY <1>1 DEF Save, Leave
<1>3. pc["start"] = "idle" /\ pc'["start"] = "idle"
  BY <1>1, AwakeFacts, ManualFacts DEF IInv, Typed
<1>4. \A r \in Runners, j \in Jobs : run'[r][j] = run[r][j] \/ run'[r][j] = NoRun
  BY <1>1, BlankRuns DEF IInv, Typed
<1>5. RunTimes'
  BY <1>2, <1>4, BlankRuns, TimesKept DEF SInv, Timed
<1>6. /\ Fits(TickedStore, now)
      /\ \A j \in Jobs : ~IsStuck(s.state[j], now) =>
            /\ Inert(TickedStore, j) /\ Asleep(TickedStore, j) /\ Planned(TickedStore, j)
            /\ j \notin Ended("tick") =>
                  \A p : Carried(Loaded, j, p) => Carried(TickedStore, j, p)
  BY TickedSlots DEF IInv, SInv, Timed
<1> HIDE DEF s
<1>7. ASSUME NEW j \in Jobs \ excused'
      PROVE  /\ Like(disk', mem', j)
             /\ Inert(mem', j) /\ Asleep(mem', j) /\ Planned(mem', j)
             /\ promised[j] # 0 /\ Carried(mem, j, promised[j]) => Carried(mem', j, promised[j])
  <2>1. j \in Jobs \ excused /\ ~IsStuck(s.state[j], now)
    BY <1>1 DEF Aged
  <2>2. promised[j] # 0 => j \notin Ended("tick")
    BY <2>1, ManualFacts DEF SInv, Slots, SlotAt, Begun, Ended
  <2>3. Like(disk', mem', j)
    BY <1>2 DEF Like
  <2> QED BY <1>2, <1>6, <2>1, <2>2, <2>3, LoadedAt
<1>8. \A r \in Runners, j \in Jobs : run'[r][j].pc \in {"executing", "ended"}
                                        => run[r][j].pc \in {"executing", "ended"}
  BY <1>4, BlankRuns
<1>9. Fits(mem', now) /\ Fits(disk', now) /\ excused \subseteq excused'
  BY <1>1, <1>2, <1>6
<1> QED BY <1>2, <1>3, <1>5, <1>7, <1>8, <1>9, SectionSlots

(* A manual run of which a section is in front. *)
LEMMA ManualFront ==
    ASSUME IInv, NEW m \in Manuals, chain # <<>>, chain[1][1] = m, NEW at, pc' = [pc EXCEPT ![m] = at]
    PROVE  pc["start"] = "idle" /\ pc'["start"] = "idle"
<1>1. m \in Runners \ {"start"}
  BY ManualFacts DEF Scheduled
<1> QED BY <1>1, AwakeFacts, ManualFacts DEF IInv, Typed

LEMMA PreflightSlots ==
    ASSUME Unrepaired, IInv, SInv, IInv', NEW m \in Manuals, Preflight(m)
    PROVE  SInv'
<1> DEFINE j == ManualJob[m]
           s == Maintenance(mem, now, FALSE, TRUE)
<1>1. /\ chain # <<>> /\ chain[1][1] = m /\ pc[m] = "preflight"
      /\ Leave(s, {}) /\ disk' = disk /\ excused' = excused \union Aged(mem)
      /\ pc' = [pc EXCEPT ![m] = "reserve"] \/ pc' = [pc EXCEPT ![m] = "done"]
      /\ run' = run \/ run' = [run EXCEPT ![m][j].start = now]
  BY DEF Preflight, HeadIs
<1>2. mem' = s /\ now' = now /\ promised' = Owe(mem', now, {})
  BY <1>1 DEF Leave
<1>3. pc["start"] = "idle" /\ pc'["start"] = "idle"
  BY <1>1, ManualFront
<1>4. j \in Jobs /\ m \in Runners
  BY ManualFacts
<1>5. run[m][j].pc = "none"
  BY <1>1, <1>4 DEF IInv, Places, At, Held
<1>6. \A r \in Runners, i \in Jobs :
        \/ run'[r][i] = run[r][i]
        \/ run'[r][i].start = now /\ run'[r][i].end = run[r][i].end /\ run'[r][i].pc = "none"
  <2>1. CASE run' = run
    BY <2>1
  <2>2. CASE run' = [run EXCEPT ![m][j].start = now]
    <3> DEFINE res == [run[m][j] EXCEPT !.start = now]
    <3>1. run' = [run EXCEPT ![m] = [run[m] EXCEPT ![j] = res]]
      BY <2>2
    <3>2. res.start = now /\ res.end = run[m][j].end /\ res.pc = "none"
      BY <1>4, <1>5 DEF IInv, Typed, RunType
    <3> HIDE DEF res
    <3>3. \A r \in Runners, i \in Jobs : run'[r][i] = IF r = m /\ i = j THEN res ELSE run[r][i]
      BY <1>4, <3>1 DEF IInv, Typed
    <3> QED BY <3>2, <3>3
  <2> QED BY <1>1, <2>1, <2>2
<1>7. RunTimes'
  BY <1>2, <1>6, TimesKept DEF SInv, Timed
<1>8. mem \in StoreType /\ now \in Nat
  BY NowFact DEF IInv, Typed
<1>9. Fits(mem', now) /\ Fits(disk', now)
  BY <1>1, <1>2, <1>8, MaintenanceFits DEF SInv, Timed
<1>10. ASSUME NEW i \in Jobs \ excused'
       PROVE  /\ Like(disk', mem', i)
              /\ Inert(mem', i) /\ Asleep(mem', i) /\ Planned(mem', i)
              /\ \A p : Carried(mem, i, p) => Carried(mem', i, p)
  <2>1. SlotAt(i) /\ ~IsStuck(mem.state[i], now)
    BY <1>1 DEF Aged, SInv, Slots
  <2>2. Fit(i, mem.state[i], now)
    BY DEF SInv, Timed, Fits
  <2>3. Inert(mem, i) /\ Asleep(mem, i) /\ Planned(mem, i) /\ Like(disk, mem, i)
    BY <1>3, <2>1 DEF SlotAt
  <2>4. Like(s, mem, i)
    BY <1>8, <2>1, <2>2, <2>3, MaintenanceGood
  <2>5. Like(mem, s, i)
    BY <2>4, LikeMeans
  <2>6. Like(disk, s, i)
    BY <2>3, <2>5, LikeChain
  <2> QED BY <1>1, <1>2, <2>3, <2>5, <2>6, LikeMeans
<1>11. excused \subseteq excused'
  BY <1>1
<1>12. \A r \in Runners, i \in Jobs : run'[r][i].pc \in {"executing", "ended"}
                                        => run[r][i].pc \in {"executing", "ended"}
  BY <1>6
<1> QED BY <1>2, <1>3, <1>7, <1>9, <1>10, <1>11, <1>12, SectionSlots

(* A section that leaves both stores as they are. *)
LEMMA LeftAlone ==
    ASSUME IInv, SInv, IInv', Leave(mem, {}), disk' = disk, excused' = excused,
           pc["start"] = "idle", pc'["start"] = "idle", RunTimes',
           \A r \in Runners, i \in Jobs : run'[r][i].pc \in {"executing", "ended"}
                                        => run[r][i].pc \in {"executing", "ended"}
    PROVE  SInv'
<1>1. mem' = mem /\ now' = now /\ promised' = Owe(mem', now, {})
  BY DEF Leave
<1>2. Fits(mem', now) /\ Fits(disk', now)
  BY <1>1 DEF SInv, Timed
<1>3. ASSUME NEW i \in Jobs \ excused'
      PROVE  Like(disk', mem', i) /\ Inert(mem', i) /\ Asleep(mem', i) /\ Planned(mem', i)
  BY <1>1 DEF SInv, Slots, SlotAt
<1> QED BY <1>1, <1>2, <1>3, SectionSlots

LEMMA ReserveSlots ==
    ASSUME Unrepaired, IInv, SInv, IInv', NEW m \in Manuals, Reserve(m)
    PROVE  SInv'
<1> DEFINE j == ManualJob[m]
<1>1. /\ chain # <<>> /\ chain[1][1] = m /\ pc[m] = "reserve"
  BY DEF Reserve, HeadIs
<1>2. j \in Jobs /\ m \in Runners
  BY ManualFacts
<1>3. CASE Unavailable(m)
  <2>1. /\ Leave(mem, {}) /\ disk' = disk /\ excused' = excused
        /\ pc' = [pc EXCEPT ![m] = "done"] /\ run' = [run EXCEPT ![m] = Idle]
    BY <1>3 DEF Reserve
  <2>2. pc["start"] = "idle" /\ pc'["start"] = "idle"
    BY <1>1, <2>1, ManualFront
  <2>3. \A r \in Runners, i \in Jobs : run'[r][i] = run[r][i] \/ run'[r][i] = NoRun
    BY <2>1, BlankRuns DEF IInv, Typed
  <2>4. RunTimes'
    BY <2>1, <2>3, BlankRuns, TimesKept DEF SInv, Timed, Leave
  <2> QED BY <2>1, <2>2, <2>3, <2>4, BlankRuns, LeftAlone
<1>4. CASE ~Unavailable(m)
  <2>1. /\ Save(ReservedStore(m), {j}) /\ pc' = [pc EXCEPT ![m] = "run"]
        /\ run' = [run EXCEPT ![m][j].pc = "executing"]
        /\ excused' = IF mem.config[j] = "off" THEN excused \union {j} ELSE excused
    BY <1>4 DEF Reserve
  <2>2. /\ mem' = ReservedStore(m) /\ disk' = ReservedStore(m) /\ now' = now
        /\ promised' = Owe(mem', now, {j})
    BY <2>1 DEF Save, Leave
  <2>3. pc["start"] = "idle" /\ pc'["start"] = "idle"
    BY <1>1, <2>1, ManualFront
  <2>4. /\ \A r \in Runners, i \in Jobs : r # m \/ i # j => run'[r][i] = run[r][i]
        /\ run'[m][j].pc = "executing" /\ run'[m][j].start = run[m][j].start
        /\ run'[m][j].end = run[m][j].end
    <3> DEFINE res == [run[m][j] EXCEPT !.pc = "executing"]
    <3>1. run' = [run EXCEPT ![m] = [run[m] EXCEPT ![j] = res]]
      BY <2>1
    <3>2. res.pc = "executing" /\ res.end = run[m][j].end /\ res.start = run[m][j].start
      BY <1>2 DEF IInv, Typed, RunType
    <3> HIDE DEF res
    <3> QED BY <1>2, <3>1, <3>2 DEF IInv, Typed
  <2>5. RunTimes'
    <3>1. ASSUME NEW r \in Runners, NEW i \in Jobs
          PROVE  /\ run'[r][i].start <= now /\ run'[r][i].end <= now
                 /\ run'[r][i].pc = "ended" => run'[r][i].start <= run'[r][i].end
      <4>1. /\ run[r][i].start <= now /\ run[r][i].end <= now
            /\ run[r][i].pc = "ended" => run[r][i].start <= run[r][i].end
        BY DEF SInv, Timed, RunTimes
      <4>2. CASE r = m /\ i = j
        BY <2>4, <4>1, <4>2
      <4>3. CASE r # m \/ i # j
        BY <2>4, <4>1, <4>3
      <4> QED BY <4>2, <4>3
    <3> QED BY <2>2, <3>1 DEF RunTimes
  <2>6. /\ Fits(ReservedStore(m), now)
        /\ \A i \in Jobs :
                /\ i = j => mem.config[i] = "on" /\ run[m][i].start # 0
                => Keeps(mem, ReservedStore(m), i)
    BY ReservedSlots DEF IInv, SInv, Timed
  <2>7. run[m][j].start # 0
    BY <1>1, <1>2 DEF IInv, Places, At
  <2>8. ASSUME NEW i \in Jobs \ excused'
        PROVE  /\ Like(disk', mem', i)
               /\ Inert(mem', i) /\ Asleep(mem', i) /\ Planned(mem', i)
               /\ \A p : Carried(mem, i, p) => Carried(mem', i, p)
    <3>1. SlotAt(i)
      BY <2>1 DEF SInv, Slots
    <3>2. i = j => mem.config[i] = "on"
      <4>1. mem.config[j] \in {"on", "off", "none"}
        BY <1>2 DEF IInv, Typed, StoreType
      <4> QED BY <1>4, <2>1, <4>1 DEF Unavailable
    <3>3. Keeps(mem, mem', i)
      BY <2>2, <2>6, <2>7, <3>2
    <3>4. Like(disk', mem', i)
      BY <2>2 DEF Like
    <3> QED BY <2>3, <3>1, <3>3, <3>4 DEF SlotAt, Keeps
  <2>9. \A r \in Runners, i \in Jobs : run'[r][i].pc \in {"executing", "ended"}
                => run[r][i].pc \in {"executing", "ended"} \/ i \in {j}
    BY <2>4
  <2>10. Fits(mem', now) /\ Fits(disk', now) /\ excused \subseteq excused'
    BY <2>1, <2>2, <2>6
  <2> QED BY <2>2, <2>3, <2>5, <2>8, <2>9, <2>10, SectionSlots
<1> QED BY <1>3, <1>4

LEMMA FinishSlots ==
    ASSUME Unrepaired, IInv, SInv, IInv', NEW m \in Manuals, Finish(m)
    PROVE  SInv'
<1> DEFINE j == ManualJob[m]
<1>1. /\ chain # <<>> /\ chain[1][1] = m /\ pc[m] = "finish"
      /\ pc' = [pc EXCEPT ![m] = "done"] /\ run' = [run EXCEPT ![m] = Idle]
  BY DEF Finish, HeadIs
<1>2. j \in Jobs /\ m \in Runners
  BY ManualFacts
<1>3. pc["start"] = "idle" /\ pc'["start"] = "idle"
  BY <1>1, ManualFront
<1>4. \A r \in Runners, i \in Jobs : run'[r][i] = run[r][i] \/ run'[r][i] = NoRun
  BY <1>1, BlankRuns DEF IInv, Typed
<1>5. \A r \in Runners, i \in Jobs : run'[r][i].pc \in {"executing", "ended"}
                                        => run[r][i].pc \in {"executing", "ended"}
  BY <1>4, BlankRuns
<1>6. CASE mem.config[j] = "none"
  <2>1. Leave(mem, {}) /\ disk' = disk /\ excused' = excused
    BY <1>6 DEF Finish
  <2>2. RunTimes'
    BY <2>1, <1>4, BlankRuns, TimesKept DEF SInv, Timed, Leave
  <2> QED BY <1>3, <1>5, <2>1, <2>2, LeftAlone
<1>7. CASE mem.config[j] # "none"
  <2>1. Save(FinishedStore(m), {}) /\ excused' = excused \union Aged(Loaded)
    BY <1>7 DEF Finish
  <2>2. /\ mem' = FinishedStore(m) /\ disk' = FinishedStore(m) /\ now' = now
        /\ promised' = Owe(mem', now, {})
    BY <2>1 DEF Save, Leave
  <2>3. RunTimes'
    BY <2>2, <1>4, BlankRuns, TimesKept DEF SInv, Timed
  <2>4. run[m][j].pc = "ended"
    <3>1. run[m][j].pc \in {"none", "waiting", "executing", "ended"}
      BY <1>2 DEF IInv, Typed, RunType
    <3> QED BY <1>1, <1>2, <3>1 DEF IInv, Places, At, Held
  <2>5. /\ Fits(FinishedStore(m), now)
        /\ \A i \in Jobs :
                /\ ~IsStuck(Loaded.state[i], now)
                /\ i = j => i \in Ended(m) /\ mem.config[i] # "none"
                =>
                    /\ Inert(FinishedStore(m), i) /\ Asleep(FinishedStore(m), i)
                    /\ Planned(FinishedStore(m), i)
                    /\ i # j =>
                          \A p : Carried(Loaded, i, p) => Carried(FinishedStore(m), i, p)
    BY FinishedSlots DEF IInv, SInv, Timed
  <2>6. ASSUME NEW i \in Jobs \ excused'
        PROVE  /\ Like(disk', mem', i)
               /\ Inert(mem', i) /\ Asleep(mem', i) /\ Planned(mem', i)
               /\ promised[i] # 0 /\ Carried(mem, i, promised[i]) => Carried(mem', i, promised[i])
    <3>1. i \in Jobs \ excused /\ ~IsStuck(Loaded.state[i], now)
      BY <2>1 DEF Aged
    <3>2. i = j => i \in Ended(m) /\ promised[i] = 0
      BY <1>2, <2>4, <3>1 DEF Ended, SInv, Slots, SlotAt, Begun
    <3>3. Like(disk', mem', i)
      BY <2>2 DEF Like
    <3> QED BY <1>7, <2>2, <2>5, <3>1, <3>2, <3>3, LoadedAt
  <2>7. Fits(mem', now) /\ Fits(disk', now) /\ excused \subseteq excused'
    BY <2>1, <2>2, <2>5
  <2> QED BY <1>3, <1>5, <2>2, <2>3, <2>6, <2>7, SectionSlots
<1> QED BY <1>6, <1>7

----------------------------------------------------------------------------
(* The beginning of a run, the operations and a save that fails keep them.   *)

(* What the beginning of a run changes.                                      *)
LEMMA BegunRun ==
    ASSUME IInv, NEW r \in Runners, NEW j \in Jobs, Begin(r, j)
    PROVE  /\ run[r][j].pc = "waiting"
           /\ run'[r][j].pc = "executing" /\ run'[r][j].start = now
           /\ run'[r][j].end = run[r][j].end
           /\ \A s \in Runners, i \in Jobs : s # r \/ i # j => run'[s][i] = run[s][i]
           /\ UNCHANGED <<now, disk, pc, excused>>
<1> DEFINE begun == [run[r][j] EXCEPT !.pc = "executing", !.start = now]
<1>1. /\ run[r][j].pc = "waiting"
      /\ run' = [run EXCEPT ![r] = [run[r] EXCEPT ![j] = begun]]
      /\ UNCHANGED <<now, disk, pc, excused>>
  BY DEF Begin, IInv, Typed, RunType
<1>2. begun.pc = "executing" /\ begun.start = now /\ begun.end = run[r][j].end
  BY DEF IInv, Typed, RunType
<1> HIDE DEF begun
<1>3. /\ run'[r][j] = begun
      /\ \A s \in Runners, i \in Jobs : s # r \/ i # j => run'[s][i] = run[s][i]
  BY <1>1 DEF IInv, Typed
<1> QED BY <1>1, <1>2, <1>3

LEMMA BegunStore ==
    ASSUME IInv, NEW r \in Runners, NEW j \in Jobs, Begin(r, j)
    PROVE  /\ mem'.config = mem.config
           /\ \A i \in Jobs \ {j} : mem'.state[i] = mem.state[i]
           /\ \/ mem'.state[j] = mem.state[j]
              \/ mem'.state[j] = [mem.state[j] EXCEPT !.running = now]
           /\ promised'[j] = 0 /\ \A i \in Jobs \ {j} : promised'[i] = promised[i]
<1> DEFINE st == [mem.state[j] EXCEPT !.running = now]
<1>1. /\ mem' = mem \/ mem' = [mem EXCEPT !.state[j].running = now]
      /\ promised' = [promised EXCEPT ![j] = 0]
  BY DEF Begin
<1>2. mem' = mem \/ mem' = [mem EXCEPT !.state = [mem.state EXCEPT ![j] = st]]
  BY <1>1 DEF IInv, Typed, StoreType
<1>3. promised'[j] = 0 /\ \A i \in Jobs \ {j} : promised'[i] = promised[i]
  BY <1>1 DEF IInv, Typed
<1> HIDE DEF st
<1>4. /\ mem'.config = mem.config
      /\ \A i \in Jobs \ {j} : mem'.state[i] = mem.state[i]
      /\ mem'.state[j] = mem.state[j] \/ mem'.state[j] = st
  BY <1>2 DEF IInv, Typed, StoreType
<1> QED BY <1>3, <1>4 DEF st

LEMMA MarkedState ==
    ASSUME NEW st \in StateType, NEW t
    PROVE  LET w == [st EXCEPT !.running = t] IN
           /\ w.running = t /\ w.next = st.next /\ w.last = st.last
           /\ w.ended = st.ended /\ w.status = st.status
  BY DEF StateType

LEMMA BeginSlots ==
    ASSUME IInv, SInv, IInv', NEW r \in Runners, NEW j \in Jobs, Begin(r, j)
    PROVE  SInv'
<1>1. /\ run[r][j].pc = "waiting"
      /\ run'[r][j].pc = "executing" /\ run'[r][j].start = now
      /\ run'[r][j].end = run[r][j].end
      /\ \A s \in Runners, i \in Jobs : s # r \/ i # j => run'[s][i] = run[s][i]
      /\ promised'[j] = 0 /\ \A i \in Jobs \ {j} : promised'[i] = promised[i]
      /\ UNCHANGED <<now, disk, pc, excused>>
  <2>1. /\ run[r][j].pc = "waiting" /\ run'[r][j].pc = "executing" /\ run'[r][j].start = now
        /\ run'[r][j].end = run[r][j].end /\ UNCHANGED <<now, disk, pc, excused>>
    BY BegunRun
  <2>2. \A s \in Runners, i \in Jobs : s # r \/ i # j => run'[s][i] = run[s][i]
    BY BegunRun
  <2>3. promised'[j] = 0 /\ \A i \in Jobs \ {j} : promised'[i] = promised[i]
    BY BegunStore
  <2> QED BY <2>1, <2>2, <2>3
<1>2. /\ mem'.config = mem.config
      /\ \A i \in Jobs \ {j} : mem'.state[i] = mem.state[i]
  BY BegunStore
<1>3. now \in Nat /\ now # 0 /\ mem.state[j] \in StateType
  BY NowFact DEF IInv, Typed, StoreType
<1>4. /\ mem'.state[j].running \in {mem.state[j].running, now}
      /\ mem'.state[j].next = mem.state[j].next /\ mem'.state[j].last = mem.state[j].last
      /\ mem'.state[j].ended = mem.state[j].ended /\ mem'.state[j].status = mem.state[j].status
  <2>1. CASE mem'.state[j] = mem.state[j]
    BY <2>1
  <2>2. CASE mem'.state[j] = [mem.state[j] EXCEPT !.running = now]
    BY <1>3, <2>2, MarkedState
  <2> QED BY <2>1, <2>2, BegunStore
<1>5. RunTimes'
  BY <1>1, TimesKept DEF SInv, Timed
<1>6. Fits(mem', now) /\ Fits(disk', now)
  <2>1. ASSUME NEW i \in Jobs PROVE Fit(i, mem'.state[i], now)
    <3>1. Fit(i, mem.state[i], now)
      BY DEF SInv, Timed, Fits
    <3>2. CASE i = j
      BY <1>3, <1>4, <3>1, <3>2 DEF Fit
    <3> QED BY <1>2, <3>1, <3>2
  <2> QED BY <1>1, <2>1 DEF Fits, SInv, Timed
<1>7. Timed' /\ Booting'
  BY <1>1, <1>5, <1>6 DEF SInv, Timed, Booting, Fits, Fit
<1>8. ASSUME NEW i \in Jobs \ excused'
      PROVE  SlotAt(i)'
  <2>1. SlotAt(i)
    BY <1>1 DEF SInv, Slots
  <2>2. CASE i # j
    <3>1. Owed(i)' /\ Begun(i)'
      BY <1>1, <1>2, <2>1, <2>2 DEF SlotAt, Owed, Begun, Carried
    <3> QED BY <1>1, <1>2, <2>1, <2>2, <3>1 DEF SlotAt, Like, Inert, Asleep, Planned
  <2>3. CASE i = j
    <3>1. On(mem, j) /\ On(disk, j)
      BY <1>1, <2>3 DEF IInv, Safe, SafeAt, Held
    <3>2. Owed(j)' /\ Begun(j)'
      BY <1>1 DEF Owed, Begun
    <3>3. Like(disk', mem', j)
      BY <1>1, <1>2, <1>3, <1>4, <2>1, <2>3, <3>1 DEF SlotAt, Like, On
    <3>4. Inert(mem', j) /\ Asleep(mem', j)
      BY <1>2, <3>1 DEF Inert, Asleep, On
    <3>5. pc'["start"] = "idle" => Planned(mem', j)
      BY <1>1, <1>2, <1>4, <2>1, <2>3 DEF SlotAt, Planned
    <3> QED BY <2>3, <3>2, <3>3, <3>4, <3>5 DEF SlotAt, Inert, Asleep, Planned
  <2> QED BY <2>2, <2>3
<1> QED BY <1>7, <1>8 DEF SInv, Slots

LEMMA OperationSlots == ASSUME Unrepaired, IInv, SInv, IInv', Operation PROVE SInv'
<1> DEFINE op == chain[1][1]
           j == chain[1][2]
<1>1. /\ chain # <<>> /\ op \in Operations /\ pc' = pc /\ run' = run
      /\ Unknown(op, j) => Leave(mem, {}) /\ disk' = disk /\ excused' = excused
      /\ ~Unknown(op, j) /\ op = "read" =>
            SaveIfChanged(HeadStore, mem) /\ excused' = excused \union Aged(mem)
      /\ ~Unknown(op, j) /\ op # "read" =>
            /\ Save(HeadStore, {j})
            /\ excused' = excused \union
                   (IF op = "add" THEN Aged(mem) \union {i \in Jobs : promised[i] # 0}
                    ELSE Active \intersect {j})
  BY DEF Operation, HeadOp
<1>2. j \in Jobs /\ op \notin Runners /\ HeadStore = OpStore(op, j)
  BY <1>1, HeadCases, ManualFacts
<1>3. pc["start"] = "idle" /\ pc'["start"] = "idle"
  BY <1>1, <1>2, AwakeFacts, ManualFacts
<1> HIDE DEF op, j
<1>4. RunTimes' /\ now' = now
  <2>1. now' = now
    BY <1>1, SavedIfChanged DEF Save, Leave
  <2> QED BY <1>1, <2>1 DEF SInv, Timed, RunTimes
<1>5. /\ Fits(OpStore(op, j), now)
      /\ \A i \in Jobs : op = "read" /\ ~IsStuck(mem.state[i], now) => Tidied(mem, OpStore(op, j), i)
      /\ \A i \in Jobs : op = "add" /\ ~IsStuck(mem.state[i], now) =>
            Inert(OpStore(op, j), i) /\ Asleep(OpStore(op, j), i) /\ Planned(OpStore(op, j), i)
      /\ op \notin {"read", "add"} =>
            /\ Inert(OpStore(op, j), j) /\ Asleep(OpStore(op, j), j) /\ Planned(OpStore(op, j), j)
            /\ \A i \in Jobs \ {j} : Keeps(mem, OpStore(op, j), i)
  BY <1>1, <1>2, OpSlots DEF IInv, SInv, Timed
<1>6. CASE Unknown(op, j)
  BY <1>1, <1>3, <1>4, <1>6, LeftAlone
<1>7. CASE ~Unknown(op, j) /\ op = "read"
  <2>1. /\ mem' = OpStore(op, j) /\ promised' = Owe(mem', now, {})
        /\ disk' = OpStore(op, j) \/ (disk' = disk /\ OpStore(op, j) = mem)
    BY <1>1, <1>2, <1>7, SavedIfChanged
  <2>2. Fits(mem', now) /\ Fits(disk', now) /\ excused \subseteq excused'
    BY <1>1, <1>5, <1>7, <2>1 DEF SInv, Timed
  <2>3. ASSUME NEW i \in Jobs \ excused'
        PROVE  /\ Like(disk', mem', i)
               /\ Inert(mem', i) /\ Asleep(mem', i) /\ Planned(mem', i)
               /\ \A p : Carried(mem, i, p) => Carried(mem', i, p)
    <3>1. SlotAt(i) /\ ~IsStuck(mem.state[i], now)
      BY <1>1, <1>7 DEF Aged, SInv, Slots
    <3>2. Like(disk', mem', i)
      BY <2>1, <3>1 DEF SlotAt, Like
    <3> QED BY <1>5, <1>7, <2>1, <3>1, <3>2 DEF Tidied
  <2> QED BY <1>1, <1>3, <1>4, <2>1, <2>2, <2>3, SectionSlots
<1>8. CASE ~Unknown(op, j) /\ op # "read"
  <2>1. mem' = OpStore(op, j) /\ promised' = Owe(mem', now, {j}) /\ disk' = OpStore(op, j)
    BY <1>1, <1>2, <1>8 DEF Save, Leave
  <2>2. Fits(mem', now) /\ Fits(disk', now) /\ excused \subseteq excused'
    BY <1>1, <1>5, <1>8, <2>1
  <2>3. ASSUME NEW i \in Jobs \ excused'
        PROVE  /\ Like(disk', mem', i)
               /\ Inert(mem', i) /\ Asleep(mem', i) /\ Planned(mem', i)
               /\ promised[i] # 0 /\ i \notin {j} /\ Carried(mem, i, promised[i])
                     => Carried(mem', i, promised[i])
    <3>1. SlotAt(i) /\ i \notin excused
      BY <2>2 DEF SInv, Slots
    <3>2. Like(disk', mem', i)
      BY <2>1 DEF Like
    <3>3. CASE op = "add"
      <4>1. ~IsStuck(mem.state[i], now) /\ promised[i] = 0
        BY <1>1, <1>8, <3>3 DEF Aged
      <4> QED BY <1>5, <2>1, <3>2, <3>3, <4>1
    <3>4. CASE op # "add" /\ i = j
      BY <1>5, <1>8, <2>1, <3>2, <3>4
    <3>5. CASE op # "add" /\ i # j
      <4>1. Keeps(mem, mem', i)
        BY <1>5, <1>8, <2>1, <3>5
      <4> QED BY <1>3, <3>1, <3>2, <4>1 DEF Keeps, SlotAt
    <3> QED BY <3>3, <3>4, <3>5
  <2> QED BY <1>1, <1>3, <1>4, <2>1, <2>2, <2>3, SectionSlots
<1> QED BY <1>6, <1>7, <1>8

(* What of a job is in the files stays there when saving fails.              *)
LEMMA SaveFailsSlots == ASSUME Unrepaired, IInv, SInv, IInv', SaveFails PROVE SInv'
<1> DEFINE s == HeadStore
           who == chain[1][1]
           over == IF HeadOp THEN {chain[1][2]} ELSE {}
<1>1. /\ chain # <<>> /\ mem' = s /\ promised' = Owe(s, now, over)
      /\ excused' = excused \union {j \in Jobs : s.config[j] # disk.config[j]
                                            \/ s.state[j] # disk.state[j]}
      /\ pc' = IF HeadOp THEN pc
               ELSE [pc EXCEPT ![who] = IF who = "tick" THEN "idle" ELSE "done"]
      /\ run' = IF HeadOp THEN run ELSE [run EXCEPT ![who] = Idle]
      /\ UNCHANGED <<now, disk>>
  BY DEF SaveFails, HeadIs, HeadOp
<1>2. /\ \/ who = "tick" \/ HeadOp
         \/ who \in Manuals /\ pc[who] \in {"reserve", "finish"}
      /\ HeadOp => who \notin Runners /\ who \in Operations
      /\ ~HeadOp => who \in Runners /\ who \notin Operations /\ who # "start"
  <2>1. \/ who = "tick" \/ HeadOp
        \/ who \in Manuals /\ pc[who] \in {"reserve", "finish"}
    BY DEF SaveFails, HeadIs
  <2> QED BY <1>1, <2>1, ManualFacts DEF HeadOp, Scheduled
<1>3. ~\E m \in Manuals : HeadIs(m, "preflight")
  BY <1>2, ManualFacts DEF HeadIs, Scheduled, HeadOp
<1>4. Fits(s, now)
  BY <1>1, <1>3, HeadFits DEF SInv, Timed
<1>5. pc["start"] = "idle" /\ pc'["start"] = "idle"
  <2>1. who # "start"
    BY <1>2, ManualFacts
  <2>2. pc["start"] = "idle"
    BY <1>1, <2>1, AwakeFacts
  <2> QED BY <1>1, <2>1, <2>2, ManualFacts DEF IInv, Typed
<1> HIDE DEF s, over
<1>6. \A r \in Runners, i \in Jobs : run'[r][i] = run[r][i] \/ run'[r][i] = NoRun
  BY <1>1, <1>2, BlankRuns DEF IInv, Typed
<1>7. RunTimes'
  BY <1>1, <1>6, BlankRuns, TimesKept DEF SInv, Timed
<1>8. ASSUME NEW i \in Jobs \ excused'
      PROVE  /\ Like(disk', mem', i)
             /\ Inert(mem', i) /\ Asleep(mem', i) /\ Planned(mem', i)
             /\ \A p : Carried(mem, i, p) => Carried(mem', i, p)
  <2>1. SlotAt(i) /\ s.config[i] = disk.config[i] /\ s.state[i] = disk.state[i]
    BY <1>1 DEF SInv, Slots
  <2>2. Like(mem, disk, i)
    BY <2>1, LikeMeans DEF SlotAt
  <2>3. Like(disk, s, i)
    BY <2>1 DEF Like
  <2>4. Like(mem, s, i)
    BY <2>2, <2>3, LikeChain
  <2>5. Inert(mem, i) /\ Asleep(mem, i) /\ Planned(mem, i)
    BY <1>5, <2>1 DEF SlotAt
  <2> QED BY <1>1, <2>3, <2>4, <2>5, LikeMeans
<1>9. \A r \in Runners, i \in Jobs : run'[r][i].pc \in {"executing", "ended"}
                                        => run[r][i].pc \in {"executing", "ended"}
  BY <1>6, BlankRuns
<1>10. Fits(mem', now) /\ Fits(disk', now) /\ excused \subseteq excused'
  BY <1>1, <1>4 DEF SInv, Timed
<1> QED BY <1>1, <1>5, <1>7, <1>8, <1>9, <1>10, SectionSlots

----------------------------------------------------------------------------
(* Crashes keep them; the theorem.                                           *)

(* The results of the runs age no marker. *)
LEMMA StillFresh ==
    ASSUME Typed, NEW s \in StoreType, NEW r \in Runners, NEW j \in Jobs, ~IsStuck(s.state[j], now)
    PROVE  ~IsStuck(ApplyAll(s, r).state[j], now)
<1>1. \/ ApplyAll(s, r).state[j].running = 0
      \/ ApplyAll(s, r).state[j].running = s.state[j].running
  BY AllApplied DEF Typed, Settled
<1> QED BY <1>1 DEF IsStuck

(* Whatever section is at the head, a job that it leaves in the              *)
(* configuration as it was has no more state than it should.                 *)
LEMMA HeadInert ==
    ASSUME Unrepaired, IInv, SInv, chain # <<>>, ~\E m \in Manuals : HeadIs(m, "preflight"),
           Saves(HeadStore), NEW j \in Jobs \ excused,
           ~IsStuck(mem.state[j], now), ~IsStuck(disk.state[j], now)
    PROVE  Inert(HeadStore, j)
<1> DEFINE who == chain[1][1]
<1>1. Typed /\ RunTimes /\ Fits(mem, now) /\ Fits(disk, now)
  BY DEF IInv, SInv, Timed
<1>2. mem \in StoreType /\ disk \in StoreType /\ Loaded \in StoreType
  BY <1>1, LoadedFacts DEF Typed
<1>3. Inert(mem, j) /\ Inert(Loaded, j)
  BY LoadedAt DEF SInv, Slots, SlotAt
<1>4. ~IsStuck(Loaded.state[j], now)
  BY <1>1, LoadedFacts, NoStateType DEF IsStuck
<1>5. CASE who = "start" /\ pc["start"] = "boot" /\ HeadStore = BootStore
  BY <1>1, <1>3, <1>5, BootFits
<1>6. CASE who = "start" /\ pc["start"] = "plan" /\ HeadStore = Marked(mem, Candidates)
  BY <1>1, <1>2, <1>3, <1>6, CandidatesOn, MarkedFits
<1>7. CASE who = "start" /\ pc["start"] = "apply" /\ HeadStore = CaughtUpStore
  <2>1. ~IsStuck(ApplyAll(mem, "start").state[j], now)
    BY <1>1, <1>2, StillFresh, ManualFacts
  <2> QED BY <1>1, <1>7, <2>1, CaughtUpSlots
<1>8. CASE who = "start" /\ pc["start"] = "finish" /\ HeadStore = StartedStore
  BY <1>1, <1>8, StartedSlots DEF Tidied
<1>9. CASE who = "tick" /\ pc["tick"] = "mark" /\ HeadStore = TickStore
  BY <1>1, <1>3, <1>4, <1>9, TickSlots DEF Keeps
<1>10. CASE who = "tick" /\ pc["tick"] = "apply" /\ HeadStore = TickedStore
  <2>1. ~IsStuck(ApplyAll(Loaded, "tick").state[j], now)
    BY <1>1, <1>2, <1>4, StillFresh, ManualFacts
  <2> QED BY <1>1, <1>10, <2>1, TickedSlots
<1>11. CASE who \in Manuals /\ pc[who] = "reserve" /\ HeadStore = ReservedStore(who)
  <2>1. ~Unavailable(who)
    BY <1>11 DEF Saves, HeadIs
  <2> QED BY <1>1, <1>3, <1>11, <2>1, ReservedSlots DEF Unavailable
<1>12. CASE who \in Manuals /\ pc[who] = "finish" /\ HeadStore = FinishedStore(who)
  <2>1. mem.config[ManualJob[who]] # "none"
    BY <1>12 DEF Saves, HeadIs
  <2>2. ManualJob[who] \in Jobs /\ who \in Runners
    BY <1>12, ManualFacts
  <2>3. run[who][ManualJob[who]].pc = "ended"
    <3>1. run[who][ManualJob[who]].pc \in {"none", "waiting", "executing", "ended"}
      BY <2>2 DEF IInv, Typed, RunType
    <3> QED BY <1>12, <2>2, <3>1 DEF IInv, Places, At, Held
  <2>4. j = ManualJob[who] => j \in Ended(who) /\ mem.config[j] # "none"
    BY <2>1, <2>3 DEF Ended
  <2> QED BY <1>1, <1>4, <1>12, <2>4, FinishedSlots
<1>13. CASE /\ who \in Operations /\ chain[1][2] \in Jobs
            /\ HeadStore = OpStore(who, chain[1][2])
  <2>1. CASE who \in {"read", "add"}
    BY <1>1, <1>13, <2>1, OpSlots DEF Tidied
  <2>2. CASE who \notin {"read", "add"}
    BY <1>1, <1>3, <1>13, <2>2, OpSlots DEF Keeps
  <2> QED BY <2>1, <2>2
<1> QED BY <1>5, <1>6, <1>7, <1>8, <1>9, <1>10, <1>11, <1>12, <1>13, HeadCases

(* After a restart nothing is promised until the startup looks.              *)
LEMMA RestartSlots ==
    ASSUME IInv, IInv', Restart, Fits(disk', now), \A j \in Jobs \ excused' : Inert(disk', j)
    PROVE  SInv'
<1>1. /\ mem' = disk' /\ now' = now
      /\ pc' = [r \in Runners |-> IF r = "start" THEN "boot"
                                  ELSE IF r = "tick" \/ pc[r] = "idle" THEN "idle" ELSE "done"]
      /\ run' = [r \in Runners |-> Idle]
      /\ promised' = [j \in Jobs |-> 0]
  BY DEF Restart
<1>2. pc'["start"] = "boot" /\ \A j \in Jobs : promised'[j] = 0
  BY <1>1, ManualFacts
<1>3. \A r \in Runners, j \in Jobs : run'[r][j] = NoRun
  BY <1>1, BlankRuns
<1>4. now \in Nat
  BY NowFact DEF IInv
<1>5. RunTimes'
  BY <1>1, <1>3, <1>4, BlankRuns DEF RunTimes
<1>6. Timed' /\ Booting'
  BY <1>1, <1>2, <1>5 DEF Timed, Booting, Fits, Fit
<1>7. ASSUME NEW j \in Jobs \ excused'
      PROVE  SlotAt(j)'
  <2>1. Owed(j)' /\ Begun(j)'
    BY <1>2, <1>3, BlankRuns DEF Owed, Begun
  <2> QED BY <1>1, <1>2, <2>1 DEF SlotAt, Like, Inert
<1> QED BY <1>6, <1>7 DEF SInv, Slots

LEMMA CrashSlots == ASSUME IInv, SInv, IInv', Crash PROVE SInv'
<1>1. Restart /\ disk' = disk /\ excused' = excused
  BY DEF Crash
<1>2. ASSUME NEW j \in Jobs \ excused
      PROVE  Inert(disk, j)
  <2>1. Like(disk, mem, j) /\ Inert(mem, j)
    BY DEF SInv, Slots, SlotAt
  <2>2. Like(mem, disk, j)
    BY <2>1, LikeMeans
  <2> QED BY <2>1, <2>2, LikeMeans
<1> QED BY <1>1, <1>2, RestartSlots DEF SInv, Timed

LEMMA CrashInSaveSlots == ASSUME Unrepaired, IInv, SInv, IInv', CrashInSave PROVE SInv'
<1> DEFINE s == HeadStore
<1>1. /\ chain # <<>> /\ ~\E m \in Manuals : HeadIs(m, "preflight")
      /\ Saves(s) /\ disk' = [disk EXCEPT !.state = s.state]
      /\ excused' = excused \union {j \in Jobs : s.config[j] # disk.config[j]}
                            \union Aged(mem) \union Aged(disk)
      /\ Restart
  BY DEF CrashInSave
<1>2. s \in StoreType
  BY <1>1, HeadStoreType
<1>3. Fits(s, now)
  BY <1>1, HeadFits DEF SInv, Timed
<1>4. ASSUME NEW j \in Jobs \ excused'
      PROVE  Inert(s, j) /\ s.config[j] = disk.config[j]
  <2>1. /\ j \in Jobs \ excused /\ s.config[j] = disk.config[j]
        /\ ~IsStuck(mem.state[j], now) /\ ~IsStuck(disk.state[j], now)
    BY <1>1 DEF Aged
  <2> QED BY <1>1, <2>1, HeadInert
<1> HIDE DEF s
<1>5. disk'.config = disk.config /\ disk'.state = s.state
  BY <1>1, <1>2 DEF IInv, Typed, StoreType
<1>6. Fits(disk', now) /\ \A j \in Jobs \ excused' : Inert(disk', j)
  BY <1>3, <1>4, <1>5 DEF Fits, Inert
<1> QED BY <1>1, <1>6, RestartSlots

LEMMA InitSlots == ASSUME Init, IInv PROVE SInv
<1> DEFINE config == [j \in Jobs |-> IF j \in Initial THEN "on" ELSE "none"]
           state == [j \in Jobs |-> NoState]
<1>1. /\ now = 1 /\ disk = [config |-> config, state |-> state] /\ mem = disk
      /\ pc = [r \in Runners |-> IF r = "start" THEN "boot" ELSE "idle"]
      /\ run = [r \in Runners |-> Idle]
      /\ promised = [j \in Jobs |-> 0] /\ excused = {}
  BY DEF Init
<1>2. \A j \in Jobs : mem.state[j] = NoState /\ mem.config[j] \in {"on", "none"}
  BY <1>1
<1>3. pc["start"] = "boot" /\ \A j \in Jobs : promised[j] = 0
  BY <1>1, ManualFacts
<1>4. \A r \in Runners, j \in Jobs : run[r][j] = NoRun
  BY <1>1, BlankRuns
<1>5. RunTimes
  BY <1>1, <1>4, BlankRuns DEF RunTimes
<1>6. Fits(mem, now) /\ Fits(disk, now)
  BY <1>1, <1>2, NoState0 DEF Fits
<1>7. ASSUME NEW j \in Jobs \ excused
      PROVE  SlotAt(j)
  <2>1. Owed(j) /\ Begun(j)
    BY <1>3, <1>4, BlankRuns DEF Owed, Begun
  <2>2. Inert(mem, j) /\ Like(disk, mem, j)
    BY <1>1, <1>2 DEF Inert, Like
  <2> QED BY <1>3, <2>1, <2>2 DEF SlotAt
<1> QED BY <1>3, <1>5, <1>6, <1>7 DEF SInv, Timed, Booting, Slots

LEMMA StillSlots == ASSUME IInv, SInv, UNCHANGED vars PROVE SInv'
<1>1. UNCHANGED <<now, mem, disk, pc, run, promised, excused>>
  BY DEF vars
<1>2. Timed' /\ Booting'
  BY <1>1 DEF SInv, Timed, Booting, Fits, Fit, RunTimes
<1>3. ASSUME NEW j \in Jobs \ excused'
      PROVE  SlotAt(j)'
  <2>1. SlotAt(j)
    BY <1>1 DEF SInv, Slots
  <2> QED BY <1>1, <2>1 DEF SlotAt, Like, Inert, Asleep, Planned, Owed, Begun, Carried
<1> QED BY <1>2, <1>3 DEF SInv, Slots

LEMMA NextSlots == ASSUME Unrepaired, IInv, SInv, IInv', [Next]_vars PROVE SInv'
<1>1. CASE Section
  <2>1. CASE StartStep
    BY <2>1, BootSlots, PlanSlots, ApplySlots, StartFinishSlots DEF StartStep
  <2>2. CASE TickStep
    BY <2>2, TickMarkSlots, TickApplySlots DEF TickStep
  <2>3. CASE Operation
    BY <2>3, OperationSlots
  <2>4. CASE \E m \in Manuals : ManualStep(m)
    BY <2>4, PreflightSlots, ReserveSlots, FinishSlots DEF ManualStep
  <2> QED BY <1>1, <2>1, <2>2, <2>3, <2>4 DEF Section
<1>2. CASE Execution
  BY <1>2, BeginSlots, EndSlots DEF Execution
<1>3. CASE \/ TimerFires \/ \E m \in Manuals : Call(m)
           \/ \E op \in Ops, j \in Jobs : Ask(op, j)
  BY <1>3, QuietStepsSlots
<1>4. CASE Clock
  BY <1>4, ClockSlots
<1>5. CASE SaveFails \/ Crash \/ CrashInSave
  BY <1>5, SaveFailsSlots, CrashSlots, CrashInSaveSlots
<1>6. CASE UNCHANGED vars
  BY <1>6, StillSlots
<1> QED BY <1>1, <1>2, <1>3, <1>4, <1>5, <1>6 DEF Next

(* No slot is skipped: from the moment a run is due until it begins, no tick,*)
(* manual run, listing, result of another job, failed save or crash moves    *)
(* the job's next run past it (recomputeNextRunsForMaintenance), where the   *)
(* repair of a future time has nothing to repair.                            *)
THEOREM SlotsAreKept == ASSUME Unrepaired PROVE Spec => []NoSlotSkipped
<1>1. Init => IInv /\ SInv
  BY InitInv, InitSlots
<1>2. IInv /\ SInv /\ [Next]_vars => (IInv /\ SInv)'
  BY NextInv, NextSlots
<1>3. ASSUME IInv, SInv
      PROVE  NoSlotSkipped
  <2> SUFFICES ASSUME NEW j \in Jobs \ excused, promised[j] # 0
               PROVE  mem.state[j].running # 0 \/ mem.state[j].next \in 1..promised[j]
    BY DEF NoSlotSkipped
  <2>1. Carried(mem, j, promised[j])
    BY <1>3 DEF SInv, Slots, SlotAt, Owed
  <2> QED BY <2>1 DEF Carried
<1>4. IInv /\ SInv => NoSlotSkipped
  BY <1>3
<1> QED BY <1>1, <1>2, <1>4, PTL DEF Spec

=============================================================================
