---------------------------- MODULE Rollup_proofs ----------------------------
(***************************************************************************)
(* Proofs about the summary tree, for every calendar and every set of       *)
(* turns.                                                                   *)
(***************************************************************************)
EXTENDS Rollup, TLAPS

USE DEF tree, control   \* the groups of variables that most steps leave alone

LEMMA PeriodType == \A l \in Levels : \A d \in Days : PeriodOf(l, d) \in Keys
BY CalendarAssumption DEF Levels, Days, Keys, PeriodOf

LEMMA BelowType ==
    ASSUME TypeOK, NEW t \in [Levels -> [Keys -> SUBSET Turns]],
           NEW l \in Levels, NEW k \in Keys
    PROVE  Below(t, l, k) \subseteq Turns
<1> USE DEF TypeOK, Levels
<1>1. CASE l = "day"
  BY <1>1 DEF Below, Chats
<1>2. CASE l = "week"
  <2>1. Days \subseteq Keys
    BY CalendarAssumption DEF Days, Keys
  <2> QED
    BY <1>2, <2>1 DEF Below
<1>3. CASE l = "month"
  BY <1>3 DEF Below
<1>4. CASE l = "year"
  BY <1>4 DEF Below
<1> QED
  BY <1>1, <1>2, <1>3, <1>4

LEMMA SourceType ==
    ASSUME TypeOK, NEW l \in Levels, NEW k \in Keys
    PROVE  Source(l, k) \subseteq Turns
BY BelowType DEF Source, TypeOK

(* What is being summarised was found below the period.                      *)
LEMMA ItemsFound ==
    ASSUME TypeOK, ScanItems
    PROVE  /\ items' \subseteq Source(level, PeriodOf(level, cur))
           /\ items' # {}
           /\ ~failed' => items' = Source(level, PeriodOf(level, cur))
           /\ failed' \in BOOLEAN
           /\ failed' => "model" \in Faults
<1> DEFINE found == Source(level, PeriodOf(level, cur))
<1>1. /\ found # {}
      /\ \/ items' = found /\ failed' = FALSE
         \/ "model" \in Faults /\ items' \in (SUBSET found) \ {{}} /\ failed' = TRUE
  BY DEF ScanItems
<1> HIDE DEF found
<1>2. items' \subseteq found /\ items' # {}
  <2>1. CASE items' = found
    BY <1>1, <2>1
  <2>2. CASE items' \in (SUBSET found) \ {{}}
    <3>1. items' \in SUBSET found /\ items' \notin {{}}
      BY <2>2
    <3> QED
      BY <3>1, Zenon
  <2> QED
    BY <1>1, <2>1, <2>2
<1>3. (~failed' => items' = found) /\ failed' \in BOOLEAN /\ (failed' => "model" \in Faults)
  BY <1>1, Zenon
<1> QED
  BY <1>2, <1>3 DEF found

(* The next call of a rollup is again at a day of the calendar.              *)
LEMMA NextCallType ==
    ASSUME TypeOK, NextCall
    PROVE  /\ phase' \in {"off", "closing", "open", "refresh", "saving"}
           /\ cur' \in Days /\ upto' \in Days /\ level' \in Levels
           /\ reading' \in BOOLEAN /\ items' \subseteq Turns /\ failed' \in BOOLEAN
<1> USE DEF TypeOK
<1>1. level' \in Levels /\ upto' = upto /\ reading' = FALSE /\ items' = {} /\ failed' = FALSE
  BY DEF NextCall, Levels
<1>2. 1 \in Days
  BY CalendarAssumption DEF Days
<1>3. cur + 1 < upto => cur + 1 \in Days
  BY CalendarAssumption DEF Days
<1> QED
  BY <1>1, <1>2, <1>3 DEF NextCall

(* Every reachable state is well typed: no loop runs off the calendar, and   *)
(* no period outside it is ever stored.                                      *)
THEOREM TypeCorrect == Spec => []TypeOK
<1> USE CalendarAssumption
<1>a. 1 \in Days
  BY DEF Days
<1>1. Init => TypeOK
  <2> SUFFICES ASSUME Init PROVE TypeOK
    OBVIOUS
  <2>1. /\ summary \in [Levels -> [Keys -> SUBSET Turns]]
        /\ best \in [Levels -> [Keys -> SUBSET Turns]]
        /\ turn \in [Turns -> {"unborn", "writing", "stored", "lost"}]
        /\ key \in [Turns -> Days]
    BY <1>a DEF Init
  <2> QED
    BY <1>a, <2>1 DEF Init, TypeOK, Levels
<1>2. TypeOK /\ [Next]_vars => TypeOK'
  <2> SUFFICES ASSUME TypeOK, [Next]_vars PROVE TypeOK'
    OBVIOUS
  <2>1. CASE Tick
    <3>1. today + 1 \in Days
      BY <2>1 DEF Tick, TypeOK, Days
    <3> QED
      BY <2>1, <3>1 DEF Tick, TypeOK, control
  <2>2. ASSUME NEW t \in Turns, WriteChatTurn(t) \/ StoreTurn(t) \/ LoseTurn(t)
        PROVE  TypeOK'
    <3>1. UNCHANGED <<today, control, lastSession, tree>>
      BY <2>2 DEF WriteChatTurn, StoreTurn, LoseTurn
    <3>2. turn' \in [Turns -> {"unborn", "writing", "stored", "lost"}]
      BY <2>2 DEF WriteChatTurn, StoreTurn, LoseTurn, TypeOK
    <3>3. key' \in [Turns -> Days]
      BY <2>2 DEF WriteChatTurn, StoreTurn, LoseTurn, TypeOK
    <3> QED
      BY <3>1, <3>2, <3>3 DEF control, TypeOK
  <2>3. CASE NotDue \/ NothingToRoll
    <3>1. NextCall /\ UNCHANGED <<today, lastSession, summary, best, turn, key>>
      BY <2>3 DEF NotDue, NothingToRoll
    <3> QED
      BY <3>1, NextCallType DEF TypeOK
  <2>4. CASE ScanItems
    <3>1. Source(level, PeriodOf(level, cur)) \subseteq Turns
      BY PeriodType, SourceType DEF TypeOK
    <3>2. items' \subseteq Turns /\ failed' \in BOOLEAN
      BY <2>4, <3>1, ItemsFound
    <3> QED
      BY <2>4, <3>2 DEF ScanItems, TypeOK
  <2>5. CASE PutSummary
    <3>1. /\ summary' \in [Levels -> [Keys -> SUBSET Turns]]
          /\ best' \in [Levels -> [Keys -> SUBSET Turns]]
      <4> DEFINE p == PeriodOf(level, cur)
      <4>1. p \in Keys /\ level \in Levels /\ items \subseteq Turns
        BY PeriodType DEF TypeOK
      <4>2. /\ summary' = [summary EXCEPT ![level][p] = items]
            /\ best' = [best EXCEPT ![level][p] = @ \union items]
        BY <2>5 DEF PutSummary
      <4> HIDE DEF p
      <4> QED
        BY <4>1, <4>2 DEF TypeOK
    <3> QED
      BY <2>5, <3>1, NextCallType DEF PutSummary, TypeOK
  <2>6. CASE CloseFails
    BY <2>6, <1>a DEF CloseFails, NothingPending, TypeOK, Levels
  <2>7. CASE SessionStart
    BY <2>7, <1>a DEF SessionStart, TypeOK, Levels
  <2>8. CASE SessionEnd
    BY <2>8 DEF SessionEnd, TypeOK, Levels
  <2>9. CASE SaveSession \/ Crash
    BY <2>9, <1>a DEF SaveSession, Crash, WritersDie, NothingPending, TypeOK, Levels
  <2>10. CASE UNCHANGED vars
    BY <2>10 DEF vars, TypeOK
  <2> QED
    BY <2>1, <2>2, <2>3, <2>4, <2>5, <2>6, <2>7, <2>8, <2>9, <2>10
       DEF Next, Session, RollupCall
<1> QED
  BY <1>1, <1>2, PTL DEF Spec

----------------------------------------------------------------------------
(* All entries of the days before k are in their day's summary.              *)
Done(k) == \A t \in Turns : turn[t] = "stored" /\ key[t] < k => t \in summary["day"][key[t]]

(* Entries are written today, and no summary is of a day to come.            *)
ClockInv ==
    /\ \A t \in Turns : key[t] <= today /\ (turn[t] = "writing" => key[t] = today)
    /\ \A d \in Days : summary["day"][d] # {} => d <= today
    /\ lastSession <= today
    /\ phase # "off" => upto = today

(* What a session may rely on when it starts: everything before last_session *)
(* is done, and without one no entry is older than the first day summary.    *)
BaseInv ==
    /\ lastSession # Never => Done(lastSession)
    /\ lastSession = Never =>
          \A d \in Days : summary["day"][d] # {} =>
              \E e \in Days : /\ e <= d /\ summary["day"][e] # {}
                              /\ \A t \in Turns : turn[t] = "stored" => e <= key[t]

(* How far the session in progress has come.                                 *)
LoopInv ==
    /\ phase = "closing" => /\ lastSession <= cur /\ cur < upto
                            /\ Done(cur)
                            /\ level # "day" => Done(cur + 1)
                            /\ reading /\ level = "day" => Chats(cur) \subseteq items
    /\ phase = "refresh" => cur = upto
    /\ phase \in {"open", "refresh", "saving"} => Done(upto)
    /\ reading => items # {} /\ phase \in {"closing", "refresh"}

DayInv == ClockInv /\ BaseInv /\ LoopInv

(* Nothing but a dying process goes wrong, and midnight finds all quiet.     *)
Quiet == Midnight = {} /\ Faults \subseteq {"crash"}

(* The entries, their keys and the day summaries are as before.              *)
SameDays == /\ \A t \in Turns : /\ turn'[t] = "stored" <=> turn[t] = "stored"
                                /\ turn[t] = "stored" => key'[t] = key[t]
            /\ summary'["day"] = summary["day"]

LEMMA DoneStays ==
    ASSUME SameDays, NEW k, Done(k)
    PROVE  Done(k)'
BY DEF Done, SameDays

LEMMA BaseStays ==
    ASSUME SameDays, lastSession' = lastSession, BaseInv
    PROVE  BaseInv'
<1>1. lastSession' # Never => Done(lastSession)'
  BY DoneStays DEF BaseInv
<1>2. ASSUME lastSession' = Never, NEW d \in Days, summary'["day"][d] # {}
      PROVE  \E e \in Days : /\ e <= d /\ summary'["day"][e] # {}
                             /\ \A t \in Turns : turn'[t] = "stored" => e <= key'[t]
  BY <1>2 DEF BaseInv, SameDays
<1> QED
  BY <1>1, <1>2 DEF BaseInv

(* When a call is over for which the day's entries are in its summary, the   *)
(* loop is right about how far it has come.                                  *)
LEMMA NextCallLoop ==
    ASSUME TypeOK, LoopInv, Rolling, NextCall, SameDays, lastSession' = lastSession,
           phase = "closing" => Done(cur + 1)
    PROVE  LoopInv'
<1> USE DEF TypeOK, Days
<1>1. reading' = FALSE /\ upto' = upto
  BY DEF NextCall
<1>2. CASE phase = "closing"
  <2>1. lastSession <= cur /\ cur < upto /\ Done(cur) /\ Done(cur + 1)
    BY <1>2 DEF LoopInv
  <2>2. CASE level # "year"
    <3>1. phase' = phase /\ cur' = cur
      BY <2>2 DEF NextCall
    <3>2. Done(cur)' /\ Done(cur + 1)'
      BY <2>1, <3>1, DoneStays
    <3> QED
      BY <1>1, <1>2, <2>1, <3>1, <3>2 DEF LoopInv
  <2>3. CASE level = "year" /\ cur + 1 < upto
    <3>1. phase' = "closing" /\ cur' = cur + 1 /\ level' = "day"
      BY <1>2, <2>3 DEF NextCall
    <3>2. Done(cur)'
      BY <2>1, <3>1, DoneStays
    <3>3. lastSession <= cur + 1
      BY <2>1, CalendarAssumption DEF Never
    <3> QED
      BY <1>1, <2>3, <3>1, <3>2, <3>3 DEF LoopInv
  <2>4. CASE level = "year" /\ ~ (cur + 1 < upto)
    <3>1. phase' = "open" /\ cur + 1 = upto
      BY <1>2, <2>1, <2>4 DEF NextCall
    <3>2. Done(upto)'
      BY <2>1, <3>1, <1>1, DoneStays
    <3> QED
      BY <1>1, <3>1, <3>2 DEF LoopInv
  <2> QED
    BY <2>2, <2>3, <2>4
<1>3. CASE phase = "refresh"
  <2>1. Done(upto)' /\ cur = upto
    BY <1>1, <1>3, DoneStays DEF LoopInv
  <2>2. (phase' = "refresh" /\ cur' = cur) \/ phase' = "saving"
    BY <1>3 DEF NextCall
  <2> QED
    BY <1>1, <2>1, <2>2 DEF LoopInv
<1> QED
  BY <1>2, <1>3 DEF Rolling

(* A day whose entries are all in its summary extends what is done.          *)
LEMMA DoneNext ==
    ASSUME TypeOK, NEW d \in Days, Done(d), Chats(d) \subseteq summary["day"][d]
    PROVE  Done(d + 1)
<1> SUFFICES ASSUME NEW t \in Turns, turn[t] = "stored", key[t] < d + 1
             PROVE  t \in summary["day"][key[t]]
  BY DEF Done
<1>1. key[t] < d \/ key[t] = d
  <2>1. key[t] \in Days /\ d \in Days
    BY DEF TypeOK
  <2>2. key[t] \in Nat /\ d \in Nat
    BY <2>1 DEF Days
  <2> QED
    BY <2>2
<1>2. CASE key[t] < d
  BY <1>2 DEF Done
<1>3. CASE key[t] = d
  BY <1>3 DEF Chats
<1> QED
  BY <1>1, <1>2, <1>3

(* The put of a day's summary.                                               *)
LEMMA PutDayStep ==
    ASSUME TypeOK, DayInv, PutSummary, level = "day"
    PROVE  DayInv'
<1> USE DEF TypeOK
<1>a. Days \subseteq Nat /\ Days \subseteq Keys
  BY DEF Days, Keys
<1>1. /\ items # {} /\ cur <= today /\ lastSession <= cur /\ Done(cur)
      /\ phase = "closing" \/ phase = "refresh"
  <2>1. Rolling /\ reading
    BY DEF PutSummary
  <2> QED
    BY <2>1, <1>a DEF DayInv, ClockInv, LoopInv, Rolling
<1>2. /\ summary'["day"][cur] = items
      /\ \A d \in Days : d # cur => summary'["day"][d] = summary["day"][d]
  BY <1>a DEF PutSummary, PeriodOf, Levels
<1>3. /\ NextCall
      /\ today' = today /\ turn' = turn /\ key' = key /\ lastSession' = lastSession
      /\ level' = "week" /\ phase' = phase /\ cur' = cur /\ reading' = FALSE /\ upto' = upto
  BY DEF PutSummary, NextCall
<1>4. ASSUME NEW k, k \in Days \union {Never}, k <= cur, Done(k)
      PROVE  Done(k)'
  <2> SUFFICES ASSUME NEW t \in Turns, turn[t] = "stored", key[t] < k
               PROVE  t \in summary'["day"][key[t]]
    BY <1>3 DEF Done
  <2>1. key[t] # cur /\ key[t] \in Days
    BY <1>4, <1>a DEF Never
  <2> QED
    BY <1>2, <1>4, <2>1 DEF Done
<1>5. ClockInv'
  BY <1>1, <1>2, <1>3 DEF DayInv, ClockInv
<1>6. BaseInv'
  <2>1. lastSession' # Never => Done(lastSession)'
    <3> SUFFICES ASSUME lastSession # Never PROVE Done(lastSession)'
      BY <1>3
    <3>1. Done(lastSession)
      BY DEF DayInv, BaseInv
    <3> QED
      BY <1>1, <1>3, <1>4, <3>1
  <2>2. ASSUME lastSession = Never, NEW d \in Days, summary'["day"][d] # {}
        PROVE  \E e \in Days : /\ e <= d /\ summary'["day"][e] # {}
                               /\ \A t \in Turns : turn[t] = "stored" => e <= key[t]
    <3>1. CASE \E b \in Days : b <= d /\ summary["day"][b] # {}
      <4>1. PICK b \in Days : b <= d /\ summary["day"][b] # {}
        BY <3>1
      <4>2. PICK e \in Days : /\ e <= b /\ summary["day"][e] # {}
                              /\ \A t \in Turns : turn[t] = "stored" => e <= key[t]
        BY <2>2, <4>1 DEF DayInv, BaseInv
      <4>3. e <= d /\ summary'["day"][e] # {}
        BY <1>1, <1>2, <1>a, <4>1, <4>2
      <4> QED
        BY <4>2, <4>3
    <3>2. CASE ~ \E b \in Days : b <= d /\ summary["day"][b] # {}
      <4>1. d = cur
        BY <1>2, <1>a, <2>2, <3>2
      <4>2. ASSUME NEW t \in Turns, turn[t] = "stored" PROVE cur <= key[t]
        <5>1. key[t] \in Days /\ key[t] \in Nat /\ cur \in Nat
          BY <1>a
        <5>2. CASE key[t] < cur
          <6>1. t \in summary["day"][key[t]]
            BY <1>1, <4>2, <5>2 DEF Done
          <6>2. key[t] <= d
            BY <4>1, <5>1, <5>2
          <6> QED
            BY <3>2, <5>1, <6>1, <6>2
        <5> QED
          BY <5>1, <5>2
      <4> QED
        BY <1>1, <1>2, <1>a, <4>1, <4>2
    <3> QED
      BY <3>1, <3>2
  <2> QED
    BY <1>3, <2>1, <2>2 DEF BaseInv
<1>7. LoopInv'
  <2>1. Done(cur)'
    BY <1>1, <1>3, <1>4, <1>a
  <2>2. CASE phase = "closing"
    <3>1. Chats(cur) \subseteq items /\ lastSession <= cur /\ cur < upto
      BY <2>2 DEF DayInv, LoopInv, PutSummary
    <3>2. Done(cur + 1)'
      <4> SUFFICES ASSUME NEW t \in Turns, turn[t] = "stored", key[t] < cur + 1
                   PROVE  t \in summary'["day"][key[t]]
        BY <1>3 DEF Done
      <4>1. key[t] \in Days /\ key[t] \in Nat /\ cur \in Nat
        BY <1>a
      <4>2. CASE key[t] = cur
        BY <1>2, <3>1, <4>2 DEF Chats
      <4>3. CASE key[t] # cur
        <5>1. key[t] < cur
          BY <4>1, <4>3
        <5>2. t \in summary["day"][key[t]]
          BY <1>1, <5>1 DEF Done
        <5> QED
          BY <1>2, <4>1, <4>3, <5>2
      <4> QED
        BY <4>2, <4>3
    <3> QED
      BY <1>3, <2>1, <2>2, <3>1, <3>2 DEF LoopInv
  <2>3. CASE phase = "refresh"
    <3>1. cur = upto
      BY <2>3 DEF DayInv, LoopInv
    <3> QED
      BY <1>3, <2>1, <2>3, <3>1 DEF LoopInv
  <2> QED
    BY <1>1, <2>2, <2>3
<1> QED
  BY <1>5, <1>6, <1>7 DEF DayInv

(* The loop begins at a day before which everything is done.                *)
LEMMA StartFacts ==
    ASSUME TypeOK, DayInv, Quiet, NEW d \in Days, StartDay(d)
    PROVE  /\ Done(d) /\ lastSession <= d /\ d <= today
           /\ lastSession = Never => \A t \in Turns : turn[t] = "stored" => ~ (key[t] < d)
<1> USE DEF TypeOK
<1>a. Days \subseteq Nat
  BY DEF Days
<1>1. CASE lastSession # Never
  BY <1>a, <1>1 DEF StartDay, DayInv, BaseInv, ClockInv
<1>2. CASE lastSession = Never
  <2>1. \/ IsMin(d, DaysRolled)
        \/ DaysRolled = {} /\ IsMin(d, DaysTalked)
        \/ DaysTalked = {} /\ d = today
    BY <1>2 DEF StartDay, FirstKnownDay, Scans, Quiet
  <2>2. CASE IsMin(d, DaysRolled)
    <3>1. summary["day"][d] # {}
      BY <2>2 DEF IsMin, DaysRolled
    <3>2. PICK e \in Days : /\ e <= d /\ summary["day"][e] # {}
                            /\ \A t \in Turns : turn[t] = "stored" => e <= key[t]
      BY <1>2, <3>1 DEF DayInv, BaseInv
    <3>3. d <= e
      BY <2>2, <3>2 DEF IsMin, DaysRolled
    <3>4. ASSUME NEW t \in Turns, turn[t] = "stored" PROVE ~ (key[t] < d)
      <4>1. e <= key[t] /\ key[t] \in Nat /\ d \in Nat /\ e \in Nat
        BY <1>a, <3>2, <3>4
      <4> QED
        BY <3>3, <4>1
    <3> QED
      BY <1>a, <1>2, <3>1, <3>4 DEF Done, DayInv, ClockInv, Never
  <2>3. CASE IsMin(d, DaysTalked)
    <3>1. ASSUME NEW t \in Turns, turn[t] = "stored" PROVE d <= key[t]
      <4>1. t \in Chats(key[t]) /\ key[t] \in Days
        BY <3>1 DEF Chats
      <4> QED
        BY <2>3, <4>1 DEF IsMin, DaysTalked
    <3>2. PICK u \in Turns : turn[u] = "stored" /\ key[u] = d
      BY <2>3 DEF IsMin, DaysTalked, Chats
    <3>3. d <= today
      BY <3>2 DEF DayInv, ClockInv
    <3>4. ASSUME NEW t \in Turns, turn[t] = "stored" PROVE ~ (key[t] < d)
      <4>1. key[t] \in Nat /\ d \in Nat
        BY <1>a
      <4> QED
        BY <3>1, <3>4, <4>1
    <3> QED
      BY <1>a, <1>2, <3>3, <3>4 DEF Done, Never
  <2>4. CASE DaysTalked = {} /\ d = today
    <3>1. ASSUME NEW t \in Turns PROVE turn[t] # "stored"
      <4>1. key[t] \in Days
        OBVIOUS
      <4> QED
        BY <2>4, <4>1 DEF DaysTalked, Chats
    <3> QED
      BY <1>a, <1>2, <2>4, <3>1 DEF Done, Never
  <2> QED
    BY <2>1, <2>2, <2>3, <2>4
<1> QED
  BY <1>1, <1>2

LEMMA StartStep ==
    ASSUME TypeOK, DayInv, Quiet, SessionStart
    PROVE  DayInv'
<1> USE DEF TypeOK
<1>a. Days \subseteq Nat
  BY DEF Days
<1>1. PICK d \in Days : /\ StartDay(d)
                        /\ IF d < today THEN phase' = "closing" /\ cur' = d
                                        ELSE phase' = "open" /\ cur' = 1
  BY DEF SessionStart
<1>2. /\ upto' = today /\ level' = "day" /\ reading' = FALSE /\ items' = {}
      /\ UNCHANGED <<today, lastSession, summary, turn, key>>
  BY DEF SessionStart
<1>3. Done(d) /\ lastSession <= d /\ d <= today
  BY <1>1, StartFacts
<1>4. SameDays
  BY <1>2 DEF SameDays
<1>5. \A k : Done(k) => Done(k)'
  BY <1>4, DoneStays
<1>6. BaseInv'
  BY <1>2, <1>4, BaseStays DEF DayInv
<1>7. ClockInv'
  BY <1>2 DEF DayInv, ClockInv
<1>8. LoopInv'
  <2>1. CASE d < today
    BY <1>1, <1>2, <1>3, <1>5, <2>1 DEF LoopInv
  <2>2. CASE ~ (d < today)
    <3>1. d = today
      BY <1>a, <1>3, <2>2
    <3> QED
      BY <1>1, <1>2, <1>3, <1>5, <2>2, <3>1 DEF LoopInv
  <2> QED
    BY <2>1, <2>2
<1> QED
  BY <1>6, <1>7, <1>8 DEF DayInv

LEMMA DayStep ==
    ASSUME TypeOK, DayInv, Quiet, [Next]_vars
    PROVE  DayInv'
<1> USE DEF TypeOK
<1>a. Days \subseteq Nat
  BY DEF Days
<1>1. CASE Tick
  <2>1. /\ phase = "off" /\ reading = FALSE /\ today' = today + 1
        /\ \A t \in Turns : turn[t] # "writing"
        /\ UNCHANGED <<control, lastSession, summary, turn, key>>
    BY <1>1 DEF Tick, Quiet, DayInv, LoopInv
  <2>2. today \in Nat /\ \A t \in Turns : key[t] \in Nat
    BY <1>a
  <2>3. ClockInv'
    BY <1>a, <2>1, <2>2 DEF DayInv, ClockInv, control, Never
  <2>4. BaseInv'
    BY <2>1, BaseStays DEF SameDays, DayInv
  <2>5. LoopInv'
    BY <2>1 DEF LoopInv, control
  <2> QED
    BY <2>3, <2>4, <2>5 DEF DayInv
<1>2. ASSUME NEW t \in Turns, WriteChatTurn(t) \/ LoseTurn(t) PROVE DayInv'
  <2>1. UNCHANGED <<today, control, lastSession, summary>>
    BY <1>2 DEF WriteChatTurn, LoseTurn
  <2>2. SameDays
    BY <1>2 DEF WriteChatTurn, LoseTurn, SameDays
  <2>3. ClockInv'
    BY <1>2, <1>a, <2>1 DEF WriteChatTurn, LoseTurn, DayInv, ClockInv, control
  <2>4. \A k : Done(k) => Done(k)'
    BY <2>2, DoneStays
  <2>5. \A k : Chats(k)' \subseteq Chats(k)
    BY <2>2 DEF SameDays, Chats
  <2>6. LoopInv'
    BY <2>1, <2>4, <2>5 DEF DayInv, LoopInv, control
  <2> QED
    BY <2>1, <2>2, <2>3, <2>6, BaseStays DEF DayInv
<1>3. ASSUME NEW t \in Turns, StoreTurn(t) PROVE DayInv'
  <2>1. /\ key[t] = today /\ turn[t] = "writing"
        /\ turn' = [turn EXCEPT ![t] = "stored"]
        /\ UNCHANGED <<today, control, lastSession, summary, key>>
    BY <1>3 DEF StoreTurn, DayInv, ClockInv
  <2>2. \A k \in Nat : k <= today /\ Done(k) => Done(k)'
    BY <1>a, <2>1 DEF Done
  <2>3. ClockInv'
    BY <2>1 DEF DayInv, ClockInv, control
  <2>4. BaseInv'
    <3>1. lastSession' # Never => Done(lastSession)'
      BY <1>a, <2>1, <2>2 DEF DayInv, BaseInv, ClockInv, Never
    <3>2. ASSUME lastSession = Never, NEW d \in Days, summary["day"][d] # {}
          PROVE  \E e \in Days : /\ e <= d /\ summary["day"][e] # {}
                                 /\ \A u \in Turns : turn'[u] = "stored" => e <= key[u]
      <4>1. PICK e \in Days : /\ e <= d /\ summary["day"][e] # {}
                              /\ \A u \in Turns : turn[u] = "stored" => e <= key[u]
        BY <3>2 DEF DayInv, BaseInv
      <4>2. e <= key[t]
        BY <2>1, <4>1 DEF DayInv, ClockInv
      <4> QED
        BY <2>1, <4>1, <4>2
    <3> QED
      BY <2>1, <3>1, <3>2 DEF BaseInv
  <2>5. ASSUME phase = "closing" PROVE Chats(cur)' = Chats(cur)
    <3>1. cur # today
      BY <1>a, <2>5 DEF DayInv, ClockInv, LoopInv
    <3> QED
      BY <2>1, <3>1 DEF Chats, control
  <2>6. /\ phase = "closing" => cur \in Nat /\ cur <= today /\ cur + 1 \in Nat /\ cur + 1 <= today
        /\ phase # "off" => upto \in Nat /\ upto <= today
    BY <1>a DEF DayInv, ClockInv, LoopInv
  <2>7. LoopInv'
    BY <2>1, <2>2, <2>5, <2>6 DEF DayInv, LoopInv, control
  <2> QED
    BY <2>3, <2>4, <2>7 DEF DayInv
<1>4. CASE NotDue \/ NothingToRoll
  <2>1. Rolling /\ NextCall /\ UNCHANGED <<today, lastSession, summary, turn, key>>
    BY <1>4 DEF NotDue, NothingToRoll
  <2>2. SameDays
    BY <2>1 DEF SameDays
  <2>3. phase = "closing" => Done(cur + 1)
    <3>1. CASE level # "day"
      BY <3>1 DEF DayInv, LoopInv
    <3>2. CASE level = "day"
      <4>1. Chats(cur) = {}
        BY <1>4, <3>2 DEF NotDue, Due, NothingToRoll, Quiet, Source, Below, PeriodOf
      <4> QED
        BY <4>1, DoneNext DEF DayInv, LoopInv
    <3> QED
      BY <3>1, <3>2
  <2>4. ClockInv'
    BY <2>1 DEF DayInv, ClockInv, NextCall, Rolling
  <2> QED
    BY <2>1, <2>2, <2>3, <2>4, NextCallLoop, BaseStays DEF DayInv
<1>5. CASE ScanItems
  <2>0. ~failed'
    BY <1>5, ItemsFound DEF Quiet
  <2>1. /\ Rolling /\ items' # {} /\ reading' = TRUE
        /\ level = "day" => items' = Chats(cur)
        /\ UNCHANGED <<today, phase, cur, upto, level, lastSession, summary, turn, key>>
    BY <1>5, <2>0, ItemsFound DEF ScanItems, Source, Below, PeriodOf
  <2>2. SameDays
    BY <2>1 DEF SameDays
  <2>3. \A k : Done(k) => Done(k)'
    BY <2>2, DoneStays
  <2>4. Chats(cur)' = Chats(cur)
    BY <2>1 DEF Chats
  <2>5. LoopInv'
    BY <2>1, <2>3, <2>4 DEF DayInv, LoopInv, Rolling
  <2> QED
    BY <2>1, <2>2, <2>5, BaseStays DEF DayInv, ClockInv
<1>6. CASE PutSummary
  <2>1. CASE level = "day"
    BY <1>6, <2>1, PutDayStep
  <2>2. CASE level # "day"
    <3>1. /\ Rolling /\ NextCall /\ UNCHANGED <<today, lastSession, turn, key>>
          /\ summary'["day"] = summary["day"]
      BY <1>6, <2>2 DEF PutSummary, Levels
    <3>2. SameDays
      BY <3>1 DEF SameDays
    <3>3. ClockInv'
      BY <3>1 DEF DayInv, ClockInv, NextCall, Rolling
    <3>4. phase = "closing" => Done(cur + 1)
      BY <2>2 DEF DayInv, LoopInv
    <3> QED
      BY <3>1, <3>2, <3>3, <3>4, NextCallLoop, BaseStays DEF DayInv
  <2> QED
    BY <2>1, <2>2
<1>7. CASE CloseFails
  BY <1>7 DEF CloseFails, Quiet
<1>8. CASE SessionStart
  BY <1>8, StartStep
<1>9. CASE SessionEnd
  <2>1. /\ phase = "open" /\ phase' = "refresh" /\ cur' = today /\ reading' = FALSE
        /\ UNCHANGED <<today, upto, lastSession, summary, turn, key>>
    BY <1>9 DEF SessionEnd
  <2>2. SameDays
    BY <2>1 DEF SameDays
  <2>3. Done(upto)' /\ upto = today
    BY <2>1, <2>2, DoneStays DEF DayInv, LoopInv, ClockInv
  <2>4. LoopInv'
    BY <2>1, <2>3 DEF LoopInv
  <2> QED
    BY <2>1, <2>2, <2>4, BaseStays DEF DayInv, ClockInv
<1>10. CASE SaveSession \/ Crash
  <2>1. /\ phase' = "off" /\ reading' = FALSE /\ today' = today
        /\ summary' = summary /\ key' = key
        /\ lastSession' = lastSession \/ (lastSession' = today /\ phase = "saving")
        /\ \A t \in Turns : turn'[t] = turn[t] \/ (turn[t] = "writing" /\ turn'[t] = "lost")
    BY <1>10 DEF SaveSession, Crash, NothingPending, WritersDie
  <2>2. SameDays
    BY <2>1 DEF SameDays
  <2>3. ClockInv'
    BY <1>a, <2>1 DEF DayInv, ClockInv
  <2>4. CASE lastSession' = lastSession
    BY <2>1, <2>2, <2>3, <2>4, BaseStays DEF DayInv, LoopInv
  <2>5. CASE lastSession' = today /\ phase = "saving"
    <3>1. Done(today)
      BY <2>5 DEF DayInv, ClockInv, LoopInv
    <3>2. Done(lastSession)'
      BY <2>2, <2>5, <3>1, DoneStays
    <3>3. lastSession' # Never
      BY <1>a, <2>5 DEF Never, Days
    <3>4. BaseInv'
      BY <3>2, <3>3 DEF BaseInv
    <3> QED
      BY <2>1, <2>3, <3>4 DEF DayInv, LoopInv
  <2> QED
    BY <2>1, <2>4, <2>5
<1>11. CASE UNCHANGED vars
  <2>1. SameDays
    BY <1>11 DEF vars, SameDays
  <2>2. \A k : Done(k) => Done(k)'
    BY <2>1, DoneStays
  <2>3. \A k : Chats(k)' = Chats(k)
    BY <1>11 DEF vars, Chats
  <2>4. LoopInv'
    BY <1>11, <2>2, <2>3 DEF vars, DayInv, LoopInv
  <2> QED
    BY <1>11, <2>1, <2>4, BaseStays DEF vars, DayInv, ClockInv
<1> QED
  BY <1>1, <1>2, <1>3, <1>4, <1>5, <1>6, <1>7, <1>8, <1>9, <1>10, <1>11
     DEF Next, Session, RollupCall

LEMMA DayInit == Init => DayInv
<1> SUFFICES ASSUME Init PROVE DayInv
  OBVIOUS
<1>1. \A d \in Days : summary["day"][d] = {}
  BY DEF Init, Levels, Days, Keys
<1>2. ClockInv
  <2>1. today = 1 /\ lastSession = 0 /\ phase = "off"
    BY DEF Init, Never
  <2>2. \A t \in Turns : key[t] = 1 /\ turn[t] # "writing"
    BY DEF Init
  <2> QED
    BY <1>1, <2>1, <2>2 DEF ClockInv
<1>3. BaseInv
  BY <1>1 DEF Init, BaseInv
<1>4. LoopInv
  BY DEF Init, LoopInv
<1> QED
  BY <1>2, <1>3, <1>4 DEF DayInv

(* Whatever the calendar, the turns and the crashes, an open session has     *)
(* every entry of an earlier day in that day's summary, as long as midnight  *)
(* interrupts neither a session nor a writer.                                *)
THEOREM CrashesAreMadeUpFor ==
    ASSUME Quiet
    PROVE  Spec => []DaysSummarised
<1>1. Init => DayInv
  BY DayInit
<1>2. TypeOK /\ DayInv /\ [Next]_vars => DayInv'
  BY DayStep
<1>3. TypeOK /\ DayInv => DaysSummarised
  <2> SUFFICES ASSUME TypeOK, DayInv, phase = "open", NEW d \in Days, d < upto,
                      NEW t \in Chats(d)
               PROVE  t \in summary["day"][d]
    BY DEF DaysSummarised
  <2>1. Done(upto) /\ t \in Turns /\ turn[t] = "stored" /\ key[t] = d
    BY DEF DayInv, LoopInv, Chats
  <2> QED
    BY <2>1 DEF Done
<1> QED
  BY <1>1, <1>2, <1>3, TypeCorrect, PTL DEF Spec

----------------------------------------------------------------------------
(* The weeks.                                                                *)

(* The week ended before day k. *)
Over(w, k) == \A e \in Days : WeekOf[e] = w => e < k

(* All entries of the weeks that ended before day k are in their week.       *)
WeeksDone(turns, keys, weeks, k) ==
    \A t \in Turns : turns[t] = "stored" /\ Over(WeekOf[keys[t]], k)
                        => t \in weeks[WeekOf[keys[t]]]
WDone(k) == WeeksDone(turn, key, summary["week"], k)

(* The week of the loop's day is being summarised from all its entries.      *)
WeekRead ==
    reading /\ level = "week" /\ Over(WeekOf[cur], cur + 1) =>
        \A t \in Turns : turn[t] = "stored" /\ WeekOf[key[t]] = WeekOf[cur] => t \in items

WeekInv ==
    /\ WDone(lastSession)
    /\ phase = "closing" => /\ WDone(cur) /\ WeekRead
                            /\ level \in {"month", "year"} => WDone(cur + 1)
    /\ phase \in {"open", "refresh", "saving"} => WDone(upto)

(* A new entry is of a week that is not over, and a put is of the week of    *)
(* the loop's day: neither touches the weeks that were over before.          *)
LEMMA WeeksStay ==
    ASSUME TypeOK, DayInv, [Next]_vars, NEW k \in Nat, k <= today, WDone(k),
           Rolling => k <= cur \/ summary'["week"] = summary["week"]
    PROVE  WeeksDone(turn', key', summary'["week"], k)
<1> USE DEF TypeOK
<1>a. Days \subseteq Nat /\ Days \subseteq Keys
  BY DEF Days, Keys
<1> SUFFICES ASSUME NEW t \in Turns, turn'[t] = "stored", Over(WeekOf[key'[t]], k)
             PROVE  t \in summary'["week"][WeekOf[key'[t]]]
  BY DEF WeeksDone
<1>1. turn[t] = "stored" /\ key'[t] = key[t]
  <2>1. CASE \E u \in Turns : StoreTurn(u)
    <3>1. PICK u \in Turns : StoreTurn(u)
      BY <2>1
    <3>2. CASE u = t
      <4>1. key'[t] = today
        BY <3>1, <3>2 DEF StoreTurn, DayInv, ClockInv
      <4>2. today < k
        BY <4>1 DEF Over
      <4> QED
        BY <4>2, <1>a
    <3> QED
      BY <3>1, <3>2 DEF StoreTurn
  <2>2. CASE \E u \in Turns : WriteChatTurn(u) \/ LoseTurn(u)
    BY <2>2 DEF WriteChatTurn, LoseTurn
  <2>3. CASE Tick \/ RollupCall \/ UNCHANGED vars
    BY <2>3 DEF Tick, RollupCall, NotDue, ScanItems, NothingToRoll, PutSummary, CloseFails, vars
  <2>4. CASE Session
    BY <2>4 DEF Session, SessionStart, SessionEnd, SaveSession, Crash, WritersDie
  <2> QED
    BY <2>1, <2>2, <2>3, <2>4 DEF Next
<1>2. WeekOf[key[t]] \in Keys
  BY CalendarAssumption
<1>3. CASE PutSummary /\ summary'["week"] # summary["week"]
  <2>1. level = "week" /\ k <= cur
    BY <1>3 DEF PutSummary, Levels
  <2>2. WeekOf[key[t]] # WeekOf[cur]
    <3> SUFFICES ASSUME WeekOf[key[t]] = WeekOf[cur] PROVE FALSE
      OBVIOUS
    <3>1. cur \in Days
      OBVIOUS
    <3>2. cur < k
      BY <1>1, <3>1 DEF Over
    <3>3. cur \in Nat
      BY <1>a, <3>1
    <3> QED
      BY <2>1, <3>2, <3>3
  <2>3. summary'["week"][WeekOf[key[t]]] = summary["week"][WeekOf[key[t]]]
    BY <1>2, <1>3, <2>1, <2>2 DEF PutSummary, PeriodOf, Levels
  <2> QED
    BY <1>1, <2>3 DEF WDone, WeeksDone
<1>4. CASE summary'["week"] = summary["week"]
  BY <1>1, <1>4 DEF WDone, WeeksDone
<1>5. PutSummary \/ summary' = summary
  BY DEF Next, Tick, Session, SessionStart, SessionEnd, SaveSession, Crash, RollupCall, NotDue,
     ScanItems, NothingToRoll, CloseFails, WriteChatTurn, StoreTurn, LoseTurn, vars
<1> QED
  BY <1>3, <1>4, <1>5

(* What was over before the day after cur was over before cur, or is the     *)
(* week of cur.                                                              *)
LEMMA OverNext ==
    ASSUME NEW c \in Days, NEW w, Over(w, c + 1)
    PROVE  w = WeekOf[c] \/ Over(w, c)
BY DEF Over, Days

(* After the call for the week, the weeks are done to the next day.          *)
LEMMA WeekCall ==
    ASSUME TypeOK, DayInv, WeekInv, phase = "closing", level = "week",
           \/ NotDue
           \/ NothingToRoll /\ Quiet
           \/ PutSummary
    PROVE  WeeksDone(turn', key', summary'["week"], cur + 1)
<1> USE DEF TypeOK
<1>a. Days \subseteq Nat /\ Days \subseteq Keys
  BY DEF Days, Keys
<1> SUFFICES ASSUME NEW t \in Turns, turn'[t] = "stored", Over(WeekOf[key'[t]], cur + 1)
             PROVE  t \in summary'["week"][WeekOf[key'[t]]]
  BY DEF WeeksDone
<1>1. turn' = turn /\ key' = key
  BY DEF NotDue, NothingToRoll, PutSummary
<1>2. WeekOf[key[t]] \in Keys
  BY CalendarAssumption
<1>3. Over(WeekOf[key[t]], cur) => t \in summary["week"][WeekOf[key[t]]]
  BY <1>1 DEF WeekInv, WDone, WeeksDone
<1>4. CASE NotDue
  <2>1. cur < LastDay
    BY CalendarAssumption DEF DayInv, LoopInv, Days
  <2>2. cur + 1 \in Days
    BY <2>1, CalendarAssumption DEF Days
  <2>3. WeekOf[cur] = WeekOf[cur + 1]
    BY <1>4, <2>1 DEF NotDue, Due, PeriodOf
  <2>4. WeekOf[key[t]] # WeekOf[cur]
    BY <1>1, <1>a, <2>2, <2>3 DEF Over
  <2> QED
    BY <1>1, <1>3, <1>4, <2>4, OverNext DEF NotDue
<1>5. CASE NothingToRoll /\ Quiet
  <2>1. UNION {summary["day"][d] : d \in {e \in Days : WeekOf[e] = WeekOf[cur]}} = {}
    BY <1>5 DEF NothingToRoll, Quiet, Source, Below, PeriodOf
  <2>2. WeekOf[key[t]] # WeekOf[cur]
    <3> SUFFICES ASSUME WeekOf[key[t]] = WeekOf[cur] PROVE FALSE
      OBVIOUS
    <3>1. key[t] < cur + 1
      BY <1>1 DEF Over
    <3>2. t \in summary["day"][key[t]]
      BY <1>1, <3>1 DEF DayInv, LoopInv, Done
    <3> QED
      BY <2>1, <3>2
  <2> QED
    BY <1>1, <1>3, <1>5, <2>2, OverNext DEF NothingToRoll
<1>6. CASE PutSummary
  <2>1. summary' = [summary EXCEPT !["week"][WeekOf[cur]] = items] /\ reading
    BY <1>6 DEF PutSummary, PeriodOf
  <2>2. CASE WeekOf[key[t]] = WeekOf[cur]
    <3>1. t \in items
      BY <1>1, <2>1, <2>2 DEF WeekInv, WeekRead
    <3>2. summary'["week"][WeekOf[key[t]]] = items
      BY <1>2, <2>1, <2>2 DEF Levels
    <3> QED
      BY <1>1, <3>1, <3>2
  <2>3. CASE WeekOf[key[t]] # WeekOf[cur]
    <3>1. summary'["week"][WeekOf[key[t]]] = summary["week"][WeekOf[key[t]]]
      BY <1>2, <2>1, <2>3 DEF Levels
    <3> QED
      BY <1>1, <1>3, <2>3, <3>1, OverNext
  <2> QED
    BY <2>2, <2>3
<1> QED
  BY <1>4, <1>5, <1>6

LEMMA WeekStart ==
    ASSUME TypeOK, DayInv, WeekInv, Quiet, SessionStart
    PROVE  WeekInv'
<1>a. Days \subseteq Nat
  BY DEF Days
<1>1. PICK d \in Days : /\ StartDay(d)
                        /\ IF d < today THEN phase' = "closing" /\ cur' = d
                                        ELSE phase' = "open" /\ cur' = 1
  BY DEF SessionStart
<1>2. /\ upto' = today /\ level' = "day" /\ reading' = FALSE
      /\ UNCHANGED <<today, lastSession, summary, turn, key>>
  BY DEF SessionStart
<1>3. \A k : WDone(k) <=> WeeksDone(turn', key', summary'["week"], k)
  BY <1>2 DEF WDone
<1>4. WDone(d)
  <2>1. CASE lastSession # Never
    BY <1>1, <2>1 DEF StartDay, WeekInv
  <2>2. CASE lastSession = Never
    <3>1. \A t \in Turns : turn[t] = "stored" => ~ (key[t] < d)
      BY <1>1, <2>2, StartFacts
    <3>2. \A t \in Turns : key[t] \in Days
      BY DEF TypeOK
    <3> QED
      BY <3>1, <3>2 DEF WDone, WeeksDone, Over
  <2> QED
    BY <2>1, <2>2
<1>5. d < today \/ d = today
  <2>1. d <= today /\ d \in Nat /\ today \in Nat
    BY <1>1, <1>a, StartFacts DEF TypeOK
  <2> QED
    BY <2>1
<1>6. WDone(lastSession)
  BY DEF WeekInv
<1>7. WDone(d) => WDone(d)' /\ (phase' = "closing" => WDone(cur)')
  BY <1>1, <1>2 DEF WDone
<1>8. CASE d < today
  BY <1>1, <1>2, <1>3, <1>4, <1>6, <1>8 DEF WeekInv, WDone, WeekRead
<1>9. CASE d = today
  <2>1. phase' = "open"
    BY <1>1, <1>9, <1>a
  <2> QED
    BY <1>2, <1>3, <1>4, <1>6, <1>9, <2>1 DEF WeekInv, WDone
<1> QED
  BY <1>5, <1>8, <1>9

LEMMA WeekStep ==
    ASSUME TypeOK, DayInv, WeekInv, Quiet, [Next]_vars
    PROVE  WeekInv'
<1> USE DEF TypeOK
<1>a. Days \subseteq Nat
  BY DEF Days
<1> DEFINE Kept(k) == WeeksDone(turn', key', summary'["week"], k)
<1>b. ASSUME phase # "off" PROVE upto = today /\ upto \in Nat /\ today' = today
  <2>1. upto = today /\ upto \in Nat
    BY <1>b, <1>a DEF DayInv, ClockInv
  <2>2. ~Tick
    BY <1>b DEF Tick, Quiet
  <2> QED
    BY <2>1, <2>2 DEF Next, Session, SessionStart, SessionEnd, SaveSession, Crash, RollupCall,
       NotDue, ScanItems, NothingToRoll, PutSummary, CloseFails, WriteChatTurn, StoreTurn,
       LoseTurn, vars
<1>1. Kept(lastSession)
  <2>1. lastSession \in Nat /\ lastSession <= today
    BY <1>a DEF DayInv, ClockInv, Never
  <2>2. Rolling => lastSession <= cur
    BY <1>a, <1>b, <2>1 DEF Rolling, DayInv, LoopInv
  <2> QED
    BY <2>1, <2>2, WeeksStay DEF WeekInv
<1>2. ASSUME phase = "closing" PROVE Kept(cur)
  <2>1. cur \in Nat /\ cur <= today
    BY <1>2, <1>a, <1>b DEF DayInv, LoopInv
  <2> QED
    BY <1>2, <2>1, WeeksStay DEF WeekInv
<1>3. ASSUME phase \in {"open", "refresh", "saving"} PROVE Kept(upto)
  <2>1. upto \in Nat /\ upto <= today
    BY <1>3, <1>b
  <2>2. Rolling => upto <= cur
    BY <1>3, <2>1 DEF Rolling, DayInv, LoopInv
  <2> QED
    BY <1>3, <2>1, <2>2, WeeksStay DEF WeekInv
<1>4. ASSUME phase = "closing", level \in {"month", "year"} PROVE Kept(cur + 1)
  <2>1. cur + 1 \in Nat /\ cur + 1 <= today
    BY <1>4, <1>a, <1>b DEF DayInv, LoopInv
  <2>2. summary'["week"] = summary["week"]
    BY <1>4 DEF Next, Tick, Session, SessionStart, SessionEnd, SaveSession, Crash, RollupCall,
       NotDue, ScanItems, NothingToRoll, PutSummary, CloseFails, WriteChatTurn, StoreTurn,
       LoseTurn, vars, Levels
  <2> QED
    BY <1>4, <2>1, <2>2, WeeksStay DEF WeekInv
<1>5. \A k : Kept(k) <=> WeeksDone(turn', key', summary'["week"], k)
  OBVIOUS
<1> HIDE DEF Kept
<1>6. CASE Tick
  <2>1. phase = "off" /\ phase' = "off" /\ lastSession' = lastSession
    BY <1>6 DEF Tick, Quiet, control
  <2> QED
    BY <1>1, <1>5, <2>1 DEF WeekInv, WDone
<1>7. ASSUME NEW t \in Turns, WriteChatTurn(t) \/ StoreTurn(t) \/ LoseTurn(t)
      PROVE  WeekInv'
  <2>1. UNCHANGED <<control, lastSession, summary>>
    BY <1>7 DEF WriteChatTurn, StoreTurn, LoseTurn
  <2>2. phase = "closing" => WeekRead'
    <3> SUFFICES ASSUME phase = "closing", reading, level = "week",
                        Over(WeekOf[cur], cur + 1),
                        NEW u \in Turns, turn'[u] = "stored", WeekOf[key'[u]] = WeekOf[cur]
                 PROVE  u \in items
      BY <2>1 DEF WeekRead, control
    <3>1. CASE u = t /\ StoreTurn(t)
      <4>1. key[t] = today /\ key' = key
        BY <3>1 DEF StoreTurn, DayInv, ClockInv
      <4>2. today < cur + 1
        BY <3>1, <4>1 DEF Over
      <4>3. cur < upto /\ upto = today /\ cur \in Nat /\ today \in Nat
        BY <1>a, <1>b DEF DayInv, LoopInv
      <4> QED
        BY <4>2, <4>3
    <3>2. CASE ~ (u = t /\ StoreTurn(t))
      <4>1. turn[u] = "stored" /\ key'[u] = key[u]
        BY <1>7, <3>2 DEF WriteChatTurn, StoreTurn, LoseTurn
      <4> QED
        BY <4>1 DEF WeekInv, WeekRead
    <3> QED
      BY <3>1, <3>2
  <2> QED
    BY <1>1, <1>2, <1>3, <1>4, <1>5, <2>1, <2>2 DEF WeekInv, WDone, control
<1>8. CASE NotDue \/ NothingToRoll \/ PutSummary
  <2>1. Rolling /\ NextCall /\ lastSession' = lastSession /\ reading' = FALSE /\ upto' = upto
    BY <1>8 DEF NotDue, NothingToRoll, PutSummary, NextCall
  <2>2. CASE phase = "refresh"
    <3>1. phase' \in {"refresh", "saving"}
      BY <2>1, <2>2 DEF NextCall
    <3> QED
      BY <1>1, <1>3, <1>5, <2>1, <2>2, <3>1 DEF WeekInv, WDone
  <2>3. CASE phase = "closing" /\ level = "day"
    <3>1. phase' = "closing" /\ cur' = cur /\ level' = "week"
      BY <2>1, <2>3 DEF NextCall
    <3> QED
      BY <1>1, <1>2, <1>5, <2>1, <2>3, <3>1 DEF WeekInv, WDone, WeekRead
  <2>4. CASE phase = "closing" /\ level = "week"
    <3>1. phase' = "closing" /\ cur' = cur /\ level' = "month"
      BY <2>1, <2>4 DEF NextCall
    <3>2. Kept(cur + 1)
      BY <1>5, <1>8, <2>4, WeekCall
    <3> QED
      BY <1>1, <1>2, <1>5, <2>1, <2>4, <3>1, <3>2 DEF WeekInv, WDone, WeekRead
  <2>5. CASE phase = "closing" /\ level = "month"
    <3>1. phase' = "closing" /\ cur' = cur /\ level' = "year"
      BY <2>1, <2>5 DEF NextCall
    <3> QED
      BY <1>1, <1>2, <1>4, <1>5, <2>1, <2>5, <3>1 DEF WeekInv, WDone, WeekRead
  <2>6. CASE phase = "closing" /\ level = "year"
    <3>1. \/ phase' = "closing" /\ cur' = cur + 1 /\ level' = "day"
          \/ phase' = "open" /\ ~ (cur + 1 < upto)
      BY <2>1, <2>6 DEF NextCall
    <3>2. cur < upto /\ cur \in Nat /\ upto \in Nat
      BY <1>a, <2>6 DEF DayInv, LoopInv
    <3>3. phase' = "open" => upto = cur + 1
      BY <3>1, <3>2
    <3> QED
      BY <1>1, <1>4, <1>5, <2>1, <2>6, <3>1, <3>3 DEF WeekInv, WDone, WeekRead
  <2> QED
    BY <2>1, <2>2, <2>3, <2>4, <2>5, <2>6 DEF Rolling, Levels
<1>9. CASE ScanItems
  <2>1. UNCHANGED <<today, phase, cur, upto, level, lastSession, summary, turn, key>>
    BY <1>9 DEF ScanItems
  <2>2. phase = "closing" => WeekRead'
    <3> SUFFICES ASSUME phase = "closing", level = "week", Over(WeekOf[cur], cur + 1),
                        NEW u \in Turns, turn[u] = "stored", WeekOf[key[u]] = WeekOf[cur]
                 PROVE  u \in items'
      BY <2>1 DEF WeekRead
    <3>0. ~failed'
      BY <1>9, ItemsFound DEF Quiet
    <3>1. items' = UNION {summary["day"][d] : d \in {e \in Days : WeekOf[e] = WeekOf[cur]}}
      BY <1>9, <3>0, ItemsFound DEF Source, Below, PeriodOf
    <3>2. key[u] < cur + 1
      BY DEF Over
    <3>3. u \in summary["day"][key[u]]
      BY <3>2 DEF DayInv, LoopInv, Done
    <3> QED
      BY <3>1, <3>3
  <2> QED
    BY <1>1, <1>2, <1>3, <1>4, <1>5, <2>1, <2>2 DEF WeekInv, WDone
<1>10. CASE SessionStart
  BY <1>10, WeekStart
<1>11. CASE SessionEnd
  <2>1. phase = "open" /\ phase' = "refresh" /\ UNCHANGED <<upto, lastSession>>
    BY <1>11 DEF SessionEnd
  <2> QED
    BY <1>1, <1>3, <1>5, <2>1 DEF WeekInv, WDone
<1>12. CASE SaveSession
  <2>1. phase = "saving" /\ phase' = "off" /\ lastSession' = today
    BY <1>12 DEF SaveSession
  <2> QED
    BY <1>3, <1>5, <1>b, <2>1 DEF WeekInv, WDone
<1>13. CASE Crash \/ CloseFails
  <2>1. phase' = "off" /\ lastSession' = lastSession
    BY <1>13 DEF Crash, CloseFails, Quiet
  <2> QED
    BY <1>1, <1>5, <2>1 DEF WeekInv, WDone
<1>14. CASE UNCHANGED vars
  BY <1>14 DEF vars, WeekInv, WDone, WeekRead
<1> QED
  BY <1>6, <1>7, <1>8, <1>9, <1>10, <1>11, <1>12, <1>13, <1>14
     DEF Next, Session, RollupCall

(* Likewise an open session has every entry of a week that was over when it  *)
(* began in that week's summary, also when the week's days were closed by    *)
(* several sessions and some of them never ended; the calendar's weeks need  *)
(* not even be contiguous.                                                   *)
THEOREM WeeksAreMadeUpFor ==
    ASSUME Quiet
    PROVE  Spec => []WeeksSummarised
<1>1. Init => WeekInv
  <2> SUFFICES ASSUME Init PROVE WeekInv
    OBVIOUS
  <2>1. phase = "off" /\ \A t \in Turns : turn[t] # "stored"
    BY DEF Init
  <2> QED
    BY <2>1 DEF WeekInv, WDone, WeeksDone
<1>2. TypeOK /\ DayInv /\ WeekInv /\ [Next]_vars => WeekInv'
  BY WeekStep
<1>3. TypeOK /\ WeekInv => WeeksSummarised
  <2> SUFFICES ASSUME TypeOK, WeekInv, phase = "open", NEW d \in Days,
                      \A e \in Days : WeekOf[e] = WeekOf[d] => e < upto, NEW t \in Chats(d)
               PROVE  t \in summary["week"][WeekOf[d]]
    BY DEF WeeksSummarised
  <2>1. WDone(upto) /\ t \in Turns /\ turn[t] = "stored" /\ key[t] = d
    BY DEF WeekInv, Chats
  <2> QED
    BY <2>1 DEF WDone, WeeksDone, Over
<1> QED
  BY <1>1, <1>2, <1>3, DayInit, DayStep, TypeCorrect, PTL DEF Spec

----------------------------------------------------------------------------
(* Summaries that the model writes only grow.                                *)

Now == PeriodOf(level, cur)

(* No summary ever covered more than the items below its period ever did;    *)
(* what is being summarised was found there; and when it is all that is      *)
(* there, and what is there is no less than it was, it covers all that the   *)
(* period's summaries ever did.                                              *)
KeptInv  == \A l \in Levels : \A k \in Keys : summary[l][k] \subseteq best[l][k]
BoundInv == \A l \in Levels : \A k \in Keys : best[l][k] \subseteq Below(best, l, k)
ReadInv ==
    reading => /\ items \subseteq Below(best, level, Now)
               /\ ~failed /\ Source(level, Now) = Below(best, level, Now)
                     => best[level][Now] \subseteq items
GrowInv == KeptInv /\ BoundInv /\ ReadInv

LEMMA NowType == TypeOK => level \in Levels /\ Now \in Keys
BY PeriodType DEF TypeOK, Now

(* A tree that covers more has more below every period.                      *)
LEMMA BelowMonotone ==
    ASSUME NEW s, NEW t, \A l \in Levels : \A k \in Keys : s[l][k] \subseteq t[l][k],
           NEW l \in Levels, NEW k \in Keys
    PROVE  Below(s, l, k) \subseteq Below(t, l, k)
<1>a. Days \subseteq Keys
  BY CalendarAssumption DEF Days, Keys
<1>b. \A m \in Levels : \A e \in Keys : s[m][e] \subseteq t[m][e]
  OBVIOUS
<1>1. CASE l = "day"
  BY <1>1 DEF Below
<1>2. CASE l = "week"
  <2>1. "day" \in Levels
    BY DEF Levels
  <2> QED
    BY <1>2, <1>a, <1>b, <2>1 DEF Below
<1>3. CASE l = "month"
  <2>1. "week" \in Levels
    BY DEF Levels
  <2> QED
    BY <1>3, <1>b, <2>1 DEF Below
<1>4. CASE l = "year"
  <2>1. "month" \in Levels
    BY DEF Levels
  <2> QED
    BY <1>4, <1>b, <2>1 DEF Below
<1> QED
  BY <1>1, <1>2, <1>3, <1>4 DEF Levels

(* A stored entry stays, under its key. *)
LEMMA ChatsGrow ==
    ASSUME TypeOK, [Next]_vars
    PROVE  \A k : Chats(k) \subseteq Chats(k)'
<1> SUFFICES ASSUME NEW t \in Turns, turn[t] = "stored"
             PROVE  turn'[t] = "stored" /\ key'[t] = key[t]
  BY DEF Chats
<1>1. CASE \E u \in Turns : WriteChatTurn(u) \/ StoreTurn(u) \/ LoseTurn(u)
  BY <1>1 DEF WriteChatTurn, StoreTurn, LoseTurn, TypeOK
<1>2. CASE Tick \/ RollupCall \/ UNCHANGED vars
  BY <1>2 DEF Tick, RollupCall, NotDue, ScanItems, NothingToRoll, PutSummary, CloseFails, vars
<1>3. CASE Session
  BY <1>3 DEF Session, SessionStart, SessionEnd, SaveSession, Crash, WritersDie
<1> QED
  BY <1>1, <1>2, <1>3 DEF Next

(* What was ever below a period becomes no less: entries stay, and the       *)
(* history only grows.                                                       *)
LEMMA BelowGrows ==
    ASSUME TypeOK, [Next]_vars,
           \A l \in Levels : \A k \in Keys : best[l][k] \subseteq best'[l][k],
           NEW l \in Levels, NEW k \in Keys
    PROVE  Below(best, l, k) \subseteq Below(best, l, k)'
<1>a. Days \subseteq Keys
  BY CalendarAssumption DEF Days, Keys
<1>b. \A m \in Levels : \A e \in Keys : best[m][e] \subseteq best'[m][e]
  OBVIOUS
<1>1. CASE l = "day"
  BY <1>1, ChatsGrow DEF Below
<1>2. CASE l = "week"
  BY <1>2, <1>a, <1>b DEF Below, Levels
<1>3. CASE l = "month"
  BY <1>3, <1>b DEF Below, Levels
<1>4. CASE l = "year"
  BY <1>4, <1>b DEF Below, Levels
<1> QED
  BY <1>1, <1>2, <1>3, <1>4 DEF Levels

(* Only the put of a summary changes the tree. *)
LEMMA TreeStays == [Next]_vars => PutSummary \/ UNCHANGED <<summary, best>>
BY DEF Next, Tick, Session, SessionStart, SessionEnd, SaveSession, Crash, RollupCall, NotDue,
   ScanItems, NothingToRoll, CloseFails, WriteChatTurn, StoreTurn, LoseTurn, vars

(* What the put changes. *)
LEMMA PutTree ==
    ASSUME TypeOK, PutSummary
    PROVE  /\ reading /\ reading' = FALSE
           /\ summary'[level][Now] = items
           /\ best'[level][Now] = best[level][Now] \union items
           /\ \A l \in Levels : \A k \in Keys : l # level \/ k # Now =>
                 summary'[l][k] = summary[l][k] /\ best'[l][k] = best[l][k]
<1>1. level \in Levels /\ Now \in Keys
  BY NowType
<1>2. /\ reading /\ reading' = FALSE
      /\ summary' = [summary EXCEPT ![level][Now] = items]
      /\ best' = [best EXCEPT ![level][Now] = @ \union items]
  BY DEF PutSummary, NextCall, Now
<1> QED
  BY <1>1, <1>2 DEF TypeOK

LEMMA GrowStep ==
    ASSUME TypeOK, GrowInv, [Next]_vars
    PROVE  GrowInv'
<1>a. level \in Levels /\ Now \in Keys
  BY NowType
<1>b. \A l \in Levels : \A k \in Keys : best[l][k] \subseteq best'[l][k]
  <2>1. CASE PutSummary
    <3> SUFFICES ASSUME NEW l \in Levels, NEW k \in Keys PROVE best[l][k] \subseteq best'[l][k]
      OBVIOUS
    <3>1. CASE l = level /\ k = Now
      BY <2>1, <3>1, PutTree
    <3>2. CASE l # level \/ k # Now
      BY <2>1, <3>2, PutTree
    <3> QED
      BY <3>1, <3>2
  <2>2. CASE best' = best
    BY <2>2
  <2> QED
    BY <2>1, <2>2, TreeStays
<1>c. \A l \in Levels : \A k \in Keys : Below(best, l, k) \subseteq Below(best, l, k)'
  BY <1>b, BelowGrows
<1>d. ReadInv /\ KeptInv /\ BoundInv
  BY DEF GrowInv
<1>1. KeptInv'
  <2> SUFFICES ASSUME NEW l \in Levels, NEW k \in Keys PROVE summary'[l][k] \subseteq best'[l][k]
    BY DEF KeptInv
  <2>1. CASE PutSummary /\ l = level /\ k = Now
    BY <2>1, PutTree
  <2>2. CASE PutSummary /\ (l # level \/ k # Now)
    BY <1>d, <2>2, PutTree DEF KeptInv
  <2>3. CASE UNCHANGED <<summary, best>>
    BY <1>d, <2>3 DEF KeptInv
  <2> QED
    BY <2>1, <2>2, <2>3, TreeStays
<1>2. BoundInv'
  <2> SUFFICES ASSUME NEW l \in Levels, NEW k \in Keys
               PROVE  best'[l][k] \subseteq Below(best, l, k)'
    BY DEF BoundInv
  <2>1. best[l][k] \subseteq Below(best, l, k)'
    BY <1>c, <1>d DEF BoundInv
  <2>2. CASE PutSummary /\ l = level /\ k = Now
    <3>1. items \subseteq Below(best, l, k)
      BY <1>d, <2>2, PutTree DEF ReadInv
    <3>2. items \subseteq Below(best, l, k)'
      BY <1>c, <3>1
    <3> QED
      BY <2>1, <2>2, <3>2, PutTree
  <2>3. CASE PutSummary /\ (l # level \/ k # Now)
    BY <2>1, <2>3, PutTree
  <2>4. CASE UNCHANGED <<summary, best>>
    BY <2>1, <2>4
  <2> QED
    BY <2>2, <2>3, <2>4, TreeStays
<1>3. ReadInv'
  <2>1. CASE ScanItems
    <3>1. UNCHANGED <<level, cur, summary, best, turn, key>>
      BY <2>1 DEF ScanItems
    <3>2. Now' = Now
      BY <3>1 DEF Now, PeriodOf
    <3>3. Below(best, level, Now)' = Below(best, level, Now)
      BY <3>1, <3>2 DEF Below, Chats
    <3>4. Source(level, Now) \subseteq Below(best, level, Now)
      BY <1>a, <1>d, BelowMonotone DEF KeptInv, Source
    <3>5. Source(level, Now)' = Source(level, Now)
      BY <3>1, <3>2 DEF Source, Below, Chats
    <3>6. items' \subseteq Below(best, level, Now)
      BY <2>1, <3>4, ItemsFound DEF Now
    <3>7. ASSUME ~failed', Source(level, Now) = Below(best, level, Now)
          PROVE  best[level][Now] \subseteq items'
      <4>1. items' = Source(level, Now)
        BY <2>1, <3>7, ItemsFound DEF Now
      <4>2. best[level][Now] \subseteq Below(best, level, Now)
        BY <1>a, <1>d DEF BoundInv
      <4> QED
        BY <3>7, <4>1, <4>2
    <3> QED
      BY <3>1, <3>2, <3>3, <3>5, <3>6, <3>7 DEF ReadInv
  <2>2. CASE ~ScanItems /\ reading'
    <3>1. reading /\ UNCHANGED <<level, cur, items, failed, summary, best>>
      BY <2>2 DEF Next, Tick, Session, SessionStart, SessionEnd, SaveSession, Crash,
         RollupCall, NotDue, NothingToRoll, PutSummary, CloseFails, NextCall, NothingPending,
         WriteChatTurn, StoreTurn, LoseTurn, vars, control
    <3>2. Now' = Now
      BY <3>1 DEF Now, PeriodOf
    <3>3. items \subseteq Below(best, level, Now)
      BY <1>d, <3>1 DEF ReadInv
    <3>4. items' \subseteq Below(best, level, Now)'
      <4>1. Below(best, level, Now) \subseteq Below(best, level, Now)'
        <5>1. level' = level /\ best' = best
          BY <3>1
        <5>2. CASE level = "day"
          BY <3>2, <5>1, <5>2, ChatsGrow DEF Below
        <5>3. CASE level # "day"
          BY <1>a, <3>2, <5>1, <5>3 DEF Below, Levels
        <5> QED
          BY <5>2, <5>3
      <4> QED
        BY <3>1, <3>3, <4>1
    <3>5. ASSUME ~failed, Source(level, Now)' = Below(best, level, Now)'
          PROVE  best[level][Now] \subseteq items
      <4>1. Source(level, Now) = Below(best, level, Now)
        <5>1. CASE level = "day"
          BY <5>1 DEF Source, Below
        <5>2. CASE level # "day"
          <6>1. Below(best, level, Now)' = Below(best, level, Now)
            BY <1>a, <3>1, <3>2, <5>2 DEF Below, Levels
          <6>2. Source(level, Now)' = Source(level, Now)
            BY <1>a, <3>1, <3>2, <5>2 DEF Source, Below, Levels
          <6> QED
            BY <3>5, <6>1, <6>2
        <5> QED
          BY <5>1, <5>2
      <4> QED
        BY <1>d, <3>1, <3>5, <4>1 DEF ReadInv
    <3> QED
      BY <3>1, <3>2, <3>4, <3>5 DEF ReadInv
  <2>3. CASE ~reading'
    BY <2>3 DEF ReadInv
  <2> QED
    BY <2>1, <2>2, <2>3
<1> QED
  BY <1>1, <1>2, <1>3 DEF GrowInv

(* Through failed scans and puts, midnights, crashes and failed model calls, *)
(* a summary that the model makes of items that are all there again covers   *)
(* everything that its period's summaries have ever covered.                 *)
THEOREM SummariesOnlyGrow == Spec => SummariesGrow
<1> DEFINE Step == \A l \in Levels : \A k \in Keys :
                      summary'[l][k] # summary[l][k] =>
                          \/ best[l][k] \subseteq summary'[l][k]
                          \/ failed
                          \/ Source(l, k) # Below(best, l, k)
<1>1. Init => GrowInv
  <2> SUFFICES ASSUME Init PROVE GrowInv
    OBVIOUS
  <2>1. reading = FALSE /\ best = summary
    BY DEF Init
  <2>2. \A l \in Levels : \A k \in Keys : summary[l][k] = {}
    BY DEF Init
  <2> QED
    BY <2>1, <2>2 DEF GrowInv, KeptInv, BoundInv, ReadInv
<1>2. TypeOK /\ GrowInv /\ [Next]_vars => GrowInv'
  BY GrowStep
<1>3. TypeOK /\ GrowInv /\ [Next]_vars => Step
  <2> SUFFICES ASSUME TypeOK, GrowInv, [Next]_vars, NEW l \in Levels, NEW k \in Keys,
                      summary'[l][k] # summary[l][k], ~failed,
                      Source(l, k) = Below(best, l, k)
               PROVE  best[l][k] \subseteq summary'[l][k]
    OBVIOUS
  <2>1. PutSummary
    BY TreeStays
  <2>2. l = level /\ k = Now
    BY <2>1, PutTree
  <2>3. best[l][k] \subseteq items
    BY <2>1, <2>2, PutTree DEF GrowInv, ReadInv
  <2> QED
    BY <2>1, <2>2, <2>3, PutTree
<1>4. TypeOK /\ GrowInv /\ [Next]_vars => [Step]_vars
  BY <1>3
<1> QED
  BY <1>1, <1>2, <1>4, TypeCorrect, PTL DEF Spec, SummariesGrow
=============================================================================
