------------------------------- MODULE Rollup -------------------------------
(***************************************************************************)
(* The episodic summary tree (memory/rollup/, memory/episodes.py) and the   *)
(* session hooks that grow it (main.py).  Every turn is summarised by a     *)
(* background thread into a chat entry keyed by the day on which the thread *)
(* began.  session_start closes the days between last_session and today,    *)
(* with the weeks, months and years that ended meanwhile; session_end       *)
(* refreshes the periods of the current day and moves last_session.         *)
(* Bridge processes write chat entries too, but run no hooks.               *)
(*                                                                          *)
(* A chat entry is its turn, a summary the set of turns that reached it;    *)
(* an absent summary is the empty set, since none is ever stored for no     *)
(* items.  A summary that the model does not write is pieced together from  *)
(* its first items and may miss the others.                                 *)
(***************************************************************************)
EXTENDS Naturals, FiniteSets

CONSTANTS
    Turns,       \* the turns that are ever spoken
    MainTurns,   \* those of Turns spoken to the main process
    LastDay,     \* bound: the calendar ends here
    WeekOf, MonthOf, YearOf,   \* [Days -> Keys]: the calendar
    Midnight,    \* what midnight may interrupt: "session", "write"
    Faults       \* which of "scan", "put", "model", "crash" can happen

(* Limits of the code: the closing loop gives up after so many days          *)
(* (max_iterations), and a scan reads so many items (FULL_SCAN_LIMIT).  The  *)
(* calendar and the turns stay within them.                                  *)
MaxIterations == 3660
FullScanLimit == 5000

Days == 1 .. LastDay
Never == 0

(* The periods of each level are numbered; a day is its own number.          *)
Keys == 0 .. LastDay

ASSUME CalendarAssumption ==
    /\ LastDay \in Nat \ {0} /\ LastDay <= MaxIterations
    /\ IsFiniteSet(Turns) /\ Cardinality(Turns) <= FullScanLimit
    /\ WeekOf \in [Days -> Keys] /\ MonthOf \in [Days -> Keys] /\ YearOf \in [Days -> Keys]
    /\ MainTurns \subseteq Turns
    /\ Midnight \subseteq {"session", "write"}
    /\ Faults \subseteq {"scan", "put", "model", "crash"}

Levels == {"day", "week", "month", "year"}

(* The key of the level's period that contains day d.                        *)
PeriodOf(level, d) == CASE level = "day"   -> d
                        [] level = "week"  -> WeekOf[d]
                        [] level = "month" -> MonthOf[d]
                        [] level = "year"  -> YearOf[d]

VARIABLES
    today,        \* the wall clock's date
    phase,        \* of the main process: off, closing, open, refresh, saving
    cur,          \* current_dt of the loop, or the date being refreshed
    upto,         \* today_dt: the day on which the session started
    level,        \* the _rollup_... call in progress or next
    reading,      \* its items have been scanned and are being summarised
    items,        \* the turns they stand for
    failed,       \* the model did not answer for them
    lastSession,  \* the stored last_session, or Never
    summary,      \* summary[level][period]: the stored tree
    best,         \* history: all that a period's summaries have ever covered
    turn,         \* life of each turn's chat entry
    key           \* the day in the entry's key

control == <<phase, cur, upto, level, reading, items, failed>>
tree == <<summary, best>>
vars == <<today, control, lastSession, tree, turn, key>>

Init ==
    /\ today = 1
    /\ phase = "off"
    /\ cur = 1 /\ upto = 1 /\ level = "day"
    /\ reading = FALSE /\ items = {} /\ failed = FALSE
    /\ lastSession = Never
    /\ summary = [l \in Levels |-> [k \in Keys |-> {}]]
    /\ best = summary
    /\ turn = [t \in Turns |-> "unborn"]
    /\ key = [t \in Turns |-> 1]

----------------------------------------------------------------------------
(* The clock, the turns and their writers.                                   *)

Tick ==
    /\ today < LastDay
    /\ phase # "off" => "session" \in Midnight
    /\ (\E t \in Turns : turn[t] = "writing") => "write" \in Midnight
    /\ today' = today + 1
    /\ UNCHANGED <<control, lastSession, tree, turn, key>>

(* A turn is answered and its writer takes the time for the key; the main    *)
(* process listens while its session is open, a bridge at any time.          *)
WriteChatTurn(t) ==
    /\ turn[t] = "unborn"
    /\ t \in MainTurns => phase = "open"
    /\ turn' = [turn EXCEPT ![t] = "writing"]
    /\ key' = [key EXCEPT ![t] = today]
    /\ UNCHANGED <<today, control, lastSession, tree>>

(* The summary is made (a fallback if the model fails) and put.              *)
StoreTurn(t) ==
    /\ turn[t] = "writing"
    /\ turn' = [turn EXCEPT ![t] = "stored"]
    /\ UNCHANGED <<today, control, lastSession, tree, key>>

(* The put raises, or the writer's process ends first.                       *)
LoseTurn(t) ==
    /\ turn[t] = "writing"
    /\ "put" \in Faults \/ (t \notin MainTurns /\ "crash" \in Faults)
    /\ turn' = [turn EXCEPT ![t] = "lost"]
    /\ UNCHANGED <<today, control, lastSession, tree, key>>

(* When the main process ends its writers end with it.                       *)
WritersDie == turn' = [t \in Turns |->
                         IF t \in MainTurns /\ turn[t] = "writing" THEN "lost" ELSE turn[t]]

----------------------------------------------------------------------------
(* One _rollup_day, _rollup_week, _rollup_month or _rollup_year call.         *)

Chats(d) == {t \in Turns : turn[t] = "stored" /\ key[t] = d}

(* _week_in_month: some day of the week lies in the month.                   *)
WeekInMonth(w, m) == \E d \in Days : WeekOf[d] = w /\ MonthOf[d] = m
MonthInYear(m, y) == \E d \in Days : MonthOf[d] = m /\ YearOf[d] = y

(* What the items below a period stand for, the summaries being those of the *)
(* tree t; Source is what a scan finds now.                                  *)
Below(t, l, k) ==
    CASE l = "day"   -> Chats(k)
      [] l = "week"  -> UNION {t["day"][d] : d \in {e \in Days : WeekOf[e] = k}}
      [] l = "month" -> UNION {t["week"][w] : w \in {v \in Keys : WeekInMonth(v, k)}}
      [] l = "year"  -> UNION {t["month"][m] : m \in {n \in Keys : MonthInYear(n, k)}}
Source(l, k) == Below(summary, l, k)

(* Faulty variant, for the mutation runs only: the loop looks at the day     *)
(* before instead of the day after.                                          *)
DueOnEntry == \/ phase = "refresh"
              \/ level = "day"
              \/ cur > 1 /\ PeriodOf(level, cur) # PeriodOf(level, cur - 1)

(* The loop rolls the day, and a longer period when the next day is not in   *)
(* it (_crossed_week, _crossed_month, _crossed_year); a refresh rolls all.   *)
Due == \/ phase = "refresh"
       \/ level = "day"
       \/ cur < LastDay /\ PeriodOf(level, cur) # PeriodOf(level, cur + 1)

(* The next call: upwards, then to the next day until today_dt is reached.   *)
NextCall ==
    /\ level' = CASE level = "day" -> "week" [] level = "week" -> "month"
                  [] level = "month" -> "year" [] level = "year" -> "day"
    /\ IF level # "year"         THEN UNCHANGED <<phase, cur>>
       ELSE IF phase = "refresh" THEN phase' = "saving" /\ cur' = 1
       ELSE IF cur + 1 < upto    THEN phase' = phase /\ cur' = cur + 1
                                 ELSE phase' = "open" /\ cur' = 1
    /\ reading' = FALSE /\ items' = {} /\ failed' = FALSE
    /\ UNCHANGED upto

(* The locals of a call that has returned are gone. *)
NothingPending == /\ cur' = 1 /\ level' = "day"
                  /\ reading' = FALSE /\ items' = {} /\ failed' = FALSE

Rolling == phase \in {"closing", "refresh"}

NotDue ==
    /\ Rolling /\ ~Due
    /\ NextCall
    /\ UNCHANGED <<today, lastSession, tree, turn, key>>

(* full_scan finds items below the period; they go to the model.  If it      *)
(* raises, or nothing can be parsed, _fallback_summary takes the first four  *)
(* items and cuts them at 400 characters: any part of what was found, but    *)
(* not nothing.                                                              *)
ScanItems ==
    LET found == Source(level, PeriodOf(level, cur)) IN
    /\ Rolling /\ Due /\ ~reading
    /\ found # {}
    /\ reading' = TRUE
    /\ \/ items' = found /\ failed' = FALSE
       \/ /\ "model" \in Faults
          /\ items' \in (SUBSET found) \ {{}}
          /\ failed' = TRUE
    /\ UNCHANGED <<today, phase, cur, upto, level, lastSession, tree, turn, key>>

(* Faulty variant, for the mutation runs only: an empty scan is summarised.  *)
RollNothing ==
    /\ Rolling /\ Due /\ ~reading
    /\ Source(level, PeriodOf(level, cur)) = {} \/ "scan" \in Faults
    /\ reading' = TRUE /\ items' = {} /\ failed' = FALSE
    /\ UNCHANGED <<today, phase, cur, upto, level, lastSession, tree, turn, key>>

(* It finds none, or the store raised and full_scan answers []: return.      *)
NothingToRoll ==
    /\ Rolling /\ Due /\ ~reading
    /\ Source(level, PeriodOf(level, cur)) = {} \/ "scan" \in Faults
    /\ NextCall
    /\ UNCHANGED <<today, lastSession, tree, turn, key>>

(* The summary is stored under the period's key, replacing the one there.    *)
PutSummary ==
    /\ Rolling /\ reading
    /\ summary' = [summary EXCEPT ![level][PeriodOf(level, cur)] = items]
    /\ best' = [best EXCEPT ![level][PeriodOf(level, cur)] = @ \union items]
    /\ NextCall
    /\ UNCHANGED <<today, lastSession, turn, key>>

(* The put raises: _rollup_closed_periods prints it and the session goes on. *)
CloseFails ==
    /\ phase = "closing" /\ reading
    /\ "put" \in Faults
    /\ phase' = "open"
    /\ NothingPending
    /\ UNCHANGED <<today, upto, lastSession, tree, turn, key>>

----------------------------------------------------------------------------
(* The session of the main process.                                          *)

(* What a full_scan may answer for the set S of keys. *)
Scans(S) == {S} \union (IF "scan" \in Faults THEN {{}} ELSE {})

DaysRolled == {d \in Days : summary["day"][d] # {}}
DaysTalked == {d \in Days : Chats(d) # {}}
IsMin(d, S) == d \in S /\ \A e \in S : d <= e

(* Without a last_session the loop begins at the first day summary, or at    *)
(* the first chat entry, or, if there is none, today: nothing to do.         *)
FirstKnownDay(d) ==
    \E days \in Scans(DaysRolled), chats \in Scans(DaysTalked) :
        \/ IsMin(d, days)
        \/ days = {} /\ IsMin(d, chats)
        \/ days = {} /\ chats = {} /\ d = today

(* Faulty variant, for the mutation runs only: the loop begins after the     *)
(* last session's day.                                                       *)
StartAfterLast(d) ==
    IF lastSession # Never THEN d = IF lastSession < today THEN lastSession + 1 ELSE today
                           ELSE FirstKnownDay(d)

(* Where the loop begins. *)
StartDay(d) == IF lastSession # Never THEN d = lastSession ELSE FirstKnownDay(d)

(* session_start: rollup_if_needed. *)
SessionStart ==
    /\ phase = "off"
    /\ \E d \in Days :
          /\ StartDay(d)
          /\ IF d < today THEN phase' = "closing" /\ cur' = d
                       ELSE phase' = "open" /\ cur' = 1
    /\ upto' = today
    /\ level' = "day" /\ reading' = FALSE /\ items' = {} /\ failed' = FALSE
    /\ UNCHANGED <<today, lastSession, tree, turn, key>>

(* session_end: refresh_active_rollups, for the date it reads first.         *)
SessionEnd ==
    /\ phase = "open"
    /\ phase' = "refresh"
    /\ cur' = today
    /\ level' = "day" /\ reading' = FALSE /\ items' = {} /\ failed' = FALSE
    /\ UNCHANGED <<today, upto, lastSession, tree, turn, key>>

(* Then last_session is put, with the date of that moment; the process ends. *)
SaveSession ==
    /\ phase = "saving"
    /\ lastSession' = today
    /\ phase' = "off"
    /\ NothingPending /\ upto' = 1
    /\ WritersDie
    /\ UNCHANGED <<today, tree, key>>

(* The process dies, or a put of session_end raises out of main.             *)
Crash ==
    /\ phase # "off"
    /\ \/ "crash" \in Faults
       \/ "put" \in Faults /\ (phase = "saving" \/ (phase = "refresh" /\ reading))
    /\ phase' = "off"
    /\ NothingPending /\ upto' = 1
    /\ WritersDie
    /\ UNCHANGED <<today, lastSession, tree, key>>

Session == SessionStart \/ SessionEnd \/ SaveSession \/ Crash
RollupCall == NotDue \/ ScanItems \/ NothingToRoll \/ PutSummary \/ CloseFails

Next == \/ Tick \/ Session \/ RollupCall
        \/ \E t \in Turns : WriteChatTurn(t) \/ StoreTurn(t) \/ LoseTurn(t)

Spec == Init /\ [][Next]_vars

----------------------------------------------------------------------------
TypeOK ==
    /\ today \in Days /\ cur \in Days /\ upto \in Days
    /\ phase \in {"off", "closing", "open", "refresh", "saving"}
    /\ level \in Levels
    /\ reading \in BOOLEAN /\ items \subseteq Turns /\ failed \in BOOLEAN
    /\ lastSession \in Days \union {Never}
    /\ summary \in [Levels -> [Keys -> SUBSET Turns]]
    /\ best \in [Levels -> [Keys -> SUBSET Turns]]
    /\ turn \in [Turns -> {"unborn", "writing", "stored", "lost"}]
    /\ key \in [Turns -> Days]

(***************************************************************************)
(* While a session is open, every chat entry of an earlier day is in its    *)
(* day's summary, whatever crashes came before: a session that never ended  *)
(* is made up for by the next one that starts.                              *)
(***************************************************************************)
DaysSummarised ==
    phase = "open" => \A d \in Days : d < upto => Chats(d) \subseteq summary["day"][d]

(***************************************************************************)
(* The same for the weeks that were over when the session began: the entry  *)
(* reached its week, also when the days of the week were closed by several  *)
(* sessions.                                                                *)
(***************************************************************************)
WeeksSummarised ==
    phase = "open" =>
        \A d \in Days : (\A e \in Days : WeekOf[e] = WeekOf[d] => e < upto)
            => Chats(d) \subseteq summary["week"][WeekOf[d]]

(***************************************************************************)
(* A period rolled again, after crashes, failed scans and failed puts,      *)
(* covers all that its summaries ever covered, and so makes up for the      *)
(* turns a fallback left out, unless the model fails this time or the items *)
(* below are themselves short of what they have been.                       *)
(***************************************************************************)
SummariesGrow ==
    [][\A l \in Levels : \A k \in Keys :
          summary'[l][k] # summary[l][k] =>
              \/ best[l][k] \subseteq summary'[l][k]
              \/ failed
              \/ Source(l, k) # Below(best, l, k)]_vars
=============================================================================
