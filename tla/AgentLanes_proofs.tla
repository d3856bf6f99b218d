------------------------- MODULE AgentLanes_proofs -------------------------
(***************************************************************************)
(* Proofs about the nested lanes, for every set of runs and sessions, every *)
(* width and priority, and every number of disturbances.                    *)
(***************************************************************************)
EXTENDS AgentLanes, FiniteSetTheorems, FunctionTheorems, SequenceTheorems,
        WellFoundedInduction, TLAPS

Phases == {"new", "queued", "begun", "working", "closing", "done"}
Works == {"idle", "working", "over"}
Outcomes == {"none", "refused", "draining", "aborted", "cleared", "timeout", "ended"}
Depth(r) == Len(Path(r))

(* r has passed lane l's queue and not left the lane. *)
Holds(r, l, ph, lv) ==
    \E k \in 1 .. lv[r] : Path(r)[k] = l /\ (k = lv[r] => ph[r] # "queued")

(***************************************************************************)
(* The parts of the invariant are stated of given lanes, phases, levels ...,*)
(* since a step first changes a lane and then drains it.                    *)
(***************************************************************************)
Typed(ln, ph, lv, tg) ==
    /\ ln \in [Lanes -> CQ!LaneState]
    /\ ph \in [Runs -> Phases]
    /\ lv \in [Runs -> 0 .. 3]
    /\ tg \in [Runs -> [Lanes -> Nat]]

(* Where a run is, and what it has done there. *)
Placed(ph, lv, wk, oc, gu) ==
    /\ wk \in [Runs -> Works]
    /\ oc \in [Runs -> Outcomes]
    /\ \A r \in Runs :
        /\ lv[r] \in 0 .. Depth(r)
        /\ lv[r] = 0 <=> ph[r] \in {"new", "done"}
        /\ ph[r] = "working" => lv[r] = Depth(r) /\ wk[r] = "working"
        /\ ph[r] \in {"new", "queued", "begun"} => wk[r] = "idle" /\ oc[r] = "none"
        /\ wk[r] = "working" /\ r \notin gu => ph[r] = "working"

(* What is in a queue waits there, and is there once. *)
Queues(ln, ph, lv) ==
    \A l \in Lanes : \A i \in 1 .. Len(ln[l].queue) :
        /\ ph[ln[l].queue[i]] = "queued"
        /\ lv[ln[l].queue[i]] > 0
        /\ Path(ln[l].queue[i])[lv[ln[l].queue[i]]] = l
        /\ \A j \in 1 .. Len(ln[l].queue) : ln[l].queue[j] = ln[l].queue[i] => j = i

(* SlotsHaveOwners, and no task is of a generation to come. *)
Slots(ln, ph, lv, tg) ==
    \A l \in Lanes :
        /\ ln[l].active = {r \in Runs : Holds(r, l, ph, lv) /\ tg[r][l] = ln[l].gen}
        /\ \A r \in Runs : tg[r][l] <= ln[l].gen

(* A session has one slot. *)
OneSlot(ln) ==
    \A s \in Sessions : ln[s].max = 1 /\ \A q, r \in ln[s].active : q = r

(* Only a run that was given up holds no slot where it should. *)
Kept(ln, ph, lv, gu) ==
    \A r \in Runs : r \notin gu /\ Holds(r, SessionOf[r], ph, lv)
                       => r \in ln[SessionOf[r]].active

Sound(ln, ph, lv, tg, wk, oc, gu) ==
    /\ Typed(ln, ph, lv, tg)
    /\ Placed(ph, lv, wk, oc, gu)
    /\ Queues(ln, ph, lv)
    /\ Slots(ln, ph, lv, tg)
    /\ OneSlot(ln)
    /\ Kept(ln, ph, lv, gu)

IInv == Sound(lane, phase, level, taskGen, work, outcome, givenUp)

----------------------------------------------------------------------------
(* The path of a run: its lanes differ, and the last but one is its session. *)
LEMMA Paths ==
    ASSUME NEW r \in Runs
    PROVE  /\ Depth(r) = IF r \in CronRuns THEN 3 ELSE 2
           /\ \A k \in 1 .. Depth(r) : Path(r)[k] \in Lanes
           /\ \A j, k \in 1 .. Depth(r) : Path(r)[j] = Path(r)[k] => j = k
           /\ Path(r)[Depth(r)] \in GlobalLanes
           /\ Path(r)[Depth(r) - 1] = SessionOf[r]
           /\ \A k \in 1 .. Depth(r) : Path(r)[k] \in Sessions => k = Depth(r) - 1
           /\ SessionOf[r] \in Sessions
<1> DEFINE outer == IF r \in CronRuns THEN <<"cron">> ELSE <<>>
           inner == <<SessionOf[r], GlobalLane(r)>>
<1>1. SessionOf[r] \in Sessions /\ SessionOf[r] \notin GlobalLanes
  BY LanesAssumption
<1>2. GlobalLane(r) \in {"main", "cron-nested"}
  BY DEF GlobalLane
<1>3. /\ outer \in Seq(Lanes) /\ inner \in Seq(Lanes)
      /\ Len(outer) = IF r \in CronRuns THEN 1 ELSE 0
      /\ r \in CronRuns => outer[1] = "cron"
      /\ Len(inner) = 2 /\ inner[1] = SessionOf[r] /\ inner[2] = GlobalLane(r)
  <2>1. "cron" \in Lanes /\ SessionOf[r] \in Lanes /\ GlobalLane(r) \in Lanes
    BY <1>1, <1>2 DEF Lanes, GlobalLanes
  <2>2. inner \in Seq(Lanes) /\ Len(inner) = 2 /\ inner[1] = SessionOf[r]
        /\ inner[2] = GlobalLane(r)
    BY <2>1
  <2>3. CASE r \in CronRuns
    <3>1. outer = <<"cron">>
      BY <2>3
    <3> QED BY <2>1, <2>2, <2>3, <3>1
  <2>4. CASE r \notin CronRuns
    <3>1. outer = <<>>
      BY <2>4
    <3> QED BY <2>1, <2>2, <2>4, <3>1
  <2> QED BY <2>3, <2>4
<1>4. Path(r) = outer \o inner
  BY DEF Path
<1> HIDE DEF outer, inner
<1>5. /\ Len(Path(r)) = Len(outer) + Len(inner)
      /\ \A i \in 1 .. Len(outer) + Len(inner) :
            Path(r)[i] = IF i <= Len(outer) THEN outer[i] ELSE inner[i - Len(outer)]
  BY <1>3, <1>4, ConcatProperties
<1>6. CASE r \in CronRuns
  <2>1. /\ Depth(r) = 3 /\ Path(r)[1] = "cron" /\ Path(r)[2] = SessionOf[r]
        /\ Path(r)[3] = GlobalLane(r)
    BY <1>3, <1>5, <1>6 DEF Depth
  <2>2. 1 .. Depth(r) = {1, 2, 3} /\ Depth(r) - 1 = 2
    BY <2>1
  <2>3. GlobalLane(r) = "cron-nested" /\ SessionOf[r] \notin {"cron", "cron-nested"}
    BY <1>1, <1>6 DEF GlobalLane, GlobalLanes
  <2>4. "cron" \notin Sessions /\ "cron-nested" \notin Sessions
    BY LanesAssumption DEF GlobalLanes
  <2> QED BY <1>1, <1>6, <2>1, <2>2, <2>3, <2>4 DEF Lanes, GlobalLanes
<1>7. CASE r \notin CronRuns
  <2>1. Depth(r) = 2 /\ Path(r)[1] = SessionOf[r] /\ Path(r)[2] = GlobalLane(r)
    BY <1>3, <1>5, <1>7 DEF Depth
  <2>2. 1 .. Depth(r) = {1, 2} /\ Depth(r) - 1 = 1
    BY <2>1
  <2>3. GlobalLane(r) = "main" /\ SessionOf[r] # "main"
    BY <1>1, <1>7 DEF GlobalLane, GlobalLanes
  <2>4. "main" \notin Sessions
    BY LanesAssumption DEF GlobalLanes
  <2> QED BY <1>1, <1>7, <2>1, <2>2, <2>3, <2>4 DEF Lanes, GlobalLanes
<1> QED BY <1>6, <1>7

(* What a pump starts is a prefix of the queue. *)
LEMMA PumpRoom ==
    ASSUME NEW x \in CQ!LaneState
    PROVE  /\ IsFiniteSet(x.active) /\ Cardinality(x.active) \in Nat
           /\ CQ!Cardinality(x.active) = Cardinality(x.active)
           /\ CQ!Room(x) \in 0 .. Len(x.queue)
           /\ CQ!Started(x) \subseteq Runs
<1>1. x.queue \in Seq(Runs) /\ x.active \subseteq Runs /\ x.max \in Nat /\ x.gen \in Nat
  BY DEF CQ!LaneState
<1>2. IsFiniteSet(x.active) /\ Cardinality(x.active) \in Nat
  BY <1>1, FS_Subset, FS_CardinalityType, LanesAssumption
<1>3. CQ!Cardinality(x.active) = Cardinality(x.active)
  BY DEF Cardinality, CQ!Cardinality
<1>4. CQ!Room(x) \in 0 .. Len(x.queue)
  BY <1>1, <1>2, <1>3 DEF CQ!Room
<1>5. CQ!Started(x) \subseteq Runs
  BY <1>1, <1>4 DEF CQ!Started
<1> QED BY <1>2, <1>3, <1>4, <1>5

LEMMA PumpEffect ==
    ASSUME NEW x \in CQ!LaneState
    PROVE  /\ CQ!Pump(x) \in CQ!LaneState
           /\ CQ!Pump(x).active = x.active \union CQ!Started(x)
           /\ CQ!Pump(x).max = x.max
           /\ CQ!Pump(x).gen = x.gen
           /\ Len(CQ!Pump(x).queue) = Len(x.queue) - CQ!Room(x)
           /\ \A i \in 1 .. Len(CQ!Pump(x).queue) :
                 /\ i + CQ!Room(x) \in 1 .. Len(x.queue)
                 /\ CQ!Pump(x).queue[i] = x.queue[i + CQ!Room(x)]
<1>1. CQ!Room(x) \in 0 .. Len(x.queue) /\ CQ!Started(x) \subseteq Runs
  BY PumpRoom
<1>2. x.queue \in Seq(Runs) /\ x.active \subseteq Runs /\ x.max \in Nat /\ x.gen \in Nat
  BY DEF CQ!LaneState
<1> DEFINE rest == SubSeq(x.queue, CQ!Room(x) + 1, Len(x.queue))
<1>3. rest \in Seq(Runs) /\ Len(rest) = Len(x.queue) - CQ!Room(x)
  BY <1>1, <1>2
<1>4. \A i \in 1 .. Len(rest) : /\ i + CQ!Room(x) \in 1 .. Len(x.queue)
                                /\ rest[i] = x.queue[i + CQ!Room(x)]
  BY <1>1, <1>2, <1>3
<1>5. CQ!Pump(x) = [[x EXCEPT !.active = x.active \union CQ!Started(x)] EXCEPT !.queue = rest]
  BY DEF CQ!Pump
<1> HIDE DEF rest
<1>6. CQ!Pump(x) \in CQ!LaneState
  BY <1>1, <1>2, <1>3, <1>5 DEF CQ!LaneState
<1>7. /\ CQ!Pump(x).queue = rest /\ CQ!Pump(x).active = x.active \union CQ!Started(x)
      /\ CQ!Pump(x).max = x.max /\ CQ!Pump(x).gen = x.gen
  BY <1>5 DEF CQ!LaneState
<1> QED BY <1>3, <1>4, <1>6, <1>7

(* The runs that leave the queue of l when the lanes of L are drained. *)
Begun(L, st, l) == IF l \in L THEN CQ!Started(st[l]) ELSE {}

(* What a drain does to the lanes, the phases and the generations. *)
Drained(L, st, ph, lv) ==
    /\ \A l \in Lanes :
          /\ lane'[l].active = st[l].active \union Begun(L, st, l)
          /\ lane'[l].max = st[l].max
          /\ lane'[l].gen = st[l].gen
    /\ \A l \in Lanes : \A r \in Begun(L, st, l) :
          r \in Runs /\ ph[r] = "queued" /\ lv[r] > 0 /\ Path(r)[lv[r]] = l
    /\ \A r \in Runs :
          phase'[r] = IF \E l \in Lanes : r \in Begun(L, st, l) THEN "begun" ELSE ph[r]
    /\ \A r \in Runs, l \in Lanes :
          taskGen'[r][l] = IF r \in Begun(L, st, l) THEN st[l].gen ELSE taskGen[r][l]

LEMMA DrainEffect ==
    ASSUME NEW L \in SUBSET Lanes, NEW st, NEW ph, NEW lv,
           Typed(st, ph, lv, taskGen), Queues(st, ph, lv), Drain(L, st, ph)
    PROVE  /\ Typed(lane', phase', lv, taskGen')
           /\ Queues(lane', phase', lv)
           /\ Drained(L, st, ph, lv)
<1>1. \A l \in Lanes : st[l] \in CQ!LaneState /\ st[l].queue \in Seq(Runs)
  BY DEF Typed, CQ!LaneState
<1>2. \A l \in Lanes : lane'[l] = IF l \in L THEN CQ!Pump(st[l]) ELSE st[l]
  BY DEF Drain
<1>3. \A l \in Lanes :
         /\ lane'[l] \in CQ!LaneState
         /\ lane'[l].active = st[l].active \union Begun(L, st, l)
         /\ lane'[l].max = st[l].max
         /\ lane'[l].gen = st[l].gen
  BY <1>1, <1>2, PumpEffect DEF Begun
<1>4. \A r \in Runs :
         phase'[r] = IF \E l \in Lanes : r \in Begun(L, st, l) THEN "begun" ELSE ph[r]
  BY DEF Drain, Begun
<1>5. \A r \in Runs, l \in Lanes :
         taskGen'[r][l] = IF r \in Begun(L, st, l) THEN st[l].gen ELSE taskGen[r][l]
  BY DEF Drain, Begun
<1>6. Typed(lane', phase', lv, taskGen')
  <2>1. lane' \in [Lanes -> CQ!LaneState]
    BY <1>3 DEF Drain
  <2>2. phase' \in [Runs -> Phases]
    BY DEF Drain, Typed, Phases
  <2>3. \A l \in Lanes : st[l].gen \in Nat
    BY <1>1 DEF CQ!LaneState
  <2>4. taskGen' \in [Runs -> [Lanes -> Nat]]
    BY <2>3 DEF Drain, Typed
  <2> QED BY <2>1, <2>2, <2>4 DEF Typed
<1>7. \A l \in Lanes : \A r \in Begun(L, st, l) :
         /\ r \in Runs /\ ph[r] = "queued" /\ lv[r] > 0 /\ Path(r)[lv[r]] = l
         /\ \E i \in 1 .. CQ!Room(st[l]) : r = st[l].queue[i]
  <2> SUFFICES ASSUME NEW l \in L, NEW r \in CQ!Started(st[l])
               PROVE  /\ r \in Runs /\ ph[r] = "queued" /\ lv[r] > 0 /\ Path(r)[lv[r]] = l
                      /\ \E i \in 1 .. CQ!Room(st[l]) : r = st[l].queue[i]
    BY DEF Begun
  <2>1. CQ!Room(st[l]) \in 0 .. Len(st[l].queue) /\ CQ!Started(st[l]) \subseteq Runs
    BY <1>1, PumpRoom
  <2>2. PICK i \in 1 .. CQ!Room(st[l]) : r = st[l].queue[i]
    BY DEF CQ!Started
  <2>3. i \in 1 .. Len(st[l].queue)
    BY <1>1, <2>1, <2>2
  <2> QED BY <2>1, <2>2, <2>3 DEF Queues
<1>8. Queues(lane', phase', lv)
  <2> SUFFICES ASSUME NEW l \in Lanes, NEW i \in 1 .. Len(lane'[l].queue)
               PROVE  /\ phase'[lane'[l].queue[i]] = "queued"
                      /\ lv[lane'[l].queue[i]] > 0
                      /\ Path(lane'[l].queue[i])[lv[lane'[l].queue[i]]] = l
                      /\ \A j \in 1 .. Len(lane'[l].queue) :
                            lane'[l].queue[j] = lane'[l].queue[i] => j = i
    BY DEF Queues
  <2> DEFINE shift == IF l \in L THEN CQ!Room(st[l]) ELSE 0
  <2>1. /\ shift \in 0 .. Len(st[l].queue) /\ Len(lane'[l].queue) = Len(st[l].queue) - shift
        /\ \A j \in 1 .. Len(lane'[l].queue) : /\ j + shift \in 1 .. Len(st[l].queue)
                                                /\ lane'[l].queue[j] = st[l].queue[j + shift]
    <3>1. Len(st[l].queue) \in Nat
      BY <1>1
    <3>2. CASE l \in L
      <4>1. lane'[l] = CQ!Pump(st[l]) /\ shift = CQ!Room(st[l])
        BY <1>2, <3>2
      <4>2. /\ CQ!Room(st[l]) \in 0 .. Len(st[l].queue)
            /\ Len(CQ!Pump(st[l]).queue) = Len(st[l].queue) - CQ!Room(st[l])
            /\ \A j \in 1 .. Len(CQ!Pump(st[l]).queue) :
                  /\ j + CQ!Room(st[l]) \in 1 .. Len(st[l].queue)
                  /\ CQ!Pump(st[l]).queue[j] = st[l].queue[j + CQ!Room(st[l])]
        BY <1>1, PumpEffect, PumpRoom
      <4> HIDE DEF shift
      <4> QED BY <4>1, <4>2
    <3>3. CASE l \notin L
      <4>1. lane'[l] = st[l] /\ shift = 0
        BY <1>2, <3>3
      <4>2. \A j \in 1 .. Len(st[l].queue) : j + 0 = j
        BY <3>1
      <4> HIDE DEF shift
      <4>3. ASSUME NEW j \in 1 .. Len(lane'[l].queue)
            PROVE  j + shift = j /\ lane'[l].queue[j] = st[l].queue[j]
        BY <4>1, <4>2
      <4>4. shift \in 0 .. Len(st[l].queue) /\ Len(lane'[l].queue) = Len(st[l].queue) - shift
        BY <3>1, <4>1
      <4> QED BY <4>1, <4>3, <4>4
    <3> QED BY <3>2, <3>3
  <2> HIDE DEF shift
  <2> DEFINE r == lane'[l].queue[i]
  <2>2. /\ r = st[l].queue[i + shift] /\ r \in Runs
        /\ ph[r] = "queued" /\ lv[r] > 0 /\ Path(r)[lv[r]] = l
        /\ \A j \in 1 .. Len(st[l].queue) : st[l].queue[j] = r => j = i + shift
    <3>1. i + shift \in 1 .. Len(st[l].queue) /\ r = st[l].queue[i + shift]
      BY <2>1
    <3>2. r \in Runs
      BY <1>1, <3>1
    <3> HIDE DEF r
    <3> QED BY <3>1, <3>2 DEF Queues
  <2>3. r \notin Begun(L, st, l)
    <3>1. SUFFICES ASSUME r \in Begun(L, st, l) PROVE FALSE
      OBVIOUS
    <3>2. PICK j \in 1 .. CQ!Room(st[l]) : r = st[l].queue[j]
      BY <1>7, <3>1
    <3>3. l \in L /\ CQ!Room(st[l]) \in 0 .. Len(st[l].queue)
      BY <1>1, <3>1, PumpRoom DEF Begun
    <3>4. Len(st[l].queue) \in Nat /\ shift = CQ!Room(st[l])
      BY <1>1, <3>3 DEF shift
    <3>5. j \in 1 .. Len(st[l].queue) /\ j < i + shift
      BY <3>3, <3>4
    <3> QED BY <2>2, <3>2, <3>5
  <2>4. \A m \in Lanes : r \notin Begun(L, st, m)
    BY <1>7, <2>2, <2>3
  <2>5. phase'[r] = "queued"
    BY <1>4, <2>2, <2>4
  <2>6. \A j \in 1 .. Len(lane'[l].queue) : lane'[l].queue[j] = r => j = i
    <3>1. SUFFICES ASSUME NEW j \in 1 .. Len(lane'[l].queue), lane'[l].queue[j] = r
                   PROVE  j = i
      OBVIOUS
    <3>2. j + shift = i + shift
      BY <2>1, <2>2, <3>1
    <3>3. i \in Nat /\ j \in Nat /\ shift \in Nat
      <4>1. Len(st[l].queue) \in Nat
        BY <1>1
      <4> QED BY <2>1, <4>1
    <3> QED BY <3>2, <3>3
  <2> QED BY <2>2, <2>5, <2>6
<1>9. Drained(L, st, ph, lv)
  BY <1>3, <1>4, <1>5, <1>7 DEF Drained
<1> QED BY <1>6, <1>8, <1>9

(* A drain adds to the holders of a lane those that it starts there.         *)
LEMMA DrainHolds ==
    ASSUME NEW L \in SUBSET Lanes, NEW st, NEW ph, NEW lv,
           Typed(st, ph, lv, taskGen), Queues(st, ph, lv), Drain(L, st, ph),
           NEW r \in Runs, NEW l \in Lanes
    PROVE  Holds(r, l, phase', lv) <=> Holds(r, l, ph, lv) \/ r \in Begun(L, st, l)
<1>1. lv[r] \in Nat
  BY DEF Typed
<1>2. /\ \A m \in Lanes : r \in Begun(L, st, m) => ph[r] = "queued" /\ lv[r] > 0 /\ Path(r)[lv[r]] = m
      /\ phase'[r] = IF \E m \in Lanes : r \in Begun(L, st, m) THEN "begun" ELSE ph[r]
  <2>1. Drained(L, st, ph, lv)
    BY DrainEffect
  <2> QED BY <2>1 DEF Drained
<1>3. CASE \A m \in Lanes : r \notin Begun(L, st, m)
  BY <1>2, <1>3 DEF Holds
<1>4. CASE \E m \in Lanes : r \in Begun(L, st, m)
  <2>1. PICK m \in Lanes : r \in Begun(L, st, m)
    BY <1>4
  <2>2. /\ ph[r] = "queued" /\ phase'[r] = "begun" /\ Path(r)[lv[r]] = m
        /\ lv[r] \in 1 .. lv[r]
        /\ r \in Begun(L, st, l) <=> l = m
    BY <1>1, <1>2, <2>1
  <2>3. Holds(r, l, phase', lv) <=> \E k \in 1 .. lv[r] : Path(r)[k] = l
    BY <2>2 DEF Holds
  <2>4. Holds(r, l, ph, lv) <=> \E k \in 1 .. lv[r] : k # lv[r] /\ Path(r)[k] = l
    BY <2>2 DEF Holds
  <2> QED BY <2>2, <2>3, <2>4
<1> QED BY <1>3, <1>4

(* A pump leaves at most one active where there is one slot.                 *)
LEMMA PumpOne ==
    ASSUME NEW x \in CQ!LaneState, x.max = 1, \A q, r \in x.active : q = r
    PROVE  \A q, r \in x.active \union CQ!Started(x) : q = r
<1>1. x.queue \in Seq(Runs) /\ Len(x.queue) \in Nat
  BY DEF CQ!LaneState
<1>2. /\ IsFiniteSet(x.active) /\ Cardinality(x.active) \in Nat
      /\ CQ!Cardinality(x.active) = Cardinality(x.active)
  BY PumpRoom
<1>3. CASE x.active = {}
  <2>1. Cardinality(x.active) = 0 /\ CQ!Cardinality(x.active) = 0
    BY <1>2, <1>3, FS_EmptySet
  <2>2. CQ!Room(x) = IF 1 < Len(x.queue) THEN 1 ELSE Len(x.queue)
    BY <1>1, <2>1 DEF CQ!Room
  <2>3. 1 .. CQ!Room(x) \subseteq {1}
    BY <1>1, <2>2
  <2>4. CQ!Started(x) \subseteq {x.queue[1]}
    BY <2>3 DEF CQ!Started
  <2> QED BY <1>3, <2>4
<1>4. CASE x.active # {}
  <2>1. Cardinality(x.active) # 0
    BY <1>2, <1>4, FS_EmptySet
  <2>2. CQ!Room(x) = 0
    BY <1>2, <2>1 DEF CQ!Room
  <2>3. CQ!Started(x) = {}
    BY <2>2 DEF CQ!Started
  <2> QED BY <2>3
<1> QED BY <1>3, <1>4

(* The invariant survives every drain. *)
LEMMA DrainSound ==
    ASSUME NEW L \in SUBSET Lanes, NEW st, NEW ph, NEW lv, NEW wk, NEW oc, NEW gu,
           Sound(st, ph, lv, taskGen, wk, oc, gu), Drain(L, st, ph)
    PROVE  Sound(lane', phase', lv, taskGen', wk, oc, gu)
<1>1. Typed(st, ph, lv, taskGen) /\ Queues(st, ph, lv)
  BY DEF Sound
<1>2. Typed(lane', phase', lv, taskGen') /\ Queues(lane', phase', lv)
  BY <1>1, DrainEffect
<1>3. Drained(L, st, ph, lv)
  BY <1>1, DrainEffect
<1>4. \A r \in Runs, l \in Lanes :
         Holds(r, l, phase', lv) <=> Holds(r, l, ph, lv) \/ r \in Begun(L, st, l)
  BY <1>1, DrainHolds
<1>5. Placed(phase', lv, wk, oc, gu)
  <2>1. \A r \in Runs : phase'[r] = ph[r] \/ (ph[r] = "queued" /\ phase'[r] = "begun")
    BY <1>3 DEF Drained
  <2> QED BY <2>1 DEF Sound, Placed
<1>6. Slots(lane', phase', lv, taskGen')
  <2> SUFFICES ASSUME NEW l \in Lanes
               PROVE  /\ lane'[l].active = {r \in Runs : Holds(r, l, phase', lv)
                                                       /\ taskGen'[r][l] = lane'[l].gen}
                      /\ \A r \in Runs : taskGen'[r][l] <= lane'[l].gen
    BY DEF Slots
  <2>1. /\ st[l].active = {r \in Runs : Holds(r, l, ph, lv) /\ taskGen[r][l] = st[l].gen}
        /\ \A r \in Runs : taskGen[r][l] <= st[l].gen
        /\ st[l].gen \in Nat
    BY DEF Sound, Slots, Typed, CQ!LaneState
  <2>2. \A r \in Runs : taskGen'[r][l] <= lane'[l].gen
    BY <1>3, <2>1 DEF Drained
  <2>3. \A r \in Runs : r \in lane'[l].active <=>
           Holds(r, l, phase', lv) /\ taskGen'[r][l] = lane'[l].gen
    BY <1>3, <1>4, <2>1 DEF Drained
  <2>4. lane'[l].active \subseteq Runs
    BY <1>3, <2>1 DEF Drained
  <2> QED BY <2>2, <2>3, <2>4
<1>7. OneSlot(lane')
  <2> SUFFICES ASSUME NEW s \in Sessions
               PROVE  lane'[s].max = 1 /\ \A q, r \in lane'[s].active : q = r
    BY DEF OneSlot
  <2>1. s \in Lanes /\ st[s] \in CQ!LaneState
    BY <1>1 DEF Lanes, Typed
  <2>2. st[s].max = 1 /\ \A q, r \in st[s].active : q = r
    BY DEF Sound, OneSlot
  <2>3. \A q, r \in st[s].active \union CQ!Started(st[s]) : q = r
    BY <2>1, <2>2, PumpOne
  <2>4. lane'[s].active \subseteq st[s].active \union CQ!Started(st[s])
    BY <1>3, <2>1 DEF Begun, Drained
  <2> QED BY <1>3, <2>1, <2>2, <2>3, <2>4 DEF Drained
<1>8. Kept(lane', phase', lv, gu)
  <2>1. \A r \in Runs : SessionOf[r] \in Lanes
    BY Paths DEF Lanes
  <2> QED BY <1>3, <1>4, <2>1 DEF Sound, Kept, Drained
<1> QED BY <1>2, <1>5, <1>6, <1>7, <1>8 DEF Sound

(* After a pump nothing waits beside a free slot.                            *)
LEMMA PumpFills ==
    ASSUME NEW x \in CQ!LaneState,
           \A i, j \in 1 .. Len(x.queue) : x.queue[i] = x.queue[j] => i = j,
           x.active \cap CQ!Started(x) = {},
           CQ!Pump(x).queue # <<>>
    PROVE  Cardinality(CQ!Pump(x).active) >= CQ!Pump(x).max
<1>1. /\ x.queue \in Seq(Runs) /\ Len(x.queue) \in Nat /\ x.max \in Nat
      /\ IsFiniteSet(x.active) /\ Cardinality(x.active) \in Nat
      /\ CQ!Cardinality(x.active) = Cardinality(x.active)
      /\ CQ!Room(x) \in 0 .. Len(x.queue)
  BY PumpRoom DEF CQ!LaneState
<1>2. /\ CQ!Pump(x) \in CQ!LaneState
      /\ CQ!Pump(x).active = x.active \union CQ!Started(x)
      /\ CQ!Pump(x).max = x.max
      /\ Len(CQ!Pump(x).queue) = Len(x.queue) - CQ!Room(x)
  BY PumpEffect
<1>3. Len(CQ!Pump(x).queue) # 0
  <2>1. CQ!Pump(x).queue \in Seq(Runs)
    BY <1>2 DEF CQ!LaneState
  <2> QED BY <2>1
<1>4. CQ!Room(x) < Len(x.queue)
  BY <1>1, <1>2, <1>3
<1> DEFINE n == CQ!Room(x)
           start == [i \in 1 .. n |-> x.queue[i]]
<1>5. start \in Bijection(1 .. n, CQ!Started(x))
  <2>1. start \in [1 .. n -> CQ!Started(x)]
    BY DEF CQ!Started
  <2>2. \A i, j \in 1 .. n : start[i] = start[j] => i = j
    BY <1>1
  <2>3. \A r \in CQ!Started(x) : \E i \in 1 .. n : start[i] = r
    BY DEF CQ!Started
  <2> HIDE DEF start, n
  <2> QED BY <2>1, <2>2, <2>3, Fun_IsBij
<1>6. IsFiniteSet(CQ!Started(x)) /\ Cardinality(CQ!Started(x)) = n
  <2>1. IsFiniteSet(1 .. n) /\ Cardinality(1 .. n) = n
    BY <1>1, FS_Interval
  <2>2. ExistsBijection(1 .. n, CQ!Started(x))
    BY <1>5 DEF ExistsBijection
  <2> QED BY <2>1, <2>2, FS_Bijection
<1>7. Cardinality(CQ!Pump(x).active) = Cardinality(x.active) + n
  <2>1. Cardinality({}) = 0
    BY FS_EmptySet
  <2>2. Cardinality(x.active \union CQ!Started(x))
           = Cardinality(x.active) + Cardinality(CQ!Started(x)) - Cardinality({})
    BY <1>1, <1>6, FS_Union
  <2> QED BY <1>1, <1>2, <1>6, <2>1, <2>2
<1>8. CASE Cardinality(x.active) >= x.max
  BY <1>1, <1>2, <1>7, <1>8
<1>9. CASE Cardinality(x.active) < x.max
  <2>1. n = x.max - Cardinality(x.active)
    BY <1>1, <1>4, <1>9 DEF CQ!Room
  <2> QED BY <1>1, <1>2, <1>7, <2>1
<1> QED BY <1>1, <1>8, <1>9

(* NoIdleSlot, of given lanes, and for the lanes outside L only.             *)
Filled(L, ln) ==
    \A l \in Lanes \ L : ln[l].queue # <<>> => Cardinality(ln[l].active) >= ln[l].max

LEMMA DrainFills ==
    ASSUME NEW L \in SUBSET Lanes, NEW st, NEW ph, NEW lv, NEW wk, NEW oc, NEW gu,
           Sound(st, ph, lv, taskGen, wk, oc, gu), Drain(L, st, ph), Filled(L, st)
    PROVE  Filled({}, lane')
<1> SUFFICES ASSUME NEW l \in Lanes, lane'[l].queue # <<>>
             PROVE  Cardinality(lane'[l].active) >= lane'[l].max
  BY DEF Filled
<1>1. CASE l \notin L
  BY <1>1 DEF Drain, Filled
<1>2. CASE l \in L
  <2>1. lane'[l] = CQ!Pump(st[l]) /\ st[l] \in CQ!LaneState
    BY <1>2 DEF Drain, Sound, Typed
  <2>2. \A i, j \in 1 .. Len(st[l].queue) : st[l].queue[i] = st[l].queue[j] => i = j
    BY DEF Sound, Queues
  <2>3. st[l].active \cap CQ!Started(st[l]) = {}
    <3>1. SUFFICES ASSUME NEW r \in CQ!Started(st[l]), r \in st[l].active
                   PROVE  FALSE
      OBVIOUS
    <3>2. Typed(st, ph, lv, taskGen) /\ Queues(st, ph, lv) /\ Slots(st, ph, lv, taskGen)
          /\ Placed(ph, lv, wk, oc, gu)
      BY DEF Sound
    <3>3. Drained(L, st, ph, lv)
      BY <3>2, DrainEffect
    <3>4. r \in Runs /\ ph[r] = "queued" /\ lv[r] > 0 /\ Path(r)[lv[r]] = l
      BY <1>2, <3>3 DEF Drained, Begun
    <3>5. Holds(r, l, ph, lv)
      BY <3>1, <3>2 DEF Slots
    <3>6. PICK k \in 1 .. lv[r] : Path(r)[k] = l /\ k # lv[r]
      BY <3>4, <3>5 DEF Holds
    <3>7. lv[r] \in 1 .. Depth(r) /\ Depth(r) \in Nat
      BY <3>2, <3>4, Paths DEF Placed
    <3> QED BY <3>4, <3>6, <3>7, Paths
  <2> QED BY <2>1, <2>2, <2>3, PumpFills
<1> QED BY <1>1, <1>2

(* The least of some natural numbers is one of them.                         *)
LEMMA MinOfNaturals ==
    ASSUME NEW S \in SUBSET Nat, S # {}
    PROVE  CQ!Min(S) \in S /\ \A y \in S : CQ!Min(S) <= y
<1>1. PICK x \in S : \A y \in S : <<y, x>> \notin OpToRel(<, Nat)
  BY NatLessThanWellFounded, WFMin
<1>2. \A y \in S : ~ (y < x)
  BY <1>1 DEF OpToRel
<1>3. \A y \in S : x <= y
  BY <1>2
<1> QED BY <1>3 DEF CQ!Min

(* An entry is put into the queue at one place, behind those of its priority *)
(* and before the first of a lower one, and the rest moves up.               *)
Inserted(q2, q, e) ==
    \E at \in 1 .. Len(q) + 1 :
        /\ Len(q2) = Len(q) + 1
        /\ \A i \in 1 .. at - 1 : Priority[q[i]] >= Priority[e]
        /\ at <= Len(q) => Priority[q[at]] < Priority[e]
        /\ \A i \in 1 .. Len(q) + 1 :
              q2[i] = IF i < at THEN q[i] ELSE IF i = at THEN e ELSE q[i - 1]

LEMMA EnqueueEffect ==
    ASSUME NEW x \in CQ!LaneState, NEW e \in Runs
    PROVE  /\ CQ!Enqueue(x, e) \in CQ!LaneState
           /\ CQ!Enqueue(x, e).active = x.active
           /\ CQ!Enqueue(x, e).max = x.max
           /\ CQ!Enqueue(x, e).gen = x.gen
           /\ Inserted(CQ!Enqueue(x, e).queue, x.queue, e)
<1> DEFINE q == x.queue
           n == Len(q)
           lower == {i \in DOMAIN q : Priority[q[i]] < Priority[e]}
           at == IF lower = {} THEN n + 1 ELSE CQ!Min(lower)
<1>1. q \in Seq(Runs) /\ n \in Nat /\ DOMAIN q = 1 .. n
  BY DEF CQ!LaneState
<1>2. at \in 1 .. n + 1
  <2>1. CASE lower = {}
    BY <1>1, <2>1
  <2>2. CASE lower # {}
    <3>1. lower \in SUBSET Nat /\ lower \subseteq 1 .. n
      BY <1>1
    <3> HIDE DEF lower
    <3>2. CQ!Min(lower) \in lower
      BY <2>2, <3>1, MinOfNaturals
    <3>3. at = CQ!Min(lower)
      BY <2>2
    <3> HIDE DEF at
    <3>4. at \in 1 .. n
      BY <3>1, <3>2, <3>3
    <3> QED BY <1>1, <3>4
  <2> QED BY <2>1, <2>2
<1>12. /\ \A i \in 1 .. at - 1 : Priority[q[i]] >= Priority[e]
       /\ at <= n => Priority[q[at]] < Priority[e]
  <2>1. \A i \in 1 .. n : Priority[q[i]] \in Nat /\ Priority[e] \in Nat
    BY <1>1, LanesAssumption
  <2>2. \A i \in 1 .. n : i \in lower <=> Priority[q[i]] < Priority[e]
    BY <1>1
  <2>3. lower \in SUBSET Nat
    BY <1>1
  <2> HIDE DEF lower
  <2>4. CASE lower = {}
    <3>1. at = n + 1
      BY <2>4
    <3> HIDE DEF at
    <3> QED BY <1>1, <2>1, <2>2, <2>4, <3>1
  <2>5. CASE lower # {}
    <3>1. at \in lower /\ \A y \in lower : at <= y
      BY <2>3, <2>5, MinOfNaturals
    <3> HIDE DEF at
    <3> QED BY <1>1, <1>2, <2>1, <2>2, <3>1
  <2> QED BY <2>4, <2>5
<1> DEFINE q2 == CQ!InsertAt(q, at, e)
<1>3. CQ!Enqueue(x, e) = [x EXCEPT !.queue = q2]
  BY DEF CQ!Enqueue
<1> HIDE DEF lower, at
<1> DEFINE before == SubSeq(q, 1, at - 1)
           after == SubSeq(q, at, n)
<1>4. /\ before \in Seq(Runs) /\ Len(before) = at - 1
      /\ \A i \in 1 .. at - 1 : before[i] = q[i]
  BY <1>1, <1>2
<1>5. /\ after \in Seq(Runs) /\ Len(after) = n + 1 - at
      /\ \A i \in 1 .. n + 1 - at : after[i] = q[at + i - 1]
  BY <1>1, <1>2
<1>6. q2 = (before \o <<e>>) \o after
  BY DEF CQ!InsertAt
<1> HIDE DEF q2, before, after
<1> DEFINE front == before \o <<e>>
<1>7. <<e>> \in Seq(Runs) /\ Len(<<e>>) = 1 /\ <<e>>[1] = e
  OBVIOUS
<1>8. /\ front \in Seq(Runs) /\ Len(front) = at
      /\ \A i \in 1 .. at : front[i] = IF i < at THEN q[i] ELSE e
  <2>1. /\ front \in Seq(Runs) /\ Len(front) = Len(before) + Len(<<e>>)
        /\ \A i \in 1 .. Len(before) + Len(<<e>>) :
              front[i] = IF i <= Len(before) THEN before[i] ELSE <<e>>[i - Len(before)]
    BY <1>4, <1>7, ConcatProperties
  <2> HIDE DEF front
  <2> QED BY <1>1, <1>2, <1>4, <1>7, <2>1
<1> HIDE DEF front
<1>9. /\ q2 \in Seq(Runs) /\ Len(q2) = n + 1
      /\ \A i \in 1 .. n + 1 : q2[i] = IF i < at THEN q[i] ELSE IF i = at THEN e ELSE q[i - 1]
  <2>1. /\ q2 \in Seq(Runs) /\ Len(q2) = Len(front) + Len(after)
        /\ \A i \in 1 .. Len(front) + Len(after) :
              q2[i] = IF i <= Len(front) THEN front[i] ELSE after[i - Len(front)]
    BY <1>5, <1>6, <1>8, ConcatProperties DEF front
  <2>2. Len(q2) = n + 1
    BY <1>1, <1>2, <1>5, <1>8, <2>1
  <2>3. ASSUME NEW i \in 1 .. n + 1
        PROVE  q2[i] = IF i < at THEN q[i] ELSE IF i = at THEN e ELSE q[i - 1]
    <3>1. CASE i <= at
      BY <1>1, <1>2, <1>5, <1>8, <2>1, <3>1
    <3>2. CASE i > at
      <4>1. i - at \in 1 .. n + 1 - at /\ at + (i - at) - 1 = i - 1
        BY <1>1, <1>2, <3>2
      <4>2. q2[i] = after[i - at]
        BY <1>1, <1>2, <1>5, <1>8, <2>1, <3>2
      <4>3. after[i - at] = q[at + (i - at) - 1]
        BY <1>5, <4>1
      <4> QED BY <1>1, <1>2, <3>2, <4>1, <4>2, <4>3
    <3> QED BY <1>1, <1>2, <3>1, <3>2
  <2> QED BY <2>1, <2>2, <2>3
<1>10. /\ CQ!Enqueue(x, e) \in CQ!LaneState /\ CQ!Enqueue(x, e).queue = q2
       /\ CQ!Enqueue(x, e).active = x.active /\ CQ!Enqueue(x, e).max = x.max
       /\ CQ!Enqueue(x, e).gen = x.gen
  BY <1>3, <1>9 DEF CQ!LaneState
<1>11. Inserted(q2, q, e)
  BY <1>2, <1>9, <1>12 DEF Inserted
<1> QED BY <1>10, <1>11

----------------------------------------------------------------------------
(* A run enters lane m, the next of its path: the lanes before their drain.  *)
Entered(r, m, st, ph) ==
    /\ m \in Lanes
    /\ st \in [Lanes -> CQ!LaneState]
    /\ Inserted(st[m].queue, lane[m].queue, r)
    /\ \A l \in Lanes \ {m} : st[l] = lane[l]
    /\ \A l \in Lanes : /\ st[l].active = lane[l].active
                        /\ st[l].max = lane[l].max
                        /\ st[l].gen = lane[l].gen
    /\ ph[r] = "queued"
    /\ \A q \in Runs \ {r} : ph[q] = phase[q] /\ level'[q] = level[q]
    /\ \A q \in Runs, l \in Lanes : Holds(q, l, ph, level') <=> Holds(q, l, phase, level)

Enters(r, k, m, st, ph) ==
    /\ m = Path(r)[k]
    /\ st = [lane EXCEPT ![m] = CQ!Enqueue(@, r)]
    /\ ph = [phase EXCEPT ![r] = "queued"]
    /\ level' = [level EXCEPT ![r] = k]

LEMMA EnterReady ==
    ASSUME IInv, NEW r \in Runs, NEW k \in 1 .. Depth(r),
           phase[r] \in {"new", "begun"}, k = level[r] + 1,
           NEW m, NEW st, NEW ph, Enters(r, k, m, st, ph)
    PROVE  /\ Sound(st, ph, level', taskGen, work, outcome, givenUp)
           /\ Entered(r, m, st, ph)
<1>2. /\ Typed(lane, phase, level, taskGen) /\ Placed(phase, level, work, outcome, givenUp)
      /\ Queues(lane, phase, level) /\ Slots(lane, phase, level, taskGen)
      /\ OneSlot(lane) /\ Kept(lane, phase, level, givenUp)
  BY DEF IInv, Sound
<1>1. /\ m = Path(r)[k]
      /\ st = [lane EXCEPT ![m] = CQ!Enqueue(@, r)]
      /\ ph = [phase EXCEPT ![r] = "queued"]
      /\ level' = [level EXCEPT ![r] = k]
  BY DEF Enters
<1>3. m \in Lanes /\ k \in 1 .. 3 /\ Depth(r) \in {2, 3}
  BY <1>1, Paths
<1>4. /\ lane[m] \in CQ!LaneState /\ lane[m].queue \in Seq(Runs)
      /\ st \in [Lanes -> CQ!LaneState]
      /\ st[m] = CQ!Enqueue(lane[m], r)
      /\ \A l \in Lanes \ {m} : st[l] = lane[l]
  BY <1>1, <1>2, <1>3, EnqueueEffect DEF Typed, CQ!LaneState
<1>5. \A l \in Lanes : /\ st[l].active = lane[l].active
                       /\ st[l].max = lane[l].max
                       /\ st[l].gen = lane[l].gen
  BY <1>4, EnqueueEffect
<1>6. /\ ph \in [Runs -> Phases] /\ ph[r] = "queued"
      /\ level' \in [Runs -> 0 .. 3] /\ level'[r] = k
      /\ \A q \in Runs \ {r} : ph[q] = phase[q] /\ level'[q] = level[q]
  BY <1>1, <1>2, <1>3 DEF Typed, Phases
<1>7. Typed(st, ph, level', taskGen)
  BY <1>2, <1>4, <1>6 DEF Typed
<1>8. Placed(ph, level', work, outcome, givenUp)
  BY <1>2, <1>3, <1>6 DEF Placed
<1>9. Queues(st, ph, level')
  <2>1. \A l \in Lanes : \A i \in 1 .. Len(lane[l].queue) : lane[l].queue[i] # r
    BY <1>2 DEF Queues
  <2>2. \A l \in Lanes : lane[l].queue \in Seq(Runs)
    BY <1>2 DEF Typed, CQ!LaneState
  <2>3. \A l \in Lanes : \A i \in 1 .. Len(lane[l].queue) :
           /\ lane[l].queue[i] \in Runs \ {r}
           /\ ph[lane[l].queue[i]] = "queued" /\ level'[lane[l].queue[i]] > 0
           /\ Path(lane[l].queue[i])[level'[lane[l].queue[i]]] = l
           /\ \A j \in 1 .. Len(lane[l].queue) : lane[l].queue[j] = lane[l].queue[i] => j = i
    BY <1>2, <1>6, <2>1, <2>2 DEF Queues
  <2>4. PICK at \in 1 .. Len(lane[m].queue) + 1 :
           /\ Len(st[m].queue) = Len(lane[m].queue) + 1
           /\ \A i \in 1 .. Len(lane[m].queue) + 1 :
                 st[m].queue[i] = IF i < at THEN lane[m].queue[i]
                                  ELSE IF i = at THEN r ELSE lane[m].queue[i - 1]
    <3>1. Inserted(st[m].queue, lane[m].queue, r)
      BY <1>4, EnqueueEffect
    <3> QED BY <3>1 DEF Inserted
  <2>5. Len(lane[m].queue) \in Nat
    BY <1>4
  <2>6. ASSUME NEW i \in 1 .. Len(st[m].queue)
        PROVE  /\ ph[st[m].queue[i]] = "queued" /\ level'[st[m].queue[i]] > 0
               /\ Path(st[m].queue[i])[level'[st[m].queue[i]]] = m
               /\ \A j \in 1 .. Len(st[m].queue) : st[m].queue[j] = st[m].queue[i] => j = i
    <3>1. CASE i = at
      <4>1. st[m].queue[i] = r
        BY <2>4, <3>1
      <4>2. ASSUME NEW j \in 1 .. Len(st[m].queue), j # i PROVE st[m].queue[j] # r
        <5>1. \/ j \in 1 .. Len(lane[m].queue) /\ st[m].queue[j] = lane[m].queue[j]
              \/ j - 1 \in 1 .. Len(lane[m].queue) /\ st[m].queue[j] = lane[m].queue[j - 1]
          BY <2>4, <2>5, <3>1, <4>2
        <5> QED BY <1>3, <2>3, <5>1
      <4>3. Path(r)[k] = m /\ k > 0
        BY <1>1
      <4> QED BY <1>6, <4>1, <4>2, <4>3
    <3>2. CASE i # at
      <4> DEFINE i1 == IF i < at THEN i ELSE i - 1
      <4>1. i1 \in 1 .. Len(lane[m].queue) /\ st[m].queue[i] = lane[m].queue[i1]
        BY <2>4, <2>5, <3>2
      <4>2. ASSUME NEW j \in 1 .. Len(st[m].queue), st[m].queue[j] = st[m].queue[i] PROVE j = i
        <5>1. j # at
          BY <1>3, <2>3, <2>4, <4>1, <4>2
        <5> DEFINE j1 == IF j < at THEN j ELSE j - 1
        <5>2. j1 \in 1 .. Len(lane[m].queue) /\ st[m].queue[j] = lane[m].queue[j1]
          BY <2>4, <2>5, <5>1
        <5> HIDE DEF i1, j1
        <5>3. \A a, b \in 1 .. Len(lane[m].queue) : lane[m].queue[a] = lane[m].queue[b] => a = b
          BY <1>3, <2>3
        <5>4. i1 = j1
          BY <4>1, <4>2, <5>2, <5>3
        <5> USE DEF i1, j1
        <5> QED BY <2>4, <2>5, <3>2, <5>1, <5>4
      <4> HIDE DEF i1
      <4> QED BY <1>3, <2>3, <4>1, <4>2
    <3> QED BY <3>1, <3>2
  <2> SUFFICES ASSUME NEW l \in Lanes, NEW i \in 1 .. Len(st[l].queue)
               PROVE  /\ ph[st[l].queue[i]] = "queued" /\ level'[st[l].queue[i]] > 0
                      /\ Path(st[l].queue[i])[level'[st[l].queue[i]]] = l
                      /\ \A j \in 1 .. Len(st[l].queue) : st[l].queue[j] = st[l].queue[i] => j = i
    BY DEF Queues
  <2>7. CASE l = m
    BY <2>6, <2>7
  <2>8. CASE l # m
    <3>1. st[l] = lane[l]
      BY <1>4, <2>8
    <3> QED BY <2>3, <3>1
  <2> QED BY <2>7, <2>8
<1>10. \A q \in Runs, l \in Lanes : Holds(q, l, ph, level') <=> Holds(q, l, phase, level)
  <2>1. ASSUME NEW l \in Lanes PROVE Holds(r, l, ph, level') <=> Holds(r, l, phase, level)
    <3>1. Holds(r, l, ph, level') <=> \E j \in 1 .. level[r] : Path(r)[j] = l
      <4>1. level[r] \in Nat
        BY <1>2 DEF Typed
      <4> QED BY <1>6, <4>1 DEF Holds
    <3> QED BY <3>1 DEF Holds
  <2>2. ASSUME NEW q \in Runs \ {r}, NEW l \in Lanes
        PROVE  Holds(q, l, ph, level') <=> Holds(q, l, phase, level)
    BY <1>6 DEF Holds
  <2> QED BY <2>1, <2>2
<1>11. Slots(st, ph, level', taskGen)
  BY <1>2, <1>5, <1>10 DEF Slots
<1>12. OneSlot(st)
  BY <1>2, <1>5 DEF OneSlot, Lanes
<1>13. Kept(st, ph, level', givenUp)
  <2>1. \A q \in Runs : SessionOf[q] \in Lanes
    BY Paths DEF Lanes
  <2> QED BY <1>2, <1>5, <1>10, <2>1 DEF Kept
<1>14. Sound(st, ph, level', taskGen, work, outcome, givenUp)
  BY <1>7, <1>8, <1>9, <1>11, <1>12, <1>13 DEF Sound
<1>15. Entered(r, m, st, ph)
  <2>1. Inserted(st[m].queue, lane[m].queue, r)
    BY <1>4, EnqueueEffect
  <2> QED BY <1>3, <1>4, <1>5, <1>6, <1>10, <2>1 DEF Entered
<1> QED BY <1>14, <1>15

LEMMA EnterSound ==
    ASSUME IInv, NEW r \in Runs, NEW k \in 1 .. Depth(r),
           phase[r] \in {"new", "begun"}, k = level[r] + 1, Enter(r, k),
           UNCHANGED <<work, outcome, givenUp>>
    PROVE  /\ IInv'
           /\ Filled({}, lane) => Filled({}, lane')
           /\ \A q \in Runs \ {r} : phase'[q] = phase[q] \/ (phase[q] = "queued" /\ phase'[q] = "begun")
           /\ phase'[r] \in {"queued", "begun"}
<1> DEFINE m == Path(r)[k]
           st == [lane EXCEPT ![m] = CQ!Enqueue(@, r)]
           ph == [phase EXCEPT ![r] = "queued"]
<1>1. /\ Drain({m}, st, ph) /\ level' = [level EXCEPT ![r] = k]
      /\ work' = work /\ outcome' = outcome /\ givenUp' = givenUp
  BY DEF Enter
<1>2. Enters(r, k, m, st, ph)
  BY <1>1 DEF Enters
<1> HIDE DEF m, st, ph
<1>3. /\ Sound(st, ph, level', taskGen, work, outcome, givenUp)
      /\ Entered(r, m, st, ph)
  BY <1>1, <1>2, EnterReady
<1>4. {m} \in SUBSET Lanes
  BY <1>3 DEF Entered
<1>5. IInv'
  <2>1. Sound(lane', phase', level', taskGen', work, outcome, givenUp)
    BY <1>1, <1>3, <1>4, DrainSound
  <2> QED BY <1>1, <2>1 DEF IInv
<1>6. Filled({}, lane) => Filled({}, lane')
  <2>1. Filled({}, lane) => Filled({m}, st)
    BY <1>3 DEF Filled, Entered
  <2> QED BY <1>1, <1>3, <1>4, <2>1, DrainFills
<1>7. Drained({m}, st, ph, level')
  BY <1>1, <1>3, <1>4, DrainEffect DEF Sound
<1>8. \A q \in Runs : phase'[q] = ph[q] \/ (ph[q] = "queued" /\ phase'[q] = "begun")
  BY <1>7 DEF Drained
<1> QED BY <1>3, <1>5, <1>6, <1>8 DEF Entered

----------------------------------------------------------------------------
(* The turn of a run, from its work, its phase and its outcome. *)
TurnOf(w, p, o) ==
    IF w = "over" THEN "over"
    ELSE IF w = "working" THEN "running"
    ELSE IF w = "idle" /\ p = "new" THEN "new"
    ELSE IF o = "none" THEN "waiting" ELSE "over"

LEMMA Turns ==
    /\ Turn = [r \in Runs |-> TurnOf(work[r], phase[r], outcome[r])]
    /\ Turn' = [r \in Runs |-> TurnOf(work'[r], phase'[r], outcome'[r])]
<1>1. ASSUME NEW r \in Runs PROVE Turn[r] = TurnOf(work[r], phase[r], outcome[r])
  <2>1. CASE work[r] = "over"
    BY <2>1 DEF Turn, TurnOf
  <2>2. CASE work[r] = "working"
    BY <2>2 DEF Turn, TurnOf
  <2>3. CASE work[r] = "idle" /\ phase[r] = "new"
    BY <2>3 DEF Turn, TurnOf
  <2>4. CASE ~ (work[r] \in {"over", "working"} \/ (work[r] = "idle" /\ phase[r] = "new"))
    BY <2>4 DEF Turn, TurnOf
  <2> QED BY <2>1, <2>2, <2>3, <2>4
<1>2. ASSUME NEW r \in Runs PROVE Turn'[r] = TurnOf(work'[r], phase'[r], outcome'[r])
  <2>1. CASE work'[r] = "over"
    BY <2>1 DEF Turn, TurnOf
  <2>2. CASE work'[r] = "working"
    BY <2>2 DEF Turn, TurnOf
  <2>3. CASE work'[r] = "idle" /\ phase'[r] = "new"
    BY <2>3 DEF Turn, TurnOf
  <2>4. CASE ~ (work'[r] \in {"over", "working"} \/ (work'[r] = "idle" /\ phase'[r] = "new"))
    BY <2>4 DEF Turn, TurnOf
  <2> QED BY <2>1, <2>2, <2>3, <2>4
<1>3. Turn = [r \in Runs |-> Turn[r]] /\ Turn' = [r \in Runs |-> Turn'[r]]
  BY DEF Turn
<1> QED BY <1>1, <1>2, <1>3

(* Moving along the lanes does not change a turn. *)
LEMMA SameTurns ==
    ASSUME UNCHANGED <<work, outcome>>,
           \A q \in Runs : phase'[q] = phase[q] \/ (phase[q] # "new" /\ phase'[q] # "new")
    PROVE  Turn' = Turn
<1>1. \A q \in Runs : TurnOf(work'[q], phase'[q], outcome'[q]) = TurnOf(work[q], phase[q], outcome[q])
  BY DEF TurnOf
<1> QED BY <1>1, Turns

(* What every step does: it keeps the invariant and NoIdleSlot, and is a     *)
(* step of SerialTurns or none.                                              *)
StepOK ==
    /\ IInv'
    /\ Filled({}, lane) => Filled({}, lane')
    /\ Serial!Next \/ (Turn' = Turn /\ givenUp' = givenUp)

LEMMA AcceptStep ==
    ASSUME IInv, NEW r \in Runs, Accept(r)
    PROVE  StepOK
<1>1. /\ phase[r] = "new" /\ Enter(r, 1)
      /\ UNCHANGED <<work, outcome, givenUp>>
  BY DEF Accept
<1>2. level[r] = 0 /\ work[r] = "idle" /\ outcome[r] = "none"
  BY <1>1 DEF IInv, Sound, Placed
<1>3. 1 \in 1 .. Depth(r) /\ 1 = level[r] + 1
  BY <1>2, Paths
<1>4. /\ IInv'
      /\ Filled({}, lane) => Filled({}, lane')
      /\ \A q \in Runs \ {r} : phase'[q] = phase[q] \/ (phase[q] = "queued" /\ phase'[q] = "begun")
      /\ phase'[r] \in {"queued", "begun"}
  BY <1>1, <1>3, EnterSound
<1>5. Serial!Accept(r)
  <2>1. TurnOf(work[r], phase[r], outcome[r]) = "new"
    BY <1>1, <1>2 DEF TurnOf
  <2>2. TurnOf(work'[r], phase'[r], outcome'[r]) = "waiting"
    BY <1>1, <1>2, <1>4 DEF TurnOf
  <2>3. \A q \in Runs \ {r} :
           TurnOf(work'[q], phase'[q], outcome'[q]) = TurnOf(work[q], phase[q], outcome[q])
    BY <1>1, <1>4 DEF TurnOf
  <2>4. Turn' = [Turn EXCEPT ![r] = "waiting"] /\ Turn[r] = "new"
    BY <2>1, <2>2, <2>3, Turns
  <2> QED BY <1>1, <2>4 DEF Serial!Accept
<1>6. Serial!Next
  BY <1>5 DEF Serial!Next
<1> QED BY <1>4, <1>6 DEF StepOK

(* A step of a run that is in no queue, and that touches no lane. *)
LEMMA PhaseSound ==
    ASSUME IInv, NEW r \in Runs, phase[r] # "queued", phase'[r] # "queued",
           phase' \in [Runs -> Phases], \A q \in Runs \ {r} : phase'[q] = phase[q],
           UNCHANGED <<lane, level, taskGen>>, givenUp \subseteq givenUp',
           Placed(phase', level, work', outcome', givenUp')
    PROVE  /\ IInv'
           /\ Filled({}, lane) => Filled({}, lane')
<1>1. /\ Typed(lane, phase, level, taskGen) /\ Placed(phase, level, work, outcome, givenUp)
      /\ Queues(lane, phase, level) /\ Slots(lane, phase, level, taskGen)
      /\ OneSlot(lane) /\ Kept(lane, phase, level, givenUp)
  BY DEF IInv, Sound
<1>2. Typed(lane, phase', level, taskGen)
  BY <1>1 DEF Typed
<1>3. Queues(lane, phase', level)
  <2>1. \A l \in Lanes : \A i \in 1 .. Len(lane[l].queue) : lane[l].queue[i] \in Runs \ {r}
    BY <1>1 DEF Queues, Typed, CQ!LaneState
  <2> QED BY <1>1, <2>1 DEF Queues
<1>4. \A q \in Runs, l \in Lanes : Holds(q, l, phase', level) <=> Holds(q, l, phase, level)
  BY DEF Holds
<1>5. Slots(lane, phase', level, taskGen)
  BY <1>1, <1>4 DEF Slots
<1>6. Kept(lane, phase', level, givenUp')
  <2>1. \A q \in Runs : SessionOf[q] \in Lanes
    BY Paths DEF Lanes
  <2> QED BY <1>1, <1>4, <2>1 DEF Kept
<1>7. Sound(lane, phase', level, taskGen, work', outcome', givenUp')
  BY <1>1, <1>2, <1>3, <1>5, <1>6 DEF Sound
<1>8. lane' = lane /\ level' = level /\ taskGen' = taskGen
  OBVIOUS
<1>9. IInv'
  BY <1>7, <1>8 DEF IInv
<1> QED BY <1>8, <1>9

(* What a step that settles or starts the turn of one run alone leaves.      *)
LEMMA OtherTurns ==
    ASSUME NEW r \in Runs,
           \A q \in Runs \ {r} : /\ phase'[q] = phase[q] /\ work'[q] = work[q]
                                 /\ outcome'[q] = outcome[q]
    PROVE  Turn' = [Turn EXCEPT ![r] = TurnOf(work'[r], phase'[r], outcome'[r])]
<1>1. \A q \in Runs \ {r} :
         TurnOf(work'[q], phase'[q], outcome'[q]) = TurnOf(work[q], phase[q], outcome[q])
  BY DEF TurnOf
<1> QED BY <1>1, Turns

(* A run that waits is answered: its promise is settled. *)
LEMMA SettleStep ==
    ASSUME IInv, NEW r \in Runs, phase[r] = "begun", NEW why \in Outcomes \ {"none"},
           Settle(r, why), UNCHANGED <<lane, level, taskGen, work, givenUp>>
    PROVE  StepOK
<1>1. /\ phase' = [phase EXCEPT ![r] = "closing"]
      /\ outcome' = [outcome EXCEPT ![r] = why]
      /\ lane' = lane /\ level' = level /\ taskGen' = taskGen /\ work' = work
      /\ givenUp' = givenUp
  BY DEF Settle
<1>2. phase \in [Runs -> Phases] /\ Placed(phase, level, work, outcome, givenUp)
  BY DEF IInv, Sound, Typed
<1>3. /\ phase' \in [Runs -> Phases] /\ phase'[r] = "closing"
      /\ outcome' \in [Runs -> Outcomes] /\ outcome'[r] = why /\ why # "none"
      /\ \A q \in Runs \ {r} : phase'[q] = phase[q] /\ outcome'[q] = outcome[q]
  BY <1>1, <1>2 DEF Phases, Placed
<1>4. Placed(phase', level', work', outcome', givenUp')
  BY <1>1, <1>2, <1>3 DEF Placed
<1>5. /\ IInv'
      /\ Filled({}, lane) => Filled({}, lane')
  BY <1>1, <1>3, <1>4, PhaseSound
<1>6. Serial!Refuse({r})
  <2>1. TurnOf(work[r], phase[r], outcome[r]) = "waiting"
    BY <1>2 DEF TurnOf, Placed
  <2>2. TurnOf(work'[r], phase'[r], outcome'[r]) = "over"
    BY <1>1, <1>2, <1>3 DEF TurnOf, Placed
  <2>3. Turn' = [Turn EXCEPT ![r] = "over"] /\ Turn[r] = "waiting"
    BY <1>1, <1>3, <2>1, <2>2, OtherTurns, Turns
  <2>4. Turn' = [q \in Runs |-> IF q \in {r} THEN "over" ELSE Turn[q]]
    BY <2>3, Turns
  <2> QED BY <1>1, <2>3, <2>4 DEF Serial!Refuse
<1>7. Serial!Next
  BY <1>6 DEF Serial!Next
<1> QED BY <1>5, <1>7 DEF StepOK

(* GatewayDrainingError, at the door. *)
LEMMA RefuseStep ==
    ASSUME IInv, NEW r \in Runs, Refuse(r)
    PROVE  StepOK
<1>1. /\ phase[r] = "new" /\ phase' = [phase EXCEPT ![r] = "done"]
      /\ outcome' = [outcome EXCEPT ![r] = "refused"]
      /\ UNCHANGED <<lane, level, taskGen, work, givenUp>>
  BY DEF Refuse
<1>2. /\ phase \in [Runs -> Phases] /\ Placed(phase, level, work, outcome, givenUp)
  BY DEF IInv, Sound, Typed
<1>3. /\ phase' \in [Runs -> Phases] /\ phase'[r] = "done"
      /\ outcome' \in [Runs -> Outcomes] /\ outcome'[r] = "refused"
      /\ \A q \in Runs \ {r} : phase'[q] = phase[q] /\ outcome'[q] = outcome[q]
  BY <1>1, <1>2 DEF Phases, Placed, Outcomes
<1>4. Placed(phase', level', work', outcome', givenUp')
  BY <1>1, <1>2, <1>3 DEF Placed
<1>5. /\ IInv'
      /\ Filled({}, lane) => Filled({}, lane')
  BY <1>1, <1>3, <1>4, PhaseSound
<1>6. Serial!Accept(r)
  <2>1. TurnOf(work[r], phase[r], outcome[r]) = "new"
    BY <1>1, <1>2 DEF TurnOf, Placed
  <2>2. TurnOf(work'[r], phase'[r], outcome'[r]) = "over"
    BY <1>1, <1>2, <1>3 DEF TurnOf, Placed
  <2>3. Turn' = [Turn EXCEPT ![r] = "over"] /\ Turn[r] = "new"
    BY <1>1, <1>3, <2>1, <2>2, OtherTurns, Turns
  <2> QED BY <1>1, <2>3 DEF Serial!Accept
<1>7. Serial!Next
  BY <1>6 DEF Serial!Next
<1> QED BY <1>5, <1>7 DEF StepOK

LEMMA BeginNestedStep ==
    ASSUME IInv, NEW r \in Runs, BeginNested(r)
    PROVE  StepOK
<1>1. /\ phase[r] = "begun" /\ level[r] < Depth(r)
      /\ UNCHANGED <<work, givenUp>>
  BY DEF BeginNested, Depth
<1>2. CASE Settle(r, "aborted") /\ UNCHANGED <<lane, level, taskGen>>
  BY <1>1, <1>2, SettleStep DEF Outcomes
<1>3. CASE Settle(r, "draining") /\ UNCHANGED <<lane, level, taskGen>>
  BY <1>1, <1>3, SettleStep DEF Outcomes
<1>4. CASE Enter(r, level[r] + 1) /\ UNCHANGED outcome
  <2>1. level[r] + 1 \in 1 .. Depth(r)
    BY <1>1, Paths DEF IInv, Sound, Placed
  <2>2. /\ IInv'
        /\ Filled({}, lane) => Filled({}, lane')
        /\ \A q \in Runs \ {r} : phase'[q] = phase[q] \/ (phase[q] = "queued" /\ phase'[q] = "begun")
        /\ phase'[r] \in {"queued", "begun"}
    BY <1>1, <1>4, <2>1, EnterSound
  <2>3. Turn' = Turn
    BY <1>1, <1>4, <2>2, SameTurns
  <2> QED BY <1>1, <2>2, <2>3 DEF StepOK
<1> QED BY <1>2, <1>3, <1>4 DEF BeginNested

(* The heart of the matter: when the innermost task of a run begins, another *)
(* attempt of its session is under way only if one of the two lost its slot. *)
LEMMA TurnIsFree ==
    ASSUME IInv, NEW r \in Runs, phase[r] = "begun", level[r] = Depth(r),
           NEW q \in Runs, SessionOf[q] = SessionOf[r], work[q] = "working"
    PROVE  q \in givenUp \/ r \in givenUp
<1>1. SUFFICES ASSUME q \notin givenUp, r \notin givenUp
               PROVE  FALSE
  OBVIOUS
<1>2. /\ Placed(phase, level, work, outcome, givenUp) /\ OneSlot(lane)
      /\ Kept(lane, phase, level, givenUp)
  BY DEF IInv, Sound
<1>3. phase[q] = "working" /\ level[q] = Depth(q) /\ work[r] = "idle"
  BY <1>1, <1>2 DEF Placed
<1>4. \A p \in {q, r} : Holds(p, SessionOf[p], phase, level)
  <2>1. ASSUME NEW p \in {q, r} PROVE Holds(p, SessionOf[p], phase, level)
    <3>1. p \in Runs /\ level[p] = Depth(p)
      BY <1>3
    <3>2. Depth(p) - 1 \in 1 .. level[p] /\ Path(p)[Depth(p) - 1] = SessionOf[p]
          /\ Depth(p) - 1 # level[p]
      BY <3>1, Paths
    <3> QED BY <3>2 DEF Holds
  <2> QED BY <2>1
<1>5. q \in lane[SessionOf[r]].active /\ r \in lane[SessionOf[r]].active
  BY <1>1, <1>2, <1>4 DEF Kept
<1>6. q = r
  BY <1>2, <1>5, Paths DEF OneSlot
<1> QED BY <1>3, <1>6

LEMMA BeginWorkStep ==
    ASSUME IInv, NEW r \in Runs, BeginWork(r)
    PROVE  StepOK
<1>1. /\ phase[r] = "begun" /\ level[r] = Depth(r)
      /\ lane' = lane /\ level' = level /\ taskGen' = taskGen /\ givenUp' = givenUp
  BY DEF BeginWork, Depth
<1>2. CASE r \in aborted
  <2>1. Settle(r, "aborted") /\ UNCHANGED <<lane, level, taskGen, work, givenUp>>
    BY <1>2 DEF BeginWork
  <2> QED BY <1>1, <2>1, SettleStep DEF Outcomes
<1>3. CASE r \notin aborted
  <2>1. /\ phase' = [phase EXCEPT ![r] = "working"]
        /\ work' = [work EXCEPT ![r] = "working"]
        /\ outcome' = outcome
    BY <1>3 DEF BeginWork
  <2>2. phase \in [Runs -> Phases] /\ Placed(phase, level, work, outcome, givenUp)
    BY DEF IInv, Sound, Typed
  <2>3. /\ phase' \in [Runs -> Phases] /\ phase'[r] = "working"
        /\ work' \in [Runs -> Works] /\ work'[r] = "working"
        /\ \A q \in Runs \ {r} : phase'[q] = phase[q] /\ work'[q] = work[q]
    BY <2>1, <2>2 DEF Phases, Works, Placed
  <2>4. Placed(phase', level', work', outcome', givenUp')
    <3>1. level[r] = Depth(r) /\ Depth(r) # 0
      BY <1>1, Paths
    <3> QED BY <1>1, <2>1, <2>2, <2>3, <3>1 DEF Placed
  <2>5. /\ IInv'
        /\ Filled({}, lane) => Filled({}, lane')
    BY <1>1, <2>3, <2>4, PhaseSound
  <2>6. Serial!Begin(r)
    <3>1. TurnOf(work[r], phase[r], outcome[r]) = "waiting"
      BY <1>1, <2>2 DEF TurnOf, Placed
    <3>2. TurnOf(work'[r], phase'[r], outcome'[r]) = "running"
      BY <2>3 DEF TurnOf
    <3>3. Turn' = [Turn EXCEPT ![r] = "running"] /\ Turn[r] = "waiting"
      BY <2>1, <2>3, <3>1, <3>2, OtherTurns, Turns
    <3>4. \A q \in Runs : Turn[q] = "running" => work[q] = "working"
      BY Turns DEF TurnOf
    <3>5. \A q \in Runs : SessionOf[q] = SessionOf[r] /\ Turn[q] = "running"
                             => q \in givenUp \/ r \in givenUp
      BY <1>1, <3>4, TurnIsFree
    <3> QED BY <1>1, <3>3, <3>5 DEF Serial!Begin
  <2>7. Serial!Next
    BY <2>6 DEF Serial!Next
  <2> QED BY <2>5, <2>7 DEF StepOK
<1> QED BY <1>2, <1>3

LEMMA WorkEndsStep ==
    ASSUME IInv, NEW r \in Runs, WorkEnds(r)
    PROVE  StepOK
<1>1. /\ work[r] = "working" /\ work' = [work EXCEPT ![r] = "over"]
      /\ lane' = lane /\ level' = level /\ taskGen' = taskGen /\ givenUp' = givenUp
      /\ \/ /\ phase[r] = "working"
            /\ phase' = [phase EXCEPT ![r] = "closing"]
            /\ outcome' = [outcome EXCEPT ![r] = "ended"]
         \/ phase[r] # "working" /\ phase' = phase /\ outcome' = outcome
  BY DEF WorkEnds, Settle
<1>2. /\ phase \in [Runs -> Phases] /\ Placed(phase, level, work, outcome, givenUp)
  BY DEF IInv, Sound, Typed
<1>3. /\ phase' \in [Runs -> Phases] /\ phase'[r] \in {phase[r], "closing"} \ {"working", "queued"}
      /\ phase'[r] = phase[r] \/ phase[r] = "working"
      /\ outcome' \in [Runs -> Outcomes]
      /\ work' \in [Runs -> Works] /\ work'[r] = "over"
      /\ \A q \in Runs \ {r} : /\ phase'[q] = phase[q] /\ work'[q] = work[q]
                              /\ outcome'[q] = outcome[q]
  BY <1>1, <1>2 DEF Phases, Placed, Works, Outcomes
<1>4. /\ phase[r] \notin {"new", "queued", "begun"}
      /\ phase[r] = "working" => level[r] # 0
  BY <1>1, <1>2, Paths DEF Placed
<1>5. Placed(phase', level', work', outcome', givenUp')
  BY <1>1, <1>2, <1>3, <1>4 DEF Placed
<1>6. /\ IInv'
      /\ Filled({}, lane) => Filled({}, lane')
  BY <1>1, <1>3, <1>4, <1>5, PhaseSound
<1>7. Serial!End(r)
  <2>1. TurnOf(work[r], phase[r], outcome[r]) = "running"
    BY <1>1 DEF TurnOf
  <2>2. TurnOf(work'[r], phase'[r], outcome'[r]) = "over"
    BY <1>3 DEF TurnOf
  <2>3. Turn' = [Turn EXCEPT ![r] = "over"] /\ Turn[r] = "running"
    BY <1>3, <2>1, <2>2, OtherTurns, Turns
  <2> QED BY <1>1, <2>3 DEF Serial!End
<1>8. Serial!Next
  BY <1>7 DEF Serial!Next
<1> QED BY <1>6, <1>8 DEF StepOK

LEMMA LaneTimeoutStep ==
    ASSUME IInv, NEW r \in Runs, LaneTimeout(r)
    PROVE  StepOK
<1>1. /\ phase[r] = "working"
      /\ phase' = [phase EXCEPT ![r] = "closing"]
      /\ outcome' = [outcome EXCEPT ![r] = "timeout"]
      /\ lane' = lane /\ level' = level /\ taskGen' = taskGen /\ work' = work
      /\ givenUp' = givenUp \union {r}
  BY DEF LaneTimeout, Settle
<1>2. /\ phase \in [Runs -> Phases] /\ Placed(phase, level, work, outcome, givenUp)
  BY DEF IInv, Sound, Typed
<1>3. /\ phase' \in [Runs -> Phases] /\ phase'[r] = "closing"
      /\ outcome' \in [Runs -> Outcomes]
      /\ \A q \in Runs \ {r} : phase'[q] = phase[q] /\ outcome'[q] = outcome[q]
  BY <1>1, <1>2 DEF Phases, Placed, Outcomes
<1>4. Placed(phase', level', work', outcome', givenUp')
  BY <1>1, <1>2, <1>3 DEF Placed
<1>5. /\ IInv'
      /\ Filled({}, lane) => Filled({}, lane')
  BY <1>1, <1>3, <1>4, PhaseSound
<1>6. Serial!Release({r})
  <2>1. TurnOf(work'[r], phase'[r], outcome'[r]) = TurnOf(work[r], phase[r], outcome[r])
    BY <1>1, <1>2 DEF TurnOf, Placed
  <2>2. Turn' = Turn
    BY <1>1, <1>3, <2>1, OtherTurns, Turns
  <2> QED BY <1>1, <2>2 DEF Serial!Release
<1>7. Serial!Next
  BY <1>6 DEF Serial!Next
<1> QED BY <1>5, <1>7 DEF StepOK

(* A task leaves lane l: the lanes before the drain, which is of L.          *)
Leaves(r, l, L, st, ph) ==
    /\ phase[r] = "closing" /\ l = Here(r)
    /\ L = IF CQ!Current(lane[l], taskGen[r][l]) THEN {l} ELSE {}
    /\ st = IF CQ!Current(lane[l], taskGen[r][l])
            THEN [lane EXCEPT ![l] = CQ!Completed(@, r)] ELSE lane
    /\ ph = [phase EXCEPT ![r] = IF level[r] = 1 THEN "done" ELSE "closing"]
    /\ level' = [level EXCEPT ![r] = @ - 1]

(* What it leaves behind, whether or not its generation is the lane's own.   *)
Left(r, l, L, st, ph) ==
    /\ L \subseteq Lanes /\ (L = {l} \/ st = lane)
    /\ \A m \in Lanes : /\ st[m].queue = lane[m].queue
                        /\ st[m].active = IF m = l THEN lane[m].active \ {r} ELSE lane[m].active
    /\ \A m \in Lanes \ {l} : st[m] = lane[m]
    /\ ph[r] \in {"done", "closing"}
    /\ \A q \in Runs \ {r} : ph[q] = phase[q] /\ level'[q] = level[q]
    /\ \A q \in Runs, m \in Lanes :
          Holds(q, m, ph, level') <=> Holds(q, m, phase, level) /\ ~ (q = r /\ m = l)

LEMMA CompleteReady ==
    ASSUME IInv, NEW r \in Runs, NEW l, NEW L, NEW st, NEW ph, Leaves(r, l, L, st, ph)
    PROVE  /\ Sound(st, ph, level', taskGen, work, outcome, givenUp)
           /\ Left(r, l, L, st, ph)
<1> DEFINE current == CQ!Current(lane[l], taskGen[r][l])
<1>1. /\ phase[r] = "closing" /\ l = Here(r)
      /\ L = IF current THEN {l} ELSE {}
      /\ st = IF current THEN [lane EXCEPT ![l] = CQ!Completed(@, r)] ELSE lane
      /\ ph = [phase EXCEPT ![r] = IF level[r] = 1 THEN "done" ELSE "closing"]
      /\ level' = [level EXCEPT ![r] = @ - 1]
  BY DEF Leaves
<1>2. /\ Typed(lane, phase, level, taskGen) /\ Placed(phase, level, work, outcome, givenUp)
      /\ Queues(lane, phase, level) /\ Slots(lane, phase, level, taskGen)
      /\ OneSlot(lane) /\ Kept(lane, phase, level, givenUp)
  BY DEF IInv, Sound
<1>3. /\ level[r] \in 1 .. Depth(r) /\ Depth(r) \in {2, 3} /\ level[r] - 1 \in 0 .. 2
      /\ l \in Lanes /\ l = Path(r)[level[r]]
  <2>1. level[r] \in 0 .. Depth(r) /\ level[r] # 0 /\ Depth(r) \in {2, 3}
    BY <1>1, <1>2, Paths DEF Placed
  <2>2. level[r] \in 1 .. Depth(r) /\ level[r] - 1 \in 0 .. 2
    BY <2>1
  <2> QED BY <1>1, <2>1, <2>2, Paths DEF Here
<1>4. lane[l] \in CQ!LaneState /\ lane \in [Lanes -> CQ!LaneState]
  BY <1>2, <1>3 DEF Typed
<1>5. /\ CQ!Completed(lane[l], r) \in CQ!LaneState
      /\ CQ!Completed(lane[l], r).queue = lane[l].queue
      /\ CQ!Completed(lane[l], r).active = lane[l].active \ {r}
      /\ CQ!Completed(lane[l], r).max = lane[l].max
      /\ CQ!Completed(lane[l], r).gen = lane[l].gen
  BY <1>4 DEF CQ!Completed, CQ!LaneState
<1>6. /\ st \in [Lanes -> CQ!LaneState]
      /\ \A m \in Lanes \ {l} : st[m] = lane[m]
      /\ st[l].queue = lane[l].queue
      /\ st[l].active = lane[l].active \ {r}
      /\ st[l].max = lane[l].max
      /\ st[l].gen = lane[l].gen
  <2>1. CASE current
    <3>1. st = [lane EXCEPT ![l] = CQ!Completed(lane[l], r)]
      BY <1>1, <2>1
    <3> HIDE DEF current
    <3> QED BY <1>3, <1>4, <1>5, <3>1
  <2>2. CASE ~ current
    <3>1. st = lane
      BY <1>1, <2>2
    <3>2. r \notin lane[l].active
      BY <1>2, <1>3, <2>2 DEF Slots, CQ!Current
    <3> HIDE DEF current
    <3> QED BY <1>4, <3>1, <3>2
  <2> QED BY <2>1, <2>2
<1>7. /\ ph \in [Runs -> Phases] /\ ph[r] = IF level[r] = 1 THEN "done" ELSE "closing"
      /\ level' \in [Runs -> 0 .. 3] /\ level'[r] = level[r] - 1
      /\ \A q \in Runs \ {r} : ph[q] = phase[q] /\ level'[q] = level[q]
  BY <1>1, <1>2, <1>3 DEF Typed, Phases
<1>8. L \subseteq Lanes /\ (L = {l} \/ st = lane)
  BY <1>1, <1>3
<1> HIDE DEF current
<1>9. Typed(st, ph, level', taskGen)
  BY <1>2, <1>6, <1>7 DEF Typed
<1>10. Placed(ph, level', work, outcome, givenUp)
  BY <1>1, <1>2, <1>3, <1>7 DEF Placed
<1>11. Queues(st, ph, level')
  <2>1. \A m \in Lanes : st[m].queue = lane[m].queue
    BY <1>6
  <2>2. \A m \in Lanes : \A i \in 1 .. Len(lane[m].queue) : lane[m].queue[i] \in Runs \ {r}
    BY <1>1, <1>2 DEF Queues, Typed, CQ!LaneState
  <2> QED BY <1>2, <1>7, <2>1, <2>2 DEF Queues
<1>12. \A q \in Runs, m \in Lanes :
          Holds(q, m, ph, level') <=> Holds(q, m, phase, level) /\ ~ (q = r /\ m = l)
  <2>1. ASSUME NEW m \in Lanes PROVE Holds(r, m, ph, level') <=> Holds(r, m, phase, level) /\ m # l
    <3>1. Holds(r, m, phase, level) <=> \E k \in 1 .. level[r] : Path(r)[k] = m
      BY <1>1 DEF Holds
    <3>2. Holds(r, m, ph, level') <=> \E k \in 1 .. level[r] - 1 : Path(r)[k] = m
      BY <1>7 DEF Holds
    <3>3. \A k \in 1 .. level[r] : Path(r)[k] = l <=> k = level[r]
      BY <1>3, Paths
    <3>4. \A k \in 1 .. level[r] : k # level[r] <=> k \in 1 .. level[r] - 1
      BY <1>3
    <3>5. \A k \in 1 .. level[r] - 1 : k \in 1 .. level[r]
      BY <1>3
    <3> QED BY <3>1, <3>2, <3>3, <3>4, <3>5
  <2>2. ASSUME NEW q \in Runs \ {r}, NEW m \in Lanes
        PROVE  Holds(q, m, ph, level') <=> Holds(q, m, phase, level)
    BY <1>7 DEF Holds
  <2> QED BY <2>1, <2>2
<1>13. Slots(st, ph, level', taskGen)
  BY <1>2, <1>6, <1>12 DEF Slots
<1>14. OneSlot(st)
  BY <1>2, <1>6 DEF OneSlot, Lanes
<1>15. Kept(st, ph, level', givenUp)
  <2>1. \A q \in Runs : SessionOf[q] \in Lanes
    BY Paths DEF Lanes
  <2> QED BY <1>2, <1>6, <1>12, <2>1 DEF Kept
<1>16. Sound(st, ph, level', taskGen, work, outcome, givenUp)
  BY <1>9, <1>10, <1>11, <1>13, <1>14, <1>15 DEF Sound
<1>17. Left(r, l, L, st, ph)
  <2>1. \A m \in Lanes : /\ st[m].queue = lane[m].queue
                        /\ st[m].active = IF m = l THEN lane[m].active \ {r} ELSE lane[m].active
    BY <1>6
  <2>2. ph[r] \in {"done", "closing"}
    BY <1>7
  <2> QED BY <1>6, <1>7, <1>8, <1>12, <2>1, <2>2 DEF Left
<1> QED BY <1>16, <1>17

LEMMA CompleteStep ==
    ASSUME IInv, NEW r \in Runs, Complete(r)
    PROVE  StepOK
<1> DEFINE l == Here(r)
           current == CQ!Current(lane[l], taskGen[r][l])
           L == IF current THEN {l} ELSE {}
           st == IF current THEN [lane EXCEPT ![l] = CQ!Completed(@, r)] ELSE lane
           ph == [phase EXCEPT ![r] = IF level[r] = 1 THEN "done" ELSE "closing"]
<1>1. /\ phase[r] = "closing" /\ Drain(L, st, ph) /\ level' = [level EXCEPT ![r] = @ - 1]
      /\ work' = work /\ outcome' = outcome /\ givenUp' = givenUp
  BY DEF Complete
<1>2. Leaves(r, l, L, st, ph)
  BY <1>1 DEF Leaves
<1> HIDE DEF st, ph, l, L, current
<1>3. /\ Sound(st, ph, level', taskGen, work, outcome, givenUp)
      /\ Left(r, l, L, st, ph)
  BY <1>2, CompleteReady
<1>4. L \in SUBSET Lanes
  BY <1>3 DEF Left
<1>5. IInv'
  <2>1. Sound(lane', phase', level', taskGen', work, outcome, givenUp)
    BY <1>1, <1>3, <1>4, DrainSound
  <2> QED BY <1>1, <2>1 DEF IInv
<1>6. Filled({}, lane) => Filled({}, lane')
  <2>1. Filled({}, lane) => Filled(L, st)
    BY <1>3 DEF Filled, Left
  <2> QED BY <1>1, <1>3, <1>4, <2>1, DrainFills
<1>7. Turn' = Turn
  <2>1. Drained(L, st, ph, level')
    BY <1>1, <1>3, <1>4, DrainEffect DEF Sound
  <2>2. \A q \in Runs : phase'[q] = ph[q] \/ (ph[q] = "queued" /\ phase'[q] = "begun")
    BY <2>1 DEF Drained
  <2>3. \A q \in Runs : phase'[q] = phase[q] \/ (phase[q] # "new" /\ phase'[q] # "new")
    BY <1>1, <1>3, <2>2 DEF Left
  <2> QED BY <1>1, <2>3, SameTurns
<1> QED BY <1>1, <1>5, <1>6, <1>7 DEF StepOK

----------------------------------------------------------------------------
(* What clearing and resetting leave of a lane. *)
LEMMA ClearedLane ==
    ASSUME NEW x \in CQ!LaneState
    PROVE  /\ CQ!Cleared(x) \in CQ!LaneState
           /\ CQ!Cleared(x).queue = <<>>
           /\ CQ!Cleared(x).active = x.active
           /\ CQ!Cleared(x).max = x.max
           /\ CQ!Cleared(x).gen = x.gen
<1>1. <<>> \in Seq(Runs)
  OBVIOUS
<1>2. CQ!Cleared(x) = [x EXCEPT !.queue = <<>>]
  BY DEF CQ!Cleared
<1>3. CQ!Cleared(x) = [queue |-> <<>>, active |-> x.active, max |-> x.max, gen |-> x.gen]
  BY <1>2 DEF CQ!LaneState
<1> QED BY <1>1, <1>3 DEF CQ!LaneState

LEMMA ResetLane ==
    ASSUME NEW x \in CQ!LaneState
    PROVE  /\ CQ!Reset(x) \in CQ!LaneState
           /\ CQ!Reset(x).queue = x.queue
           /\ CQ!Reset(x).active = {}
           /\ CQ!Reset(x).max = x.max
           /\ CQ!Reset(x).gen = x.gen + 1
<1>1. /\ x.queue \in Seq(Runs) /\ x.max \in Nat /\ x.gen \in Nat /\ x.gen + 1 \in Nat
      /\ {} \in SUBSET Runs
  BY DEF CQ!LaneState
<1>2. CQ!Reset(x) = [[x EXCEPT !.gen = x.gen + 1] EXCEPT !.active = {}]
  BY DEF CQ!Reset
<1>3. CQ!Reset(x) = [queue |-> x.queue, active |-> {}, max |-> x.max, gen |-> x.gen + 1]
  BY <1>2 DEF CQ!LaneState
<1> QED BY <1>1, <1>3 DEF CQ!LaneState

LEMMA InterruptStep ==
    ASSUME IInv, NEW s \in Sessions, Interrupt(s)
    PROVE  StepOK
<1> DEFINE dropped == {r \in Runs : \E i \in DOMAIN lane[s].queue : lane[s].queue[i] = r}
<1>1. /\ lane' = [lane EXCEPT ![s] = CQ!Cleared(@)]
      /\ phase' = [r \in Runs |-> IF r \notin dropped THEN phase[r]
                                  ELSE IF level[r] = 1 THEN "done" ELSE "closing"]
      /\ level' = [r \in Runs |-> IF r \in dropped THEN level[r] - 1 ELSE level[r]]
      /\ outcome' = [r \in Runs |-> IF r \in dropped THEN "cleared" ELSE outcome[r]]
      /\ taskGen' = taskGen /\ work' = work /\ givenUp' = givenUp
  BY DEF Interrupt
<1>2. /\ Typed(lane, phase, level, taskGen) /\ Placed(phase, level, work, outcome, givenUp)
      /\ Queues(lane, phase, level) /\ Slots(lane, phase, level, taskGen)
      /\ OneSlot(lane) /\ Kept(lane, phase, level, givenUp)
  BY DEF IInv, Sound
<1>3. s \in Lanes /\ lane[s] \in CQ!LaneState /\ lane \in [Lanes -> CQ!LaneState]
  BY <1>2 DEF Lanes, Typed
<1>4. \A r \in dropped : phase[r] = "queued" /\ level[r] > 0 /\ Path(r)[level[r]] = s
  <2>1. DOMAIN lane[s].queue = 1 .. Len(lane[s].queue)
    BY <1>3 DEF CQ!LaneState
  <2> QED BY <1>2, <1>3, <2>1 DEF Queues
<1> HIDE DEF dropped
<1>5. /\ CQ!Cleared(lane[s]) \in CQ!LaneState
      /\ CQ!Cleared(lane[s]).queue = <<>>
      /\ CQ!Cleared(lane[s]).active = lane[s].active
      /\ CQ!Cleared(lane[s]).max = lane[s].max
      /\ CQ!Cleared(lane[s]).gen = lane[s].gen
  BY <1>3, ClearedLane
<1>6. /\ lane' \in [Lanes -> CQ!LaneState]
      /\ lane'[s].queue = <<>> /\ \A l \in Lanes \ {s} : lane'[l].queue = lane[l].queue
      /\ \A l \in Lanes : /\ lane'[l].active = lane[l].active
                         /\ lane'[l].max = lane[l].max
                         /\ lane'[l].gen = lane[l].gen
  BY <1>1, <1>3, <1>5
<1>7. \A r \in Runs : level[r] \in 0 .. Depth(r) /\ Depth(r) \in {2, 3}
  BY <1>2, Paths DEF Placed
<1>8. /\ level' \in [Runs -> 0 .. 3]
      /\ \A r \in dropped : r \in Runs => level'[r] = level[r] - 1
      /\ \A r \in Runs \ dropped : level'[r] = level[r]
  <2>1. ASSUME NEW r \in Runs PROVE (IF r \in dropped THEN level[r] - 1 ELSE level[r]) \in 0 .. 3
    BY <1>4, <1>7
  <2> QED BY <1>1, <2>1
<1>9. /\ phase' \in [Runs -> Phases]
      /\ \A r \in Runs \ dropped : phase'[r] = phase[r]
      /\ \A r \in Runs : r \in dropped => phase'[r] = IF level[r] = 1 THEN "done" ELSE "closing"
  BY <1>1, <1>2 DEF Phases, Typed
<1>10. /\ outcome' \in [Runs -> Outcomes]
       /\ \A r \in Runs \ dropped : outcome'[r] = outcome[r]
       /\ \A r \in Runs : r \in dropped => outcome'[r] = "cleared"
  BY <1>1, <1>2 DEF Outcomes, Placed
<1>11. Typed(lane', phase', level', taskGen)
  BY <1>2, <1>6, <1>8, <1>9 DEF Typed
<1>12. Placed(phase', level', work, outcome', givenUp)
  <2> SUFFICES ASSUME NEW r \in Runs
               PROVE  /\ level'[r] \in 0 .. Depth(r)
                      /\ level'[r] = 0 <=> phase'[r] \in {"new", "done"}
                      /\ phase'[r] = "working" => level'[r] = Depth(r) /\ work[r] = "working"
                      /\ phase'[r] \in {"new", "queued", "begun"}
                            => work[r] = "idle" /\ outcome'[r] = "none"
                      /\ work[r] = "working" /\ r \notin givenUp => phase'[r] = "working"
    BY <1>2, <1>10 DEF Placed
  <2>1. CASE r \in dropped
    <3>1. level'[r] = level[r] - 1 /\ level[r] \in 1 .. Depth(r) /\ Depth(r) \in {2, 3}
      BY <1>4, <1>7, <1>8, <2>1
    <3>2. work[r] = "idle"
      BY <1>2, <1>4, <2>1 DEF Placed
    <3> QED BY <1>9, <2>1, <3>1, <3>2
  <2>2. CASE r \notin dropped
    BY <1>2, <1>8, <1>9, <1>10, <2>2 DEF Placed
  <2> QED BY <2>1, <2>2
<1>13. Queues(lane', phase', level')
  <2>1. ASSUME NEW l \in Lanes \ {s}, NEW i \in 1 .. Len(lane[l].queue)
        PROVE  lane[l].queue[i] \in Runs \ dropped
    <3>1. lane[l].queue[i] \in Runs
      BY <1>2 DEF Typed, CQ!LaneState
    <3>2. Path(lane[l].queue[i])[level[lane[l].queue[i]]] = l
      BY <1>2 DEF Queues
    <3> QED BY <1>4, <3>1, <3>2
  <2>2. ASSUME NEW l \in Lanes, NEW i \in 1 .. Len(lane'[l].queue)
        PROVE  /\ phase'[lane'[l].queue[i]] = "queued" /\ level'[lane'[l].queue[i]] > 0
               /\ Path(lane'[l].queue[i])[level'[lane'[l].queue[i]]] = l
               /\ \A j \in 1 .. Len(lane'[l].queue) : lane'[l].queue[j] = lane'[l].queue[i] => j = i
    <3>1. l # s /\ lane'[l].queue = lane[l].queue
      <4>1. Len(<<>>) = 0
        OBVIOUS
      <4> QED BY <1>6, <2>2, <4>1
    <3> QED BY <1>2, <1>8, <1>9, <2>1, <2>2, <3>1 DEF Queues
  <2> QED BY <2>2 DEF Queues
<1>14. \A r \in Runs, l \in Lanes : Holds(r, l, phase', level') <=> Holds(r, l, phase, level)
  <2>1. ASSUME NEW r \in Runs, r \in dropped, NEW l \in Lanes
        PROVE  Holds(r, l, phase', level') <=> Holds(r, l, phase, level)
    <3>1. phase[r] = "queued" /\ phase'[r] # "queued" /\ level'[r] = level[r] - 1 /\ level[r] \in Nat
      BY <1>4, <1>7, <1>8, <1>9, <2>1
    <3>2. Holds(r, l, phase, level) <=> \E k \in 1 .. level[r] : k # level[r] /\ Path(r)[k] = l
      BY <3>1 DEF Holds
    <3>3. Holds(r, l, phase', level') <=> \E k \in 1 .. level[r] - 1 : Path(r)[k] = l
      BY <3>1 DEF Holds
    <3>4. \A k : k \in 1 .. level[r] - 1 <=> k \in 1 .. level[r] /\ k # level[r]
      BY <3>1
    <3> QED BY <3>2, <3>3, <3>4
  <2>2. ASSUME NEW r \in Runs \ dropped, NEW l \in Lanes
        PROVE  Holds(r, l, phase', level') <=> Holds(r, l, phase, level)
    BY <1>8, <1>9 DEF Holds
  <2> QED BY <2>1, <2>2
<1>15. Slots(lane', phase', level', taskGen)
  BY <1>2, <1>6, <1>14 DEF Slots
<1>16. OneSlot(lane')
  BY <1>2, <1>6 DEF OneSlot, Lanes
<1>17. Kept(lane', phase', level', givenUp)
  <2>1. \A q \in Runs : SessionOf[q] \in Lanes
    BY Paths DEF Lanes
  <2> QED BY <1>2, <1>6, <1>14, <2>1 DEF Kept
<1>18. Sound(lane', phase', level', taskGen, work, outcome', givenUp)
  BY <1>11, <1>12, <1>13, <1>15, <1>16, <1>17 DEF Sound
<1>19. IInv'
  BY <1>1, <1>18 DEF IInv
<1>20. Filled({}, lane) => Filled({}, lane')
  BY <1>6 DEF Filled
<1>21. Serial!Refuse(dropped)
  <2>1. dropped \subseteq Runs
    BY DEF dropped
  <2>2. \A r \in dropped : /\ TurnOf(work[r], phase[r], outcome[r]) = "waiting"
                           /\ TurnOf(work'[r], phase'[r], outcome'[r]) = "over"
    BY <1>1, <1>2, <1>4, <1>9, <1>10, <2>1 DEF TurnOf, Placed
  <2>3. \A r \in Runs \ dropped :
           TurnOf(work'[r], phase'[r], outcome'[r]) = TurnOf(work[r], phase[r], outcome[r])
    BY <1>1, <1>9, <1>10 DEF TurnOf
  <2>4. \A r \in dropped : Turn[r] = "waiting"
    BY <2>1, <2>2, Turns
  <2>5. \A r \in Runs : Turn'[r] = IF r \in dropped THEN "over" ELSE Turn[r]
    BY <2>2, <2>3, Turns
  <2>6. Turn' = [r \in Runs |-> IF r \in dropped THEN "over" ELSE Turn[r]]
    BY <2>5, Turns
  <2> QED BY <1>1, <2>4, <2>6 DEF Serial!Refuse
<1>22. Serial!Next
  <2>1. dropped \in SUBSET Runs
    BY DEF dropped
  <2> QED BY <1>21, <2>1 DEF Serial!Next
<1> QED BY <1>19, <1>20, <1>22 DEF StepOK

(* The lanes of R are reset under whoever holds them: they before a drain.   *)
Resets(R, st) ==
    /\ st = [l \in Lanes |-> IF l \in R THEN CQ!Reset(lane[l]) ELSE lane[l]]
    /\ givenUp' = givenUp \union UNION {lane[s].active : s \in R \cap Sessions}

WereReset(R, st) ==
    /\ \A l \in Lanes : st[l].queue = lane[l].queue /\ st[l].max = lane[l].max
    /\ \A l \in Lanes \ R : st[l] = lane[l]
    /\ \A l \in R : st[l].active = {}

LEMMA ResetReady ==
    ASSUME IInv, NEW R \in SUBSET Lanes, NEW st,
           Resets(R, st)
    PROVE  /\ Sound(st, phase, level, taskGen, work, outcome, givenUp')
           /\ WereReset(R, st)
<1>1. /\ st = [l \in Lanes |-> IF l \in R THEN CQ!Reset(lane[l]) ELSE lane[l]]
      /\ givenUp' = givenUp \union UNION {lane[s].active : s \in R \cap Sessions}
  BY DEF Resets
<1>2. /\ Typed(lane, phase, level, taskGen) /\ Placed(phase, level, work, outcome, givenUp)
      /\ Queues(lane, phase, level) /\ Slots(lane, phase, level, taskGen)
      /\ OneSlot(lane) /\ Kept(lane, phase, level, givenUp)
  BY DEF IInv, Sound
<1>3. ASSUME NEW l \in Lanes
      PROVE  /\ lane[l] \in CQ!LaneState /\ lane[l].gen \in Nat
             /\ CQ!Reset(lane[l]) \in CQ!LaneState
             /\ CQ!Reset(lane[l]).queue = lane[l].queue
             /\ CQ!Reset(lane[l]).active = {}
             /\ CQ!Reset(lane[l]).max = lane[l].max
             /\ CQ!Reset(lane[l]).gen = lane[l].gen + 1
  <2>1. lane[l] \in CQ!LaneState
    BY <1>2 DEF Typed
  <2>2. lane[l].gen \in Nat
    BY <2>1 DEF CQ!LaneState
  <2> QED BY <2>1, <2>2, ResetLane
<1>4. /\ st \in [Lanes -> CQ!LaneState]
      /\ \A l \in Lanes : st[l].queue = lane[l].queue /\ st[l].max = lane[l].max
      /\ \A l \in Lanes \ R : st[l] = lane[l]
      /\ \A l \in R : st[l].active = {} /\ st[l].gen = lane[l].gen + 1
  BY <1>1, <1>3
<1>5. Typed(st, phase, level, taskGen)
  BY <1>2, <1>4 DEF Typed
<1>6. Placed(phase, level, work, outcome, givenUp')
  BY <1>1, <1>2 DEF Placed
<1>7. Queues(st, phase, level)
  BY <1>2, <1>4 DEF Queues
<1>8. Slots(st, phase, level, taskGen)
  <2> SUFFICES ASSUME NEW l \in Lanes
               PROVE  /\ st[l].active = {r \in Runs : Holds(r, l, phase, level)
                                                   /\ taskGen[r][l] = st[l].gen}
                      /\ \A r \in Runs : taskGen[r][l] <= st[l].gen
    BY DEF Slots
  <2>1. \A r \in Runs : taskGen[r][l] \in Nat /\ taskGen[r][l] <= lane[l].gen
    BY <1>2 DEF Slots, Typed
  <2>2. CASE l \in R
    <3>1. \A r \in Runs : taskGen[r][l] < st[l].gen
      BY <1>3, <1>4, <2>1, <2>2
    <3> QED BY <1>3, <1>4, <2>1, <2>2, <3>1
  <2>3. CASE l \notin R
    BY <1>2, <1>4, <2>3 DEF Slots
  <2> QED BY <2>2, <2>3
<1>9. OneSlot(st)
  <2> SUFFICES ASSUME NEW s \in Sessions
               PROVE  st[s].max = 1 /\ \A q, r \in st[s].active : q = r
    BY DEF OneSlot
  <2>1. s \in Lanes /\ lane[s].max = 1 /\ \A q, r \in lane[s].active : q = r
    BY <1>2 DEF OneSlot, Lanes
  <2>2. CASE s \in R
    BY <1>4, <2>1, <2>2
  <2>3. CASE s \notin R
    <3>1. st[s] = lane[s]
      BY <1>4, <2>1, <2>3
    <3> QED BY <2>1, <3>1
  <2> QED BY <2>2, <2>3
<1>10. Kept(st, phase, level, givenUp')
  <2> SUFFICES ASSUME NEW r \in Runs, r \notin givenUp', Holds(r, SessionOf[r], phase, level)
               PROVE  r \in st[SessionOf[r]].active
    BY DEF Kept
  <2>1. r \in lane[SessionOf[r]].active
    BY <1>1, <1>2 DEF Kept
  <2>2. SessionOf[r] \in Sessions /\ SessionOf[r] \in Lanes
    BY Paths DEF Lanes
  <2>3. SessionOf[r] \notin R
    BY <1>1, <2>1, <2>2
  <2> QED BY <1>4, <2>1, <2>2, <2>3
<1>11. Sound(st, phase, level, taskGen, work, outcome, givenUp')
  BY <1>5, <1>6, <1>7, <1>8, <1>9, <1>10 DEF Sound
<1>12. WereReset(R, st)
  BY <1>4 DEF WereReset
<1> QED BY <1>11, <1>12

LEMMA ResetStep ==
    ASSUME IInv, NEW R \in SUBSET Lanes, NEW st,
           Resets(R, st), Drain(R, st, phase), UNCHANGED <<level, work, outcome>>
    PROVE  StepOK
<1>1. level' = level /\ work' = work /\ outcome' = outcome
  OBVIOUS
<1>2. Sound(st, phase, level, taskGen, work, outcome, givenUp') /\ WereReset(R, st)
  BY ResetReady
<1>3. IInv'
  <2>1. Sound(lane', phase', level, taskGen', work, outcome, givenUp')
    BY <1>2, DrainSound
  <2> QED BY <1>1, <2>1 DEF IInv
<1>4. Filled({}, lane) => Filled({}, lane')
  <2>1. Filled({}, lane) => Filled(R, st)
    BY <1>2 DEF Filled, WereReset
  <2> QED BY <1>2, <2>1, DrainFills
<1>5. Turn' = Turn
  <2>1. Drained(R, st, phase, level)
    BY <1>2, DrainEffect DEF Sound
  <2>2. \A q \in Runs : phase'[q] = phase[q] \/ (phase[q] = "queued" /\ phase'[q] = "begun")
    BY <2>1 DEF Drained
  <2> QED BY <1>1, <2>2, SameTurns
<1> DEFINE gone == UNION {lane[s].active : s \in R \cap Sessions}
<1>6. gone \in SUBSET Runs
  BY DEF IInv, Sound, Slots, Lanes
<1>7. Serial!Release(gone)
  BY <1>5 DEF Serial!Release, Resets
<1> HIDE DEF gone
<1>8. Serial!Next
  BY <1>6, <1>7 DEF Serial!Next
<1> QED BY <1>3, <1>4, <1>8 DEF StepOK

LEMMA RecoverStep ==
    ASSUME IInv, NEW s \in Sessions, Recover(s)
    PROVE  StepOK
<1> DEFINE st == [l \in Lanes |-> IF l \in {s} THEN CQ!Reset(lane[l]) ELSE lane[l]]
<1>1. /\ Drain({s}, [lane EXCEPT ![s] = CQ!Reset(@)], phase)
      /\ UNCHANGED <<level, work, outcome>>
      /\ givenUp' = givenUp \union lane[s].active
  BY DEF Recover
<1>2. {s} \in SUBSET Lanes
  BY DEF Lanes
<1>3. [lane EXCEPT ![s] = CQ!Reset(@)] = st
  BY <1>2 DEF IInv, Sound, Typed
<1>4. UNION {lane[t].active : t \in {s} \cap Sessions} = lane[s].active
  OBVIOUS
<1>5. Drain({s}, st, phase) /\ givenUp' = givenUp \union UNION {lane[t].active : t \in {s} \cap Sessions}
  BY <1>1, <1>3, <1>4
<1>6. Resets({s}, st)
  BY <1>5 DEF Resets
<1> HIDE DEF st
<1> QED BY <1>1, <1>2, <1>5, <1>6, ResetStep

LEMMA NextIterationStep ==
    ASSUME IInv, NextIteration
    PROVE  StepOK
<1> DEFINE st == [l \in Lanes |-> IF l \in Lanes THEN CQ!Reset(lane[l]) ELSE lane[l]]
<1>1. /\ Drain(Lanes, [l \in Lanes |-> CQ!Reset(lane[l])], phase)
      /\ UNCHANGED <<level, work, outcome>>
      /\ givenUp' = givenUp \union UNION {lane[s].active : s \in Sessions}
  BY DEF NextIteration
<1>2. [l \in Lanes |-> CQ!Reset(lane[l])] = st /\ Lanes \cap Sessions = Sessions
  BY DEF Lanes
<1>3. /\ Drain(Lanes, st, phase)
      /\ givenUp' = givenUp \union UNION {lane[s].active : s \in Lanes \cap Sessions}
  BY <1>1, <1>2
<1>4. Resets(Lanes, st)
  BY <1>3 DEF Resets
<1> HIDE DEF st
<1> QED BY <1>1, <1>3, <1>4, ResetStep

(* Lanes st that differ from the present ones in the widths of global lanes. *)
Resized(st) ==
    /\ st \in [Lanes -> CQ!LaneState]
    /\ \A l \in Lanes : /\ st[l].queue = lane[l].queue
                        /\ st[l].active = lane[l].active
                        /\ st[l].gen = lane[l].gen
    /\ \A s \in Sessions : st[s].max = lane[s].max

LEMMA ResizedSound ==
    ASSUME IInv, NEW st, Resized(st)
    PROVE  Sound(st, phase, level, taskGen, work, outcome, givenUp)
<1>1. /\ Typed(lane, phase, level, taskGen) /\ Placed(phase, level, work, outcome, givenUp)
      /\ Queues(lane, phase, level) /\ Slots(lane, phase, level, taskGen)
      /\ OneSlot(lane) /\ Kept(lane, phase, level, givenUp)
  BY DEF IInv, Sound
<1>2. Typed(st, phase, level, taskGen)
  BY <1>1 DEF Typed, Resized
<1>3. Queues(st, phase, level)
  BY <1>1 DEF Queues, Resized
<1>4. Slots(st, phase, level, taskGen)
  BY <1>1 DEF Slots, Resized
<1>5. OneSlot(st)
  BY <1>1 DEF OneSlot, Resized, Lanes
<1>6. Kept(st, phase, level, givenUp)
  <2>1. \A q \in Runs : SessionOf[q] \in Lanes
    BY Paths DEF Lanes
  <2> QED BY <1>1, <2>1 DEF Kept, Resized
<1> QED BY <1>1, <1>2, <1>3, <1>4, <1>5, <1>6 DEF Sound

LEMMA WidenLane ==
    ASSUME NEW x \in CQ!LaneState, NEW w \in Nat
    PROVE  /\ CQ!Widen(x, w) \in CQ!LaneState
           /\ CQ!Widen(x, w).queue = x.queue
           /\ CQ!Widen(x, w).active = x.active
           /\ CQ!Widen(x, w).max = w
           /\ CQ!Widen(x, w).gen = x.gen
<1>1. CQ!Widen(x, w) = [x EXCEPT !.max = w]
  BY DEF CQ!Widen
<1>2. CQ!Widen(x, w) = [queue |-> x.queue, active |-> x.active, max |-> w, gen |-> x.gen]
  BY <1>1 DEF CQ!LaneState
<1> QED BY <1>2 DEF CQ!LaneState

(* Global lanes are resized and drained. *)
LEMMA ResizeStep ==
    ASSUME IInv, NEW L \in SUBSET GlobalLanes, NEW st,
           Resized(st), \A l \in Lanes \ L : st[l] = lane[l], Drain(L, st, phase),
           UNCHANGED <<level, work, outcome, givenUp>>
    PROVE  StepOK
<1>1. level' = level /\ work' = work /\ outcome' = outcome /\ givenUp' = givenUp
  OBVIOUS
<1>2. L \in SUBSET Lanes
  BY DEF Lanes
<1>3. Sound(st, phase, level, taskGen, work, outcome, givenUp)
  BY ResizedSound
<1>4. IInv'
  <2>1. Sound(lane', phase', level, taskGen', work, outcome, givenUp)
    BY <1>2, <1>3, DrainSound
  <2> QED BY <1>1, <2>1 DEF IInv
<1>5. Filled({}, lane) => Filled({}, lane')
  <2>1. Filled({}, lane) => Filled(L, st)
    BY DEF Filled
  <2> QED BY <1>2, <1>3, <2>1, DrainFills
<1>6. Turn' = Turn
  <2>1. Typed(st, phase, level, taskGen) /\ Queues(st, phase, level)
    BY <1>3 DEF Sound
  <2>2. Drained(L, st, phase, level)
    BY <1>2, <2>1, DrainEffect
  <2>3. \A q \in Runs : phase'[q] = phase[q] \/ (phase[q] = "queued" /\ phase'[q] = "begun")
    BY <2>2 DEF Drained
  <2> QED BY <1>1, <2>3, SameTurns
<1> QED BY <1>1, <1>4, <1>5, <1>6 DEF StepOK

(* The lanes of L get the widths w: all lanes, before a drain. *)
Widens(L, w, st) ==
    st = [l \in Lanes |-> IF l \in L THEN CQ!Widen(lane[l], w[l]) ELSE lane[l]]

LEMMA WidensResized ==
    ASSUME IInv, NEW L \in SUBSET GlobalLanes, NEW w \in [GlobalLanes -> Nat], NEW st,
           Widens(L, w, st)
    PROVE  /\ Resized(st)
           /\ \A l \in Lanes \ L : st[l] = lane[l]
           /\ \A l \in L : st[l].max = w[l]
<1>1. st = [l \in Lanes |-> IF l \in L THEN CQ!Widen(lane[l], w[l]) ELSE lane[l]]
  BY DEF Widens
<1>2. ASSUME NEW l \in L
      PROVE  /\ l \in Lanes /\ l \notin Sessions
             /\ st[l] \in CQ!LaneState
             /\ st[l].queue = lane[l].queue
             /\ st[l].active = lane[l].active
             /\ st[l].max = w[l]
             /\ st[l].gen = lane[l].gen
  <2>1. l \in Lanes /\ l \notin Sessions /\ w[l] \in Nat
    BY LanesAssumption DEF Lanes
  <2>2. lane[l] \in CQ!LaneState
    BY <2>1 DEF IInv, Sound, Typed
  <2>3. st[l] = CQ!Widen(lane[l], w[l])
    BY <1>1, <2>1
  <2> QED BY <2>1, <2>2, <2>3, WidenLane
<1>3. ASSUME NEW l \in Lanes \ L PROVE st[l] = lane[l] /\ st[l] \in CQ!LaneState
  <2>1. lane[l] \in CQ!LaneState
    BY DEF IInv, Sound, Typed
  <2> QED BY <1>1, <2>1
<1>4. st \in [Lanes -> CQ!LaneState]
  <2>1. \A l \in Lanes : st[l] \in CQ!LaneState
    BY <1>2, <1>3
  <2> QED BY <1>1, <2>1
<1>5. \A l \in Lanes : /\ st[l].queue = lane[l].queue
                      /\ st[l].active = lane[l].active
                      /\ st[l].gen = lane[l].gen
  BY <1>2, <1>3
<1>6. \A s \in Sessions : st[s].max = lane[s].max
  BY <1>2, <1>3 DEF Lanes
<1> QED BY <1>2, <1>3, <1>4, <1>5, <1>6 DEF Resized

(* The three callers: suspendSession, its timer, and the reload. *)
SuspendedWidths == [l \in GlobalLanes |-> 0]

LEMMA SuspendWidens ==
    ASSUME IInv, NEW r \in Runs, Suspend(r)
    PROVE  /\ GlobalLane(r) \in GlobalLanes
           /\ Widens({GlobalLane(r)}, SuspendedWidths, lane')
           /\ SuspendedWidths \in [GlobalLanes -> Nat]
<1>1. lane = [l \in Lanes |-> lane[l]] /\ \A l \in GlobalLanes : l \in Lanes
  BY DEF IInv, Sound, Typed, Lanes
<1>2. GlobalLane(r) \in GlobalLanes
  BY DEF GlobalLane, GlobalLanes
<1>3. lane' = [lane EXCEPT ![GlobalLane(r)] = CQ!Widen(@, 0)]
  BY DEF Suspend
<1>4. Widens({GlobalLane(r)}, SuspendedWidths, lane')
  BY <1>1, <1>2, <1>3 DEF Widens, SuspendedWidths
<1> QED BY <1>2, <1>4 DEF SuspendedWidths

LEMMA ReopenWidens ==
    ASSUME IInv, ApplyConcurrency \/ \E l \in GlobalLanes : AutoResume(l)
    PROVE  /\ \E L \in SUBSET GlobalLanes : \E st :
                 Widens(L, Width, st) /\ Drain(L, st, phase)
           /\ UNCHANGED <<level, work, outcome, givenUp, ahead>>
<1>1. lane = [l \in Lanes |-> lane[l]] /\ \A l \in GlobalLanes : l \in Lanes
  BY DEF IInv, Sound, Typed, Lanes
<1>2. ASSUME NEW l \in GlobalLanes, AutoResume(l)
      PROVE  \E st : Widens({l}, Width, st) /\ Drain({l}, st, phase)
  <2>1. Drain({l}, [lane EXCEPT ![l] = CQ!Widen(@, Width[l])], phase)
    BY <1>2 DEF AutoResume
  <2>2. Widens({l}, Width, [lane EXCEPT ![l] = CQ!Widen(@, Width[l])])
    BY <1>1 DEF Widens
  <2> QED BY <2>1, <2>2
<1>3. CASE ApplyConcurrency
  <2>1. \E st : Widens(GlobalLanes, Width, st) /\ Drain(GlobalLanes, st, phase)
    BY <1>3 DEF ApplyConcurrency, Widens
  <2> QED BY <1>3, <2>1 DEF ApplyConcurrency
<1>4. CASE \E l \in GlobalLanes : AutoResume(l)
  <2>1. PICK l \in GlobalLanes : AutoResume(l)
    BY <1>4
  <2>2. {l} \in SUBSET GlobalLanes
    OBVIOUS
  <2>3. \E st : Widens({l}, Width, st) /\ Drain({l}, st, phase)
    BY <1>2, <2>1
  <2> QED BY <2>1, <2>2, <2>3 DEF AutoResume
<1> QED BY <1>3, <1>4

LEMMA SuspendStep ==
    ASSUME IInv, NEW r \in Runs, Suspend(r)
    PROVE  StepOK
<1> DEFINE l == GlobalLane(r)
<1>1. /\ phase' = phase /\ level' = level /\ taskGen' = taskGen /\ work' = work
      /\ outcome' = outcome /\ givenUp' = givenUp
  BY DEF Suspend
<1>2. /\ l \in GlobalLanes /\ l \in Lanes /\ lane'[l].max = 0
      /\ Resized(lane') /\ \A m \in Lanes \ {l} : lane'[m] = lane[m]
  <2>1. /\ l \in GlobalLanes /\ {l} \in SUBSET GlobalLanes
        /\ Widens({l}, SuspendedWidths, lane')
        /\ SuspendedWidths \in [GlobalLanes -> Nat]
    BY SuspendWidens
  <2> HIDE DEF l
  <2> QED BY <2>1, WidensResized DEF SuspendedWidths, Lanes
<1> HIDE DEF l
<1>3. IInv'
  BY <1>1, <1>2, ResizedSound DEF IInv
<1>4. Filled({}, lane) => Filled({}, lane')
  <2>1. Cardinality(lane'[l].active) \in Nat
    BY <1>2, PumpRoom DEF Resized
  <2> QED BY <1>2, <2>1 DEF Filled
<1>5. Turn' = Turn
  BY <1>1, SameTurns
<1> QED BY <1>1, <1>3, <1>4, <1>5 DEF StepOK

LEMMA ReopenStep ==
    ASSUME IInv, ApplyConcurrency \/ \E l \in GlobalLanes : AutoResume(l)
    PROVE  StepOK
<1>1. PICK L \in SUBSET GlobalLanes : \E st : Widens(L, Width, st) /\ Drain(L, st, phase)
  BY ReopenWidens
<1>2. PICK st : Widens(L, Width, st) /\ Drain(L, st, phase)
  BY <1>1
<1>3. Width \in [GlobalLanes -> Nat]
  BY LanesAssumption
<1>4. Resized(st) /\ \A l \in Lanes \ L : st[l] = lane[l]
  BY <1>2, <1>3, WidensResized
<1>5. UNCHANGED <<level, work, outcome, givenUp>>
  BY ReopenWidens
<1> QED BY <1>2, <1>4, <1>5, ResizeStep

(* The steps of the restart and of an abort touch no lane. *)
LEMMA QuietStep ==
    ASSUME IInv, UNCHANGED <<lane, level, phase, taskGen, work, outcome, givenUp>>
    PROVE  StepOK
<1>1. /\ lane' = lane /\ level' = level /\ phase' = phase /\ taskGen' = taskGen
      /\ work' = work /\ outcome' = outcome /\ givenUp' = givenUp
  OBVIOUS
<1>2. IInv'
  BY <1>1 DEF IInv
<1>3. Turn' = Turn
  BY <1>1, SameTurns
<1> QED BY <1>1, <1>2, <1>3 DEF StepOK

LEMMA NextStep ==
    ASSUME IInv, [Next]_vars
    PROVE  StepOK
<1>1. ASSUME NEW r \in Runs, Accept(r) PROVE StepOK
  BY <1>1, AcceptStep
<1>2. ASSUME NEW r \in Runs, Refuse(r) PROVE StepOK
  BY <1>2, RefuseStep
<1>3. ASSUME NEW r \in Runs, RunStep(r) PROVE StepOK
  BY <1>3, BeginNestedStep, BeginWorkStep, CompleteStep DEF RunStep
<1>4. ASSUME NEW r \in Runs, WorkEnds(r) PROVE StepOK
  BY <1>4, WorkEndsStep
<1>5. ASSUME NEW r \in Runs, LaneTimeout(r) PROVE StepOK
  BY <1>5, LaneTimeoutStep
<1>6. ASSUME NEW r \in Runs, RecoverByAbort(r) PROVE StepOK
  BY <1>6, QuietStep DEF RecoverByAbort
<1>7. ASSUME NEW r \in Runs, Suspend(r) PROVE StepOK
  BY <1>7, SuspendStep
<1>8. ASSUME NEW s \in Sessions, Interrupt(s) \/ Recover(s) PROVE StepOK
  BY <1>8, InterruptStep, RecoverStep
<1>9. ASSUME NEW l \in GlobalLanes, AutoResume(l) PROVE StepOK
  BY <1>9, ReopenStep
<1>10. CASE ApplyConcurrency
  BY <1>10, ReopenStep
<1>11. CASE BeginRestart
  BY <1>11, QuietStep DEF BeginRestart
<1>12. CASE DrainCompletes
  BY <1>12, QuietStep DEF DrainCompletes
<1>13. CASE DrainExpires
  BY <1>13, QuietStep DEF DrainExpires
<1>14. CASE NextIteration
  BY <1>14, NextIterationStep
<1>15. CASE UNCHANGED vars
  BY <1>15, QuietStep DEF vars
<1> QED BY <1>1, <1>2, <1>3, <1>4, <1>5, <1>6, <1>7, <1>8, <1>9, <1>10, <1>11, <1>12, <1>13, <1>14,
           <1>15 DEF Next, GatewayStep

(* The first state. *)
LEMMA InitSound ==
    ASSUME Init
    PROVE  IInv /\ Filled({}, lane) /\ Serial!Init
<1>1. \A l \in Lanes : /\ lane[l].queue = <<>> /\ lane[l].active = {} /\ lane[l].gen = 0
                       /\ lane[l].max = IF l \in Sessions THEN 1 ELSE Width[l]
  BY DEF Init, CQ!EmptyLane
<1>2. lane \in [Lanes -> CQ!LaneState]
  <2>1. <<>> \in Seq(Runs) /\ {} \in SUBSET Runs
    OBVIOUS
  <2>2. ASSUME NEW l \in Lanes
        PROVE  CQ!EmptyLane(IF l \in Sessions THEN 1 ELSE Width[l]) \in CQ!LaneState
    <3>1. (IF l \in Sessions THEN 1 ELSE Width[l]) \in Nat
      BY LanesAssumption DEF Lanes
    <3> QED BY <2>1, <3>1 DEF CQ!EmptyLane, CQ!LaneState
  <2> QED BY <2>2 DEF Init
<1>3. Typed(lane, phase, level, taskGen)
  BY <1>2 DEF Init, Typed, Phases
<1>4. Placed(phase, level, work, outcome, givenUp)
  BY Paths DEF Init, Placed, Works, Outcomes
<1>5. \A l \in Lanes : Len(lane[l].queue) = 0
  BY <1>1
<1>6. Queues(lane, phase, level)
  BY <1>5 DEF Queues
<1>7. \A r \in Runs, l \in Lanes : ~ Holds(r, l, phase, level)
  BY DEF Init, Holds
<1>8. Slots(lane, phase, level, taskGen)
  <2>1. \A r \in Runs, l \in Lanes : taskGen[r][l] = 0
    BY DEF Init
  <2>2. \A l \in Lanes : {r \in Runs : Holds(r, l, phase, level) /\ taskGen[r][l] = lane[l].gen} = {}
    BY <1>7
  <2> QED BY <1>1, <2>1, <2>2 DEF Slots
<1>9. OneSlot(lane)
  BY <1>1 DEF OneSlot, Lanes
<1>10. Kept(lane, phase, level, givenUp)
  BY <1>7, Paths DEF Kept, Lanes
<1>11. IInv
  BY <1>3, <1>4, <1>6, <1>8, <1>9, <1>10 DEF IInv, Sound
<1>12. Filled({}, lane)
  BY <1>1 DEF Filled
<1>13. Serial!Init
  <2>1. \A r \in Runs : TurnOf(work[r], phase[r], outcome[r]) = "new"
    BY DEF Init, TurnOf
  <2>2. Turn = [r \in Runs |-> "new"]
    BY <2>1, Turns
  <2> QED BY <2>2 DEF Init, Serial!Init
<1> QED BY <1>11, <1>12, <1>13

(* Slots have owners, and a waiting entry has no free slot beside it: after  *)
(* every completion, timeout, interrupt, reset, resize and restart, for any  *)
(* sessions, widths and priorities.                                          *)
LEMMA Invariance == Spec => [](IInv /\ Filled({}, lane))
<1>1. Init => IInv /\ Filled({}, lane)
  BY InitSound
<1>2. IInv /\ Filled({}, lane) /\ [Next]_vars => (IInv /\ Filled({}, lane))'
  <2> SUFFICES ASSUME IInv, Filled({}, lane), [Next]_vars
               PROVE  IInv' /\ Filled({}, lane)'
    OBVIOUS
  <2>1. StepOK
    BY NextStep
  <2>2. Filled({}, lane') => Filled({}, lane)'
    BY DEF Filled
  <2> QED BY <2>1, <2>2 DEF StepOK
<1> QED BY <1>1, <1>2, PTL DEF Spec

(* The rest of the types. *)
Rest ==
    /\ aborted \subseteq Runs
    /\ suspended \subseteq GlobalLanes
    /\ gateway \in {"up", "draining", "drained", "expired"}
    /\ captured \subseteq Runs \X Lanes
    /\ disturbed \in Nat
    /\ givenUp \subseteq Runs
    /\ ahead \in [Runs -> SUBSET Runs]

LEMMA RestStep ==
    ASSUME IInv, Rest, [Next]_vars
    PROVE  Rest'
<1>1. \A l \in Lanes : lane[l].active \subseteq Runs
  BY DEF IInv, Sound, Slots
<1>2. \A s \in Sessions : s \in Lanes
  BY DEF Lanes
<1>3. \A r \in Runs : Before(r) \subseteq Runs /\ GlobalLane(r) \in GlobalLanes
  BY DEF Before, InSession, GlobalLane, GlobalLanes
<1>4. ASSUME NEW r \in Runs, NEW k, Enter(r, k) PROVE ahead' \in [Runs -> SUBSET Runs]
  BY <1>3, <1>4 DEF Enter, Rest
<1>5. ASSUME NEW r \in Runs, Accept(r) PROVE Rest'
  BY <1>4, <1>5 DEF Accept, Rest
<1>6. ASSUME NEW r \in Runs, BeginNested(r) PROVE Rest'
  BY <1>4, <1>6 DEF BeginNested, Rest
<1>7. ASSUME NEW r \in Runs, Refuse(r) \/ BeginWork(r) \/ Complete(r) \/ WorkEnds(r) PROVE Rest'
  BY <1>7 DEF Refuse, BeginWork, Complete, WorkEnds, Rest
<1>8. ASSUME NEW r \in Runs, LaneTimeout(r) \/ RecoverByAbort(r) \/ Suspend(r) PROVE Rest'
  BY <1>3, <1>8 DEF LaneTimeout, RecoverByAbort, Suspend, Disturbed, Rest
<1>9. ASSUME NEW s \in Sessions, Interrupt(s) PROVE Rest'
  BY <1>9 DEF Interrupt, Disturbed, Rest
<1>10. ASSUME NEW s \in Sessions, Recover(s) PROVE Rest'
  BY <1>1, <1>2, <1>10 DEF Recover, Disturbed, Rest
<1>11. ASSUME NEW l \in GlobalLanes, AutoResume(l) PROVE Rest'
  BY <1>11 DEF AutoResume, Rest
<1>12. CASE ApplyConcurrency
  BY <1>12 DEF ApplyConcurrency, Rest
<1>13. CASE BeginRestart
  BY <1>13 DEF BeginRestart, Disturbed, Rest
<1>14. CASE DrainCompletes \/ DrainExpires
  BY <1>14 DEF DrainCompletes, DrainExpires, Rest
<1>15. CASE NextIteration
  BY <1>1, <1>2, <1>15 DEF NextIteration, Rest
<1>16. CASE UNCHANGED vars
  BY <1>16 DEF vars, Rest
<1> QED BY <1>5, <1>6, <1>7, <1>8, <1>9, <1>10, <1>11, <1>12, <1>13, <1>14, <1>15, <1>16
        DEF Next, RunStep, GatewayStep

(* The variables keep their types, with no bound on the disturbances. *)
THEOREM TypeCorrect == Spec => []TypeOK
<1>1. Init => Rest
  BY DEF Init, Rest
<1>2. IInv /\ Rest /\ [Next]_vars => Rest'
  BY RestStep
<1>3. IInv /\ Rest => TypeOK
  BY DEF IInv, Sound, Typed, Placed, Rest, TypeOK, Phases, Works, Outcomes
<1> QED BY <1>1, <1>2, <1>3, Invariance, PTL DEF Spec

(* No slot is lost or freed by a stranger (completeTask, resetCommandLane).  *)
THEOREM OwnedSlots == Spec => []SlotsHaveOwners
<1>1. IInv => SlotsHaveOwners
  BY DEF IInv, Sound, Slots, SlotsHaveOwners, Holders, Holds
<1> QED BY <1>1, Invariance, PTL

(* No lost wakeup: every operation that can free a slot pumps the lane.      *)
THEOREM NoLostWakeup == Spec => []NoIdleSlot
<1>1. Filled({}, lane) => NoIdleSlot
  BY DEF Filled, NoIdleSlot
<1> QED BY <1>1, Invariance, PTL

(* The nested lanes implement serial turns of each session. *)
THEOREM TurnsAreSerial == Spec => ImplementsSerialTurns
<1>1. Init => Serial!Init
  BY InitSound
<1>2. IInv /\ [Next]_vars => [Serial!Next]_<<Turn, givenUp>>
  <2> SUFFICES ASSUME IInv, [Next]_vars
               PROVE  Serial!Next \/ UNCHANGED <<Turn, givenUp>>
    OBVIOUS
  <2>1. StepOK
    BY NextStep
  <2> QED BY <2>1 DEF StepOK
<1> QED BY <1>1, <1>2, Invariance, PTL DEF Spec, ImplementsSerialTurns, Serial!Spec

----------------------------------------------------------------------------
(* While a restart waits, no run enters its innermost lane, and those that   *)
(* are there hold a session slot that the restart waits for.                 *)
Captured ==
    /\ gateway \in {"draining", "expired"} =>
          \A r \in Runs : r \notin givenUp /\ level[r] = Depth(r)
                             => <<r, SessionOf[r]>> \in captured
    /\ gateway = "drained" => \A r \in Runs : r \notin givenUp => level[r] # Depth(r)

(* A run in its innermost lane holds its session slot, if it was not taken.  *)
LEMMA InnermostHolds ==
    ASSUME IInv, NEW r \in Runs, r \notin givenUp, level[r] = Depth(r)
    PROVE  r \in lane[SessionOf[r]].active /\ SessionOf[r] \in Lanes
<1>1. Depth(r) - 1 \in 1 .. level[r] /\ Path(r)[Depth(r) - 1] = SessionOf[r] /\ Depth(r) - 1 # level[r]
  BY Paths
<1>2. Holds(r, SessionOf[r], phase, level)
  BY <1>1 DEF Holds
<1> QED BY <1>2, Paths DEF IInv, Sound, Kept, Lanes

(* A step that leaves the restart alone brings no run to its innermost lane. *)
Undrained ==
    /\ captured' = captured /\ givenUp \subseteq givenUp'
    /\ gateway' = gateway \/ (gateway = "draining" /\ gateway' = "expired")
    /\ gateway # "up" => \A r \in Runs : level'[r] = Depth(r) => level[r] = Depth(r)

LEMMA UndrainedCaptured ==
    ASSUME Captured, Undrained
    PROVE  Captured'
<1>1. gateway' \in {"draining", "expired"} =>
         \A r \in Runs : r \notin givenUp' /\ level'[r] = Depth(r) => <<r, SessionOf[r]>> \in captured'
  BY DEF Captured, Undrained
<1>2. gateway' = "drained" => \A r \in Runs : r \notin givenUp' => level'[r] # Depth(r)
  BY DEF Captured, Undrained
<1>3. Captured' <=>
         /\ gateway' \in {"draining", "expired"} =>
               \A r \in Runs : r \notin givenUp' /\ level'[r] = Depth(r)
                                  => <<r, SessionOf[r]>> \in captured'
         /\ gateway' = "drained" => \A r \in Runs : r \notin givenUp' => level'[r] # Depth(r)
  BY DEF Captured, Depth, Path, GlobalLane
<1> QED BY <1>1, <1>2, <1>3

LEMMA CapturedStep ==
    ASSUME IInv, Rest, Captured, [Next]_vars
    PROVE  Captured'
<1>1. /\ level \in [Runs -> 0 .. 3] /\ \A r \in Runs : level[r] \in 0 .. Depth(r) /\ Depth(r) \in {2, 3}
      /\ Queues(lane, phase, level)
  BY Paths DEF IInv, Sound, Typed, Placed
<1>2. ASSUME NEW r \in Runs, Accept(r) PROVE Undrained
  BY <1>2 DEF Accept, Enter, Undrained
<1>3. ASSUME NEW r \in Runs, BeginNested(r) PROVE Undrained
  BY <1>3 DEF BeginNested, Enter, Undrained
<1>4. ASSUME NEW r \in Runs, Refuse(r) \/ BeginWork(r) \/ WorkEnds(r) \/ LaneTimeout(r) PROVE Undrained
  BY <1>4 DEF Refuse, BeginWork, WorkEnds, LaneTimeout, Undrained
<1>5. ASSUME NEW r \in Runs, Complete(r) PROVE Undrained
  <2>1. /\ level' = [level EXCEPT ![r] = @ - 1] /\ gateway' = gateway /\ captured' = captured
        /\ givenUp' = givenUp
    BY <1>5 DEF Complete
  <2>2. ASSUME NEW q \in Runs, level'[q] = Depth(q) PROVE level[q] = Depth(q)
    <3>1. level[q] \in 0 .. Depth(q) /\ Depth(q) \in {2, 3}
      BY <1>1
    <3>2. level'[q] = IF q = r THEN level[q] - 1 ELSE level[q]
      BY <1>1, <2>1
    <3> QED BY <2>2, <3>1, <3>2
  <2> QED BY <2>1, <2>2 DEF Undrained
<1>6. ASSUME NEW r \in Runs, RecoverByAbort(r) \/ Suspend(r) PROVE Undrained
  BY <1>6 DEF RecoverByAbort, Suspend, Undrained
<1>7. ASSUME NEW s \in Sessions, Interrupt(s) PROVE Undrained
  <2>1. /\ gateway' = gateway /\ captured' = captured /\ givenUp' = givenUp
        /\ \A q \in Runs : level'[q] \in {level[q] - 1, level[q]}
    BY <1>7 DEF Interrupt
  <2>2. ASSUME NEW q \in Runs, level'[q] = Depth(q) PROVE level[q] = Depth(q)
    <3>1. level[q] \in 0 .. Depth(q) /\ Depth(q) \in {2, 3}
      BY <1>1
    <3> QED BY <2>1, <2>2, <3>1
  <2> QED BY <2>1, <2>2 DEF Undrained
<1>8. ASSUME NEW s \in Sessions, Recover(s) PROVE Undrained
  BY <1>8 DEF Recover, Undrained
<1>9. ASSUME NEW l \in GlobalLanes, AutoResume(l) PROVE Undrained
  BY <1>9 DEF AutoResume, Undrained
<1>10. CASE ApplyConcurrency \/ DrainExpires \/ UNCHANGED vars
  <2>1. Undrained
    BY <1>10 DEF ApplyConcurrency, DrainExpires, vars, Undrained
  <2> QED BY <2>1, UndrainedCaptured
<1>11. CASE BeginRestart
  <2>1. /\ gateway' = "draining" /\ level' = level /\ givenUp' = givenUp
        /\ captured' = {c \in Runs \X Lanes : c[1] \in lane[c[2]].active}
    BY <1>11 DEF BeginRestart
  <2>2. ASSUME NEW r \in Runs, r \notin givenUp, level[r] = Depth(r)
        PROVE  <<r, SessionOf[r]>> \in captured'
    BY <2>1, <2>2, InnermostHolds
  <2> QED BY <2>1, <2>2 DEF Captured, Depth, Path, GlobalLane
<1>12. CASE DrainCompletes
  <2>1. /\ gateway = "draining" /\ gateway' = "drained" /\ level' = level /\ givenUp' = givenUp
        /\ Pending = {}
    BY <1>12 DEF DrainCompletes
  <2>2. ASSUME NEW r \in Runs, r \notin givenUp PROVE level[r] # Depth(r)
    <3>1. SUFFICES ASSUME level[r] = Depth(r) PROVE FALSE
      OBVIOUS
    <3>2. <<r, SessionOf[r]>> \in captured
      BY <2>1, <2>2, <3>1 DEF Captured
    <3>3. r \in lane[SessionOf[r]].active
      BY <2>2, <3>1, InnermostHolds
    <3> QED BY <2>1, <3>2, <3>3 DEF Pending
  <2> QED BY <2>1, <2>2 DEF Captured, Depth, Path, GlobalLane
<1>13. CASE NextIteration
  <2>1. gateway' = "up"
    BY <1>13 DEF NextIteration
  <2> QED BY <2>1 DEF Captured
<1> QED BY <1>2, <1>3, <1>4, <1>5, <1>6, <1>7, <1>8, <1>9, <1>10, <1>11, <1>12, <1>13,
           UndrainedCaptured DEF Next, RunStep, GatewayStep

(* A drain that answers "drained" leaves no attempt under way but those that *)
(* were given up: waitForActiveTasks may look at the tasks of one moment.    *)
THEOREM DrainIsEnough == Spec => []DrainedMeansIdle
<1>1. Init => Rest /\ Captured
  BY DEF Init, Rest, Captured
<1>2. IInv /\ Rest /\ Captured /\ [Next]_vars => Rest' /\ Captured'
  BY RestStep, CapturedStep
<1>3. IInv /\ Captured => DrainedMeansIdle
  BY DEF IInv, Sound, Placed, Captured, DrainedMeansIdle
<1> QED BY <1>1, <1>2, <1>3, Invariance, PTL DEF Spec

----------------------------------------------------------------------------
(***************************************************************************)
(* What the order of the turns rests on: queues are sorted by priority, who *)
(* waits is in a queue, and who is leaving has been answered.               *)
(***************************************************************************)
Sorted(ln) ==
    \A l \in Lanes : \A i, j \in 1 .. Len(ln[l].queue) :
        i < j => Priority[ln[l].queue[i]] >= Priority[ln[l].queue[j]]

InQueue(ln, ph, lv) ==
    \A r \in Runs : ph[r] = "queued" =>
        \E i \in 1 .. Len(ln[Path(r)[lv[r]]].queue) : ln[Path(r)[lv[r]]].queue[i] = r

Answered(q, wk, oc) == wk[q] = "over" \/ oc[q] # "none"
Closed(ph, wk, oc) ==
    \A r \in Runs : ph[r] \in {"closing", "done"} => Answered(r, wk, oc)

(* Who was before r has had its turn when r holds the session slot, and is   *)
(* before it still while r waits for the slot.                               *)
Ahead(ln, ph, lv, wk, oc, gu, ah) ==
    \A r \in Runs :
        /\ ah[r] \subseteq InSession(r) \ {r}
        /\ r \notin gu /\ Holds(r, SessionOf[r], ph, lv) =>
              \A q \in ah[r] : q \in gu \/ Answered(q, wk, oc)
        /\ \A j \in 1 .. Len(ln[SessionOf[r]].queue) : ln[SessionOf[r]].queue[j] = r =>
              \A q \in ah[r] : \/ q \in gu \/ Answered(q, wk, oc)
                               \/ q \in ln[SessionOf[r]].active
                               \/ \E i \in 1 .. j - 1 : ln[SessionOf[r]].queue[i] = q

Lined(ln, ph, lv, wk, oc, gu, ah) ==
    /\ Sorted(ln)
    /\ InQueue(ln, ph, lv)
    /\ Closed(ph, wk, oc)
    /\ Ahead(ln, ph, lv, wk, oc, gu, ah)

Order == Lined(lane, phase, level, work, outcome, givenUp, ahead)

----------------------------------------------------------------------------
(* A drain takes the first entries of a queue, and of a session one at most. *)
Shifted(L, st, l, shift) ==
    /\ shift \in 0 .. Len(st[l].queue)
    /\ Len(lane'[l].queue) = Len(st[l].queue) - shift
    /\ \A j \in 1 .. Len(lane'[l].queue) : lane'[l].queue[j] = st[l].queue[j + shift]
    /\ Begun(L, st, l) = {st[l].queue[i] : i \in 1 .. shift}
    /\ st[l].max = 1 /\ shift # 0 => shift = 1 /\ st[l].active = {}

LEMMA DrainShifts ==
    ASSUME NEW L \in SUBSET Lanes, NEW st, NEW ph, NEW lv,
           Typed(st, ph, lv, taskGen), Drain(L, st, ph), NEW l \in Lanes
    PROVE  /\ Len(st[l].queue) \in Nat
           /\ \E shift \in Nat : Shifted(L, st, l, shift)
<1>1. st[l] \in CQ!LaneState /\ st[l].queue \in Seq(Runs) /\ Len(st[l].queue) \in Nat
  BY DEF Typed, CQ!LaneState
<1>2. lane'[l] = IF l \in L THEN CQ!Pump(st[l]) ELSE st[l]
  BY DEF Drain
<1>3. CASE l \in L
  <2>1. /\ CQ!Room(st[l]) \in 0 .. Len(st[l].queue)
        /\ Len(CQ!Pump(st[l]).queue) = Len(st[l].queue) - CQ!Room(st[l])
        /\ \A j \in 1 .. Len(CQ!Pump(st[l]).queue) :
              CQ!Pump(st[l]).queue[j] = st[l].queue[j + CQ!Room(st[l])]
    BY <1>1, PumpEffect, PumpRoom
  <2>2. Begun(L, st, l) = {st[l].queue[i] : i \in 1 .. CQ!Room(st[l])}
    BY <1>3 DEF Begun, CQ!Started
  <2>3. st[l].max = 1 /\ CQ!Room(st[l]) # 0 => CQ!Room(st[l]) = 1 /\ st[l].active = {}
    <3>1. SUFFICES ASSUME st[l].max = 1, CQ!Room(st[l]) # 0
                   PROVE  CQ!Room(st[l]) = 1 /\ st[l].active = {}
      OBVIOUS
    <3>2. /\ IsFiniteSet(st[l].active) /\ Cardinality(st[l].active) \in Nat
          /\ CQ!Cardinality(st[l].active) = Cardinality(st[l].active)
      BY <1>1, PumpRoom
    <3>3. Cardinality(st[l].active) = 0
      BY <3>1, <3>2 DEF CQ!Room
    <3>4. CQ!Room(st[l]) = IF 1 < Len(st[l].queue) THEN 1 ELSE Len(st[l].queue)
      BY <1>1, <3>1, <3>2, <3>3 DEF CQ!Room
    <3>5. st[l].active = {}
      BY <3>2, <3>3, FS_EmptySet
    <3>6. CQ!Room(st[l]) = 1
      <4> DEFINE n == Len(st[l].queue)
      <4>1. n \in Nat /\ CQ!Room(st[l]) = IF 1 < n THEN 1 ELSE n
        BY <1>1, <3>4
      <4> HIDE DEF n
      <4> QED BY <3>1, <4>1
    <3> QED BY <3>5, <3>6
  <2>4. CQ!Room(st[l]) \in Nat
    BY <1>1, <2>1
  <2> QED BY <1>1, <1>2, <1>3, <2>1, <2>2, <2>3, <2>4 DEF Shifted
<1>4. CASE l \notin L
  <2>1. lane'[l] = st[l] /\ Begun(L, st, l) = {} /\ 1 .. 0 = {}
    BY <1>2, <1>4 DEF Begun
  <2>2. \A j \in 1 .. Len(st[l].queue) : j + 0 = j
    BY <1>1
  <2>3. Shifted(L, st, l, 0)
    BY <1>1, <2>1, <2>2 DEF Shifted
  <2> QED BY <1>1, <2>3
<1> QED BY <1>3, <1>4

(* The order survives every drain. *)
LEMMA DrainLined ==
    ASSUME NEW L \in SUBSET Lanes, NEW st, NEW ph, NEW lv, NEW wk, NEW oc, NEW gu, NEW ah,
           Sound(st, ph, lv, taskGen, wk, oc, gu), Lined(st, ph, lv, wk, oc, gu, ah),
           Drain(L, st, ph)
    PROVE  Lined(lane', phase', lv, wk, oc, gu, ah)
<1>1. Typed(st, ph, lv, taskGen) /\ Queues(st, ph, lv) /\ OneSlot(st)
      /\ Placed(ph, lv, wk, oc, gu)
  BY DEF Sound
<1>2. Drained(L, st, ph, lv)
  BY <1>1, DrainEffect
<1>3. \A l \in Lanes : Len(st[l].queue) \in Nat /\ \E shift \in Nat : Shifted(L, st, l, shift)
  BY <1>1, DrainShifts
<1>4. Sorted(lane')
  <2> SUFFICES ASSUME NEW l \in Lanes, NEW i \in 1 .. Len(lane'[l].queue),
                      NEW j \in 1 .. Len(lane'[l].queue), i < j
               PROVE  Priority[lane'[l].queue[i]] >= Priority[lane'[l].queue[j]]
    BY DEF Sorted
  <2>1. PICK shift \in Nat : Shifted(L, st, l, shift)
    BY <1>3
  <2>2. /\ i + shift \in 1 .. Len(st[l].queue) /\ j + shift \in 1 .. Len(st[l].queue)
        /\ i + shift < j + shift
    BY <1>3, <2>1 DEF Shifted
  <2> QED BY <2>1, <2>2 DEF Shifted, Sorted, Lined
<1>5. InQueue(lane', phase', lv)
  <2> SUFFICES ASSUME NEW r \in Runs, phase'[r] = "queued"
               PROVE  \E i \in 1 .. Len(lane'[Path(r)[lv[r]]].queue) : lane'[Path(r)[lv[r]]].queue[i] = r
    BY DEF InQueue
  <2> DEFINE l == Path(r)[lv[r]]
  <2>1. ph[r] = "queued" /\ \A m \in Lanes : r \notin Begun(L, st, m)
    BY <1>2 DEF Drained
  <2>2. l \in Lanes
    BY <1>1, <2>1, Paths DEF Placed
  <2>3. PICK j \in 1 .. Len(st[l].queue) : st[l].queue[j] = r
    BY <2>1 DEF Lined, InQueue
  <2> HIDE DEF l
  <2>4. PICK shift \in Nat : Shifted(L, st, l, shift)
    BY <1>3, <2>2
  <2>5. j > shift
    <3>1. j \notin 1 .. shift
      BY <2>1, <2>2, <2>3, <2>4 DEF Shifted
    <3> QED BY <1>3, <2>2, <2>3, <3>1
  <2>6. j - shift \in 1 .. Len(lane'[l].queue) /\ (j - shift) + shift = j
    BY <1>3, <2>2, <2>3, <2>4, <2>5 DEF Shifted
  <2>7. lane'[l].queue[j - shift] = r
    BY <2>3, <2>4, <2>6 DEF Shifted
  <2> QED BY <2>6, <2>7 DEF l
<1>6. Closed(phase', wk, oc)
  <2>1. \A r \in Runs : phase'[r] \in {"closing", "done"} => phase'[r] = ph[r]
    BY <1>2 DEF Drained
  <2> QED BY <2>1 DEF Lined, Closed
<1>7. Ahead(lane', phase', lv, wk, oc, gu, ah)
  <2> SUFFICES ASSUME NEW r \in Runs
               PROVE  /\ ah[r] \subseteq InSession(r) \ {r}
                      /\ r \notin gu /\ Holds(r, SessionOf[r], phase', lv) =>
                            \A q \in ah[r] : q \in gu \/ Answered(q, wk, oc)
                      /\ \A j \in 1 .. Len(lane'[SessionOf[r]].queue) :
                            lane'[SessionOf[r]].queue[j] = r =>
                            \A q \in ah[r] : \/ q \in gu \/ Answered(q, wk, oc)
                                             \/ q \in lane'[SessionOf[r]].active
                                             \/ \E i \in 1 .. j - 1 : lane'[SessionOf[r]].queue[i] = q
    BY DEF Ahead
  <2> DEFINE s == SessionOf[r]
  <2>1. s \in Lanes /\ s \in Sessions
    BY Paths DEF Lanes
  <2>2. PICK shift \in Nat : Shifted(L, st, s, shift)
    BY <1>3, <2>1
  <2>3. /\ ah[r] \subseteq InSession(r) \ {r}
        /\ r \notin gu /\ Holds(r, s, ph, lv) => \A q \in ah[r] : q \in gu \/ Answered(q, wk, oc)
        /\ \A j \in 1 .. Len(st[s].queue) : st[s].queue[j] = r =>
              \A q \in ah[r] : \/ q \in gu \/ Answered(q, wk, oc)
                               \/ q \in st[s].active
                               \/ \E i \in 1 .. j - 1 : st[s].queue[i] = q
    BY DEF Lined, Ahead
  <2>4. Holds(r, s, phase', lv) <=> Holds(r, s, ph, lv) \/ r \in Begun(L, st, s)
    BY <1>1, <2>1, DrainHolds
  <2> HIDE DEF s
  <2>5. ASSUME r \in Begun(L, st, s), NEW q \in ah[r] PROVE q \in gu \/ Answered(q, wk, oc)
    <3>1. PICK j \in 1 .. shift : st[s].queue[j] = r
      BY <2>2, <2>5 DEF Shifted
    <3>2. shift = 1 /\ st[s].active = {}
      BY <1>1, <2>1, <2>2, <3>1 DEF Shifted, OneSlot
    <3>3. j = 1 /\ 1 .. j - 1 = {} /\ j \in 1 .. Len(st[s].queue)
      BY <1>3, <2>1, <2>2, <3>1, <3>2 DEF Shifted
    <3> QED BY <2>3, <2>5, <3>1, <3>2, <3>3
  <2>6. ASSUME NEW j \in 1 .. Len(lane'[s].queue), lane'[s].queue[j] = r, NEW q \in ah[r],
               ~ (q \in gu \/ Answered(q, wk, oc))
        PROVE  q \in lane'[s].active \/ \E i \in 1 .. j - 1 : lane'[s].queue[i] = q
    <3>1. lane'[s].active = st[s].active \union Begun(L, st, s)
      BY <1>2, <2>1 DEF Drained
    <3>2. j + shift \in 1 .. Len(st[s].queue) /\ st[s].queue[j + shift] = r
      BY <1>3, <2>1, <2>2, <2>6 DEF Shifted
    <3>3. CASE q \in st[s].active
      BY <3>1, <3>3
    <3>4. CASE \E i \in 1 .. (j + shift) - 1 : st[s].queue[i] = q
      <4>1. PICK i \in 1 .. (j + shift) - 1 : st[s].queue[i] = q
        BY <3>4
      <4>2. CASE i <= shift
        <5>1. i \in 1 .. shift
          BY <2>2, <4>1, <4>2
        <5>2. q \in Begun(L, st, s)
          BY <2>2, <4>1, <5>1 DEF Shifted
        <5> QED BY <3>1, <5>2
      <4>3. CASE i > shift
        <5>1. Len(lane'[s].queue) \in Nat
          BY <1>3, <2>1, <2>2 DEF Shifted
        <5>2. /\ i - shift \in 1 .. j - 1 /\ i - shift \in 1 .. Len(lane'[s].queue)
              /\ (i - shift) + shift = i
          BY <2>2, <4>1, <4>3, <5>1
        <5>3. lane'[s].queue[i - shift] = q
          BY <2>2, <4>1, <5>2 DEF Shifted
        <5> QED BY <5>2, <5>3
      <4> QED BY <2>2, <4>1, <4>2, <4>3
    <3> QED BY <2>3, <2>6, <3>2, <3>3, <3>4
  <2> QED BY <2>3, <2>4, <2>5, <2>6 DEF s
<1> QED BY <1>4, <1>5, <1>6, <1>7 DEF Lined
----------------------------------------------------------------------------
(* What a step does to the order before its drain, unless a run enters a     *)
(* lane: queues stay or are emptied, the settled stay settled, and who loses *)
(* a session slot has been answered or given up.                             *)
Carries(st, ph, lv, wk, oc, gu) ==
    /\ \A l \in Lanes : st[l].queue = lane[l].queue \/ Len(st[l].queue) = 0
    /\ \A r \in Runs : ph[r] = "queued" =>
          /\ phase[r] = "queued" /\ lv[r] = level[r]
          /\ st[Path(r)[lv[r]]].queue = lane[Path(r)[lv[r]]].queue
    /\ Closed(ph, wk, oc)
    /\ \A r \in Runs : Answered(r, work, outcome) => Answered(r, wk, oc)
    /\ givenUp \subseteq gu
    /\ \A r \in Runs : r \notin gu /\ Holds(r, SessionOf[r], ph, lv)
                          => Holds(r, SessionOf[r], phase, level)
    /\ \A s \in Sessions : \A q \in lane[s].active :
          q \in st[s].active \/ q \in gu \/ Answered(q, wk, oc)

LEMMA CarriesLined ==
    ASSUME Order, NEW st, NEW ph, NEW lv, NEW wk, NEW oc, NEW gu,
           Carries(st, ph, lv, wk, oc, gu)
    PROVE  Lined(st, ph, lv, wk, oc, gu, ahead)
<1>1. Sorted(st)
  <2> SUFFICES ASSUME NEW l \in Lanes, NEW i \in 1 .. Len(st[l].queue),
                      NEW j \in 1 .. Len(st[l].queue), i < j
               PROVE  Priority[st[l].queue[i]] >= Priority[st[l].queue[j]]
    BY DEF Sorted
  <2>1. st[l].queue = lane[l].queue
    BY DEF Carries
  <2> QED BY <2>1 DEF Order, Lined, Sorted
<1>2. InQueue(st, ph, lv)
  BY DEF Order, Lined, InQueue, Carries
<1>3. Closed(ph, wk, oc)
  BY DEF Carries
<1>4. Ahead(st, ph, lv, wk, oc, gu, ahead)
  <2> SUFFICES ASSUME NEW r \in Runs
               PROVE  /\ ahead[r] \subseteq InSession(r) \ {r}
                      /\ r \notin gu /\ Holds(r, SessionOf[r], ph, lv) =>
                            \A q \in ahead[r] : q \in gu \/ Answered(q, wk, oc)
                      /\ \A j \in 1 .. Len(st[SessionOf[r]].queue) :
                            st[SessionOf[r]].queue[j] = r =>
                            \A q \in ahead[r] : \/ q \in gu \/ Answered(q, wk, oc)
                                                \/ q \in st[SessionOf[r]].active
                                                \/ \E i \in 1 .. j - 1 : st[SessionOf[r]].queue[i] = q
    BY DEF Ahead
  <2>1. SessionOf[r] \in Sessions /\ SessionOf[r] \in Lanes
    BY Paths DEF Lanes
  <2>2. /\ ahead[r] \subseteq InSession(r) \ {r}
        /\ r \notin givenUp /\ Holds(r, SessionOf[r], phase, level) =>
              \A q \in ahead[r] : q \in givenUp \/ Answered(q, work, outcome)
        /\ \A j \in 1 .. Len(lane[SessionOf[r]].queue) : lane[SessionOf[r]].queue[j] = r =>
              \A q \in ahead[r] : \/ q \in givenUp \/ Answered(q, work, outcome)
                                  \/ q \in lane[SessionOf[r]].active
                                  \/ \E i \in 1 .. j - 1 : lane[SessionOf[r]].queue[i] = q
    BY DEF Order, Lined, Ahead
  <2>3. \A q \in ahead[r] : q \in givenUp \/ Answered(q, work, outcome) => q \in gu \/ Answered(q, wk, oc)
    BY <2>2 DEF Carries, InSession
  <2>4. ASSUME NEW j \in 1 .. Len(st[SessionOf[r]].queue), st[SessionOf[r]].queue[j] = r,
               NEW q \in ahead[r]
        PROVE  \/ q \in gu \/ Answered(q, wk, oc)
               \/ q \in st[SessionOf[r]].active
               \/ \E i \in 1 .. j - 1 : st[SessionOf[r]].queue[i] = q
    <3>1. st[SessionOf[r]].queue = lane[SessionOf[r]].queue
      BY <2>1 DEF Carries
    <3>2. q \in lane[SessionOf[r]].active =>
             q \in st[SessionOf[r]].active \/ q \in gu \/ Answered(q, wk, oc)
      BY <2>1 DEF Carries
    <3> QED BY <2>2, <2>3, <2>4, <3>1, <3>2
  <2> QED BY <2>2, <2>3, <2>4 DEF Carries
<1> QED BY <1>1, <1>2, <1>3, <1>4 DEF Lined
----------------------------------------------------------------------------
(* Where a new entry stands in a sorted queue: behind all of its priority.   *)
Behind(q2, q, e, at) ==
    /\ at \in 1 .. Len(q) + 1
    /\ Len(q2) = Len(q) + 1
    /\ q2[at] = e
    /\ \A i \in 1 .. Len(q) : i < at => q2[i] = q[i] /\ Priority[q[i]] >= Priority[e]
    /\ \A i \in 1 .. Len(q) : i >= at => q2[i + 1] = q[i] /\ Priority[q[i]] < Priority[e]

LEMMA InsertedBehind ==
    ASSUME NEW q2, NEW q \in Seq(Runs), NEW e \in Runs, Inserted(q2, q, e),
           \A i, j \in 1 .. Len(q) : i < j => Priority[q[i]] >= Priority[q[j]]
    PROVE  \E at \in Nat : Behind(q2, q, e, at)
<1> DEFINE n == Len(q)
<1>1. n \in Nat /\ Priority[e] \in Nat /\ \A i \in 1 .. n : Priority[q[i]] \in Nat
  BY LanesAssumption
<1>2. PICK at \in 1 .. n + 1 :
         /\ Len(q2) = n + 1
         /\ \A i \in 1 .. at - 1 : Priority[q[i]] >= Priority[e]
         /\ at <= n => Priority[q[at]] < Priority[e]
         /\ \A i \in 1 .. n + 1 :
               q2[i] = IF i < at THEN q[i] ELSE IF i = at THEN e ELSE q[i - 1]
  BY DEF Inserted
<1>3. at \in Nat /\ q2[at] = e
  BY <1>1, <1>2
<1>4. ASSUME NEW i \in 1 .. n, i < at PROVE q2[i] = q[i] /\ Priority[q[i]] >= Priority[e]
  <2>1. i \in 1 .. at - 1 /\ i \in 1 .. n + 1
    BY <1>1, <1>2, <1>4
  <2> QED BY <1>2, <1>4, <2>1
<1>5. ASSUME NEW i \in 1 .. n, i >= at PROVE q2[i + 1] = q[i] /\ Priority[q[i]] < Priority[e]
  <2>1. i + 1 \in 1 .. n + 1 /\ ~ (i + 1 < at) /\ i + 1 # at /\ (i + 1) - 1 = i
        /\ at \in 1 .. n
    BY <1>1, <1>2, <1>5
  <2>2. Priority[q[at]] >= Priority[q[i]]
    BY <1>1, <1>5, <2>1
  <2>3. q2[i + 1] = q[i]
    BY <1>2, <2>1
  <2>4. Priority[q[at]] < Priority[e]
    BY <1>2, <2>1
  <2> HIDE DEF n
  <2>5. Priority[q[at]] \in Nat /\ Priority[q[i]] \in Nat
    BY <1>1, <2>1
  <2> QED BY <1>1, <2>2, <2>3, <2>4, <2>5
<1> QED BY <1>2, <1>3, <1>4, <1>5 DEF Behind

(* Every place of the new queue is that of the new entry or an old one, and  *)
(* the old ones keep their order.                                            *)
Old(at, i) == IF i < at THEN i ELSE i - 1

LEMMA OldPlaces ==
    ASSUME NEW q2, NEW q \in Seq(Runs), NEW e \in Runs, NEW at, Behind(q2, q, e, at)
    PROVE  /\ \A i \in 1 .. Len(q2) \ {at} :
                 Old(at, i) \in 1 .. Len(q) /\ q2[i] = q[Old(at, i)]
           /\ \A i, j \in 1 .. Len(q2) \ {at} : i < j => Old(at, i) < Old(at, j)
<1> DEFINE n == Len(q)
<1>1. /\ n \in Nat /\ at \in 1 .. n + 1 /\ Len(q2) = n + 1
      /\ \A i \in 1 .. n : i < at => q2[i] = q[i]
      /\ \A i \in 1 .. n : i >= at => q2[i + 1] = q[i]
  BY DEF Behind
<1> HIDE DEF n
<1>2. ASSUME NEW i \in 1 .. n + 1, i # at
      PROVE  Old(at, i) \in 1 .. n /\ q2[i] = q[Old(at, i)]
  <2>1. CASE i < at
    <3>1. i \in 1 .. n /\ Old(at, i) = i
      BY <1>1, <2>1 DEF Old
    <3> QED BY <1>1, <2>1, <3>1
  <2>2. CASE i > at
    <3>1. i - 1 \in 1 .. n /\ i - 1 >= at /\ (i - 1) + 1 = i /\ Old(at, i) = i - 1
      BY <1>1, <2>2 DEF Old
    <3> QED BY <1>1, <3>1
  <2> QED BY <1>1, <1>2, <2>1, <2>2
<1>3. \A i, j \in 1 .. n + 1 : i # at /\ j # at /\ i < j => Old(at, i) < Old(at, j)
  BY <1>1 DEF Old
<1> QED BY <1>1, <1>2, <1>3 DEF n
(* Who is before r when it enters its session holds the slot, lost it, or    *)
(* waits in the queue with a priority no lower than r's.                     *)
LEMMA WhereBefore ==
    ASSUME IInv, Order, NEW r \in Runs, NEW q \in Before(r)
    PROVE  /\ q \in InSession(r) \ {r}
           /\ \/ q \in givenUp \/ q \in lane[SessionOf[r]].active
              \/ \E i \in 1 .. Len(lane[SessionOf[r]].queue) :
                    /\ lane[SessionOf[r]].queue[i] = q
                    /\ Priority[lane[SessionOf[r]].queue[i]] >= Priority[r]
<1>1. /\ q \in Runs /\ SessionOf[q] = SessionOf[r] /\ q \in InSession(r) \ {r}
      /\ phase[q] \notin {"new", "done"} /\ (q \in CronRuns => level[q] > 1)
      /\ Priority[q] >= Priority[r] \/ q \in lane[SessionOf[q]].active
  BY DEF Before, InSession
<1>2. /\ Placed(phase, level, work, outcome, givenUp) /\ Kept(lane, phase, level, givenUp)
  BY DEF IInv, Sound
<1>3. SUFFICES ASSUME q \notin givenUp, q \notin lane[SessionOf[r]].active
               PROVE  \E i \in 1 .. Len(lane[SessionOf[r]].queue) :
                         /\ lane[SessionOf[r]].queue[i] = q
                         /\ Priority[lane[SessionOf[r]].queue[i]] >= Priority[r]
  BY <1>1
<1>4. ~ Holds(q, SessionOf[q], phase, level)
  BY <1>1, <1>2, <1>3 DEF Kept
<1>5. /\ level[q] \in 0 .. Depth(q) /\ level[q] # 0
      /\ Depth(q) = IF q \in CronRuns THEN 3 ELSE 2
      /\ Path(q)[Depth(q) - 1] = SessionOf[q]
  BY <1>1, <1>2, Paths DEF Placed
<1>6. Depth(q) - 1 \in 1 .. level[q]
  BY <1>1, <1>5
<1>7. level[q] = Depth(q) - 1 /\ phase[q] = "queued"
  BY <1>4, <1>5, <1>6 DEF Holds
<1>8. PICK i \in 1 .. Len(lane[SessionOf[q]].queue) : lane[SessionOf[q]].queue[i] = q
  BY <1>1, <1>5, <1>7 DEF Order, Lined, InQueue
<1> QED BY <1>1, <1>3, <1>8

LEMMA EnterLined ==
    ASSUME IInv, Order, NEW r \in Runs, NEW k \in 1 .. Depth(r),
           phase[r] \in {"new", "begun"}, k = level[r] + 1,
           NEW m, NEW st, NEW ph, Enters(r, k, m, st, ph), Entered(r, m, st, ph),
           NEW ah, ah = IF m = SessionOf[r] THEN [ahead EXCEPT ![r] = Before(r)] ELSE ahead,
           ahead \in [Runs -> SUBSET Runs]
    PROVE  Lined(st, ph, level', work, outcome, givenUp, ah)
<1>1. /\ m \in Lanes /\ m = Path(r)[k]
      /\ \A l \in Lanes \ {m} : st[l] = lane[l]
      /\ \A l \in Lanes : st[l].active = lane[l].active
      /\ ph[r] = "queued" /\ level' = [level EXCEPT ![r] = k]
      /\ \A q \in Runs \ {r} : ph[q] = phase[q] /\ level'[q] = level[q]
      /\ \A q \in Runs, l \in Lanes : Holds(q, l, ph, level') <=> Holds(q, l, phase, level)
  BY DEF Entered, Enters
<1>2. /\ Typed(lane, phase, level, taskGen) /\ Queues(lane, phase, level)
      /\ Placed(phase, level, work, outcome, givenUp)
  BY DEF IInv, Sound
<1>3. /\ Sorted(lane) /\ InQueue(lane, phase, level) /\ Closed(phase, work, outcome)
      /\ Ahead(lane, phase, level, work, outcome, givenUp, ahead)
  BY DEF Order, Lined
<1>4. /\ level'[r] = k
      /\ \A l \in Lanes : lane[l].queue \in Seq(Runs) /\ Len(lane[l].queue) \in Nat
  BY <1>1, <1>2 DEF Typed, CQ!LaneState
<1> DEFINE q1 == lane[m].queue
           q2 == st[m].queue
<1>5. \E at \in Nat : Behind(q2, q1, r, at)
  <2>1. Inserted(q2, q1, r)
    BY DEF Entered
  <2>2. \A i, j \in 1 .. Len(q1) : i < j => Priority[q1[i]] >= Priority[q1[j]]
    BY <1>1, <1>3 DEF Sorted
  <2> HIDE DEF q1, q2
  <2>3. q1 \in Seq(Runs)
    BY <1>1, <1>4 DEF q1
  <2> QED BY <2>1, <2>2, <2>3, InsertedBehind
<1>6. PICK at \in Nat : Behind(q2, q1, r, at)
  BY <1>5
<1>7. /\ Len(q1) \in Nat /\ Len(q2) = Len(q1) + 1 /\ at \in 1 .. Len(q2) /\ q2[at] = r
      /\ \A i \in 1 .. Len(q1) : i < at => q2[i] = q1[i] /\ Priority[q1[i]] >= Priority[r]
      /\ \A i \in 1 .. Len(q1) : i >= at => q2[i + 1] = q1[i] /\ Priority[q1[i]] < Priority[r]
  BY <1>1, <1>4, <1>6 DEF Behind
<1>8. /\ \A i \in 1 .. Len(q2) \ {at} : Old(at, i) \in 1 .. Len(q1) /\ q2[i] = q1[Old(at, i)]
      /\ \A i, j \in 1 .. Len(q2) \ {at} : i < j => Old(at, i) < Old(at, j)
  <2> HIDE DEF q1, q2
  <2>1. q1 \in Seq(Runs)
    BY <1>1, <1>4 DEF q1
  <2> QED BY <1>6, <2>1, OldPlaces
<1>9. Sorted(st)
  <2>1. ASSUME NEW i \in 1 .. Len(q2), NEW j \in 1 .. Len(q2), i < j
        PROVE  Priority[q2[i]] >= Priority[q2[j]]
    <3>1. CASE i # at /\ j # at
      <4>1. \A a, b \in 1 .. Len(q1) : a < b => Priority[q1[a]] >= Priority[q1[b]]
        BY <1>1, <1>3 DEF Sorted
      <4> HIDE DEF q1, q2
      <4>2. /\ Old(at, i) \in 1 .. Len(q1) /\ q2[i] = q1[Old(at, i)]
            /\ Old(at, j) \in 1 .. Len(q1) /\ q2[j] = q1[Old(at, j)]
            /\ Old(at, i) < Old(at, j)
        BY <1>8, <2>1, <3>1
      <4> QED BY <4>1, <4>2
    <3>2. CASE j = at
      <4> HIDE DEF q1, q2
      <4>1. i < at /\ i \in 1 .. Len(q1)
        BY <1>7, <2>1, <3>2
      <4> QED BY <1>7, <3>2, <4>1
    <3>3. CASE i = at
      <4> HIDE DEF q1, q2
      <4>1. j - 1 >= at /\ j - 1 \in 1 .. Len(q1) /\ (j - 1) + 1 = j
        BY <1>7, <2>1, <3>3
      <4>2. q2[j] = q1[j - 1] /\ Priority[q1[j - 1]] < Priority[r] /\ q1[j - 1] \in Runs
        BY <1>1, <1>4, <1>7, <4>1 DEF q1
      <4>3. Priority[q2[j]] \in Nat /\ Priority[r] \in Nat /\ Priority[q2[j]] < Priority[r]
        BY <4>2, LanesAssumption
      <4> QED BY <1>7, <3>3, <4>3
    <3> QED BY <3>1, <3>2, <3>3
  <2>2. \A l \in Lanes \ {m} : st[l].queue = lane[l].queue
    BY <1>1
  <2> QED BY <1>3, <2>1, <2>2 DEF Sorted
<1>10. InQueue(st, ph, level')
  <2> SUFFICES ASSUME NEW q \in Runs, ph[q] = "queued"
               PROVE  \E i \in 1 .. Len(st[Path(q)[level'[q]]].queue) :
                         st[Path(q)[level'[q]]].queue[i] = q
    BY DEF InQueue
  <2>1. CASE q = r
    <3>1. Path(q)[level'[q]] = m
      BY <1>1, <1>4, <2>1
    <3> QED BY <1>7, <2>1, <3>1
  <2>2. CASE q # r
    <3> DEFINE l == Path(q)[level[q]]
    <3>1. phase[q] = "queued" /\ Path(q)[level'[q]] = l
      BY <1>1, <2>2
    <3>2. l \in Lanes
      BY <1>2, <3>1, Paths DEF Placed
    <3>3. PICK i \in 1 .. Len(lane[l].queue) : lane[l].queue[i] = q
      BY <1>3, <3>1 DEF InQueue
    <3> HIDE DEF l
    <3>4. CASE l = m
      <4> HIDE DEF q1, q2
      <4>1. i \in 1 .. Len(q1) /\ q1[i] = q
        BY <3>3, <3>4 DEF q1
      <4>2. \E j \in 1 .. Len(q2) : q2[j] = q
        <5>1. CASE i < at
          <6>1. i \in 1 .. Len(q2) /\ q2[i] = q
            BY <1>7, <4>1, <5>1
          <6> QED BY <6>1
        <5>2. CASE i >= at
          <6>1. i + 1 \in 1 .. Len(q2) /\ q2[i + 1] = q
            BY <1>7, <4>1, <5>2
          <6> QED BY <6>1
        <5> QED BY <1>7, <4>1, <5>1, <5>2
      <4> QED BY <3>1, <3>4, <4>2 DEF q2
    <3>5. CASE l # m
      <4>1. st[l] = lane[l]
        BY <1>1, <3>2, <3>5
      <4> QED BY <3>1, <3>3, <4>1
    <3> QED BY <3>4, <3>5
  <2> QED BY <2>1, <2>2
<1>11. Closed(ph, work, outcome)
  BY <1>1, <1>3 DEF Closed
<1>12. Ahead(st, ph, level', work, outcome, givenUp, ah)
  <2> SUFFICES ASSUME NEW p \in Runs
               PROVE  /\ ah[p] \subseteq InSession(p) \ {p}
                      /\ p \notin givenUp /\ Holds(p, SessionOf[p], ph, level') =>
                            \A q \in ah[p] : q \in givenUp \/ Answered(q, work, outcome)
                      /\ \A j \in 1 .. Len(st[SessionOf[p]].queue) :
                            st[SessionOf[p]].queue[j] = p =>
                            \A q \in ah[p] : \/ q \in givenUp \/ Answered(q, work, outcome)
                                             \/ q \in st[SessionOf[p]].active
                                             \/ \E i \in 1 .. j - 1 : st[SessionOf[p]].queue[i] = q
    BY DEF Ahead
  <2> DEFINE s == SessionOf[p]
  <2>1. s \in Lanes /\ s \in Sessions
    BY Paths DEF Lanes
  <2>2. /\ ahead[p] \subseteq InSession(p) \ {p}
        /\ p \notin givenUp /\ Holds(p, s, phase, level) =>
              \A q \in ahead[p] : q \in givenUp \/ Answered(q, work, outcome)
        /\ \A j \in 1 .. Len(lane[s].queue) : lane[s].queue[j] = p =>
              \A q \in ahead[p] : \/ q \in givenUp \/ Answered(q, work, outcome)
                                  \/ q \in lane[s].active
                                  \/ \E i \in 1 .. j - 1 : lane[s].queue[i] = q
    BY <1>3 DEF Ahead
  <2>3. Holds(p, s, ph, level') <=> Holds(p, s, phase, level)
    BY <1>1, <2>1
  <2>4. CASE p = r /\ s = m
    <3>1. ah[p] = Before(r)
      BY <2>4
    <3>2. ~ Holds(p, s, phase, level)
      <4>1. level[r] = k - 1 /\ k \in 1 .. Depth(r) /\ Depth(r) \in Nat /\ level[r] \in Nat
        BY <1>2, Paths DEF Typed
      <4>2. \A j \in 1 .. level[r] : j \in 1 .. Depth(r) /\ j # k
        BY <4>1
      <4>3. \A j \in 1 .. level[r] : Path(r)[j] # m
        BY <1>1, <4>2, Paths
      <4> QED BY <2>4, <4>3 DEF Holds
    <3>3. ASSUME NEW j \in 1 .. Len(st[s].queue), st[s].queue[j] = p, NEW q \in ah[p]
          PROVE  \/ q \in givenUp \/ Answered(q, work, outcome)
                 \/ q \in st[s].active
                 \/ \E i \in 1 .. j - 1 : st[s].queue[i] = q
      <4>1. q \in Before(r)
        BY <3>1, <3>3
      <4>2. j = at
        <5>1. j \in 1 .. Len(q2) /\ q2[j] = r
          BY <2>4, <3>3
        <5>2. \A i \in 1 .. Len(q1) : q1[i] # r
          BY <1>1, <1>2 DEF Queues
        <5> HIDE DEF q1, q2
        <5> QED BY <1>8, <5>1, <5>2
      <4>3. CASE q \in givenUp \/ q \in lane[s].active
        BY <1>1, <2>1, <4>3
      <4>4. CASE \E i \in 1 .. Len(q1) : q1[i] = q /\ Priority[q1[i]] >= Priority[r]
        <5>1. PICK i \in 1 .. Len(q1) : q1[i] = q /\ Priority[q1[i]] >= Priority[r]
          BY <4>4
        <5>2. q1[i] \in Runs
          BY <1>1, <1>4
        <5> HIDE DEF q1, q2
        <5>3. Priority[q1[i]] \in Nat /\ Priority[r] \in Nat
          BY <5>2, LanesAssumption
        <5>4. i < at
          BY <1>7, <5>1, <5>3
        <5>5. i \in 1 .. j - 1 /\ q2[i] = q
          BY <1>7, <4>2, <5>1, <5>4
        <5> QED BY <2>4, <5>5 DEF q2
      <4> QED BY <2>4, <4>1, <4>3, <4>4, WhereBefore
    <3>4. ah[p] \subseteq InSession(p) \ {p}
      BY <2>4, <3>1 DEF Before
    <3> QED BY <2>3, <3>2, <3>3, <3>4
  <2>5. CASE p = r /\ s # m
    <3>1. ah[p] = ahead[p] /\ st[s] = lane[s]
      BY <1>1, <2>1, <2>5
    <3> QED BY <2>2, <2>3, <3>1
  <2>6. CASE p # r
    <3>1. ah[p] = ahead[p]
      BY <2>6
    <3>2. CASE s # m
      <4>1. st[s] = lane[s]
        BY <1>1, <2>1, <3>2
      <4> QED BY <2>2, <2>3, <3>1, <4>1
    <3>3. CASE s = m
      <4>1. ASSUME NEW j \in 1 .. Len(q2), q2[j] = p, NEW q \in ahead[p]
            PROVE  \/ q \in givenUp \/ Answered(q, work, outcome)
                   \/ q \in st[s].active
                   \/ \E i \in 1 .. j - 1 : q2[i] = q
        <5>1. st[s].active = lane[s].active
          BY <1>1, <2>1
        <5>2. \A a \in 1 .. Len(q1) : q1[a] = p =>
                 \/ q \in givenUp \/ Answered(q, work, outcome)
                 \/ q \in lane[s].active
                 \/ \E i \in 1 .. a - 1 : q1[i] = q
          BY <2>2, <3>3, <4>1
        <5> HIDE DEF q1, q2, s
        <5>3. j # at
          BY <1>7, <2>6, <4>1
        <5>4. Old(at, j) \in 1 .. Len(q1) /\ q1[Old(at, j)] = p
          BY <1>8, <4>1, <5>3
        <5>5. CASE \E i \in 1 .. Old(at, j) - 1 : q1[i] = q
          <6>1. PICK i \in 1 .. Old(at, j) - 1 : q1[i] = q
            BY <5>5
          <6>2. i \in 1 .. Len(q1) /\ (IF i < at THEN i ELSE i + 1) \in 1 .. j - 1
            BY <1>7, <4>1, <5>3, <5>4 DEF Old
          <6>3. q2[IF i < at THEN i ELSE i + 1] = q
            BY <1>7, <6>1, <6>2
          <6> QED BY <6>2, <6>3
        <5> QED BY <5>1, <5>2, <5>4, <5>5
      <4> QED BY <2>2, <2>3, <3>1, <3>3, <4>1
    <3> QED BY <3>2, <3>3
  <2> QED BY <2>4, <2>5, <2>6
<1> QED BY <1>9, <1>10, <1>11, <1>12 DEF Lined
----------------------------------------------------------------------------
(* The steps keep the order. *)
LEMMA EnterOrder ==
    ASSUME IInv, Order, ahead \in [Runs -> SUBSET Runs],
           NEW r \in Runs, NEW k \in 1 .. Depth(r),
           phase[r] \in {"new", "begun"}, k = level[r] + 1, Enter(r, k),
           UNCHANGED <<work, outcome, givenUp>>
    PROVE  Order'
<1> DEFINE m == Path(r)[k]
           st == [lane EXCEPT ![m] = CQ!Enqueue(@, r)]
           ph == [phase EXCEPT ![r] = "queued"]
<1>1. /\ Drain({m}, st, ph) /\ level' = [level EXCEPT ![r] = k]
      /\ work' = work /\ outcome' = outcome /\ givenUp' = givenUp
      /\ ahead' = IF m = SessionOf[r] THEN [ahead EXCEPT ![r] = Before(r)] ELSE ahead
  BY DEF Enter
<1>2. Enters(r, k, m, st, ph)
  BY <1>1 DEF Enters
<1> HIDE DEF m, st, ph
<1>3. /\ Sound(st, ph, level', taskGen, work, outcome, givenUp)
      /\ Entered(r, m, st, ph)
  BY <1>2, EnterReady
<1>4. {m} \in SUBSET Lanes
  BY <1>3 DEF Entered
<1>5. Lined(st, ph, level', work, outcome, givenUp, ahead')
  BY <1>1, <1>2, <1>3, EnterLined
<1>6. Lined(lane', phase', level', work, outcome, givenUp, ahead')
  BY <1>1, <1>3, <1>4, <1>5, DrainLined
<1> QED BY <1>1, <1>6 DEF Order

(* A step that moves no run along its lanes. *)
LEMMA PhaseOrder ==
    ASSUME Order, UNCHANGED <<lane, level, ahead>>, givenUp \subseteq givenUp',
           \A q \in Runs : \/ phase'[q] = phase[q]
                           \/ phase[q] # "queued" /\ phase'[q] # "queued",
           \A q \in Runs : Answered(q, work, outcome) => Answered(q, work', outcome'),
           \A q \in Runs : phase'[q] \in {"closing", "done"} =>
              phase'[q] = phase[q] \/ Answered(q, work', outcome')
    PROVE  Order'
<1>1. lane' = lane /\ level' = level /\ ahead' = ahead
  OBVIOUS
<1>2. Closed(phase', work', outcome')
  BY DEF Order, Lined, Closed
<1>3. \A r \in Runs, l \in Lanes : Holds(r, l, phase', level) => Holds(r, l, phase, level)
  BY DEF Holds
<1>4. \A r \in Runs : SessionOf[r] \in Lanes
  BY Paths DEF Lanes
<1>5. Carries(lane, phase', level, work', outcome', givenUp')
  BY <1>2, <1>3, <1>4 DEF Carries
<1>6. Lined(lane, phase', level, work', outcome', givenUp', ahead)
  BY <1>5, CarriesLined
<1> QED BY <1>1, <1>6 DEF Order

(* A run is answered or goes to work, ends its work, or is given up.         *)
LEMMA RunOrder ==
    ASSUME IInv, Order, NEW r \in Runs,
           \/ Refuse(r) \/ BeginWork(r) \/ WorkEnds(r) \/ LaneTimeout(r)
           \/ \E why \in Outcomes \ {"none"} :
                 /\ phase[r] = "begun" /\ Settle(r, why)
                 /\ UNCHANGED <<lane, level, work, givenUp, ahead>>
    PROVE  Order'
<1>1. phase \in [Runs -> Phases] /\ Placed(phase, level, work, outcome, givenUp)
  BY DEF IInv, Sound, Typed
<1>2. work \in [Runs -> Works] /\ outcome \in [Runs -> Outcomes]
  BY <1>1 DEF Placed
<1>3. CASE Refuse(r)
  <2>1. /\ phase[r] = "new" /\ phase' = [phase EXCEPT ![r] = "done"]
        /\ outcome' = [outcome EXCEPT ![r] = "refused"]
        /\ lane' = lane /\ level' = level /\ ahead' = ahead /\ work' = work /\ givenUp' = givenUp
    BY <1>3 DEF Refuse
  <2> QED BY <1>1, <1>2, <2>1, PhaseOrder DEF Answered
<1>4. CASE WorkEnds(r)
  <2>1. /\ work' = [work EXCEPT ![r] = "over"] /\ work[r] = "working"
        /\ lane' = lane /\ level' = level /\ ahead' = ahead /\ givenUp' = givenUp
        /\ \/ /\ phase[r] = "working"
              /\ phase' = [phase EXCEPT ![r] = "closing"]
              /\ outcome' = [outcome EXCEPT ![r] = "ended"]
           \/ phase' = phase /\ outcome' = outcome
    BY <1>4 DEF WorkEnds, Settle
  <2> QED BY <1>1, <1>2, <2>1, PhaseOrder DEF Answered
<1>5. CASE LaneTimeout(r)
  <2>1. /\ phase[r] = "working" /\ phase' = [phase EXCEPT ![r] = "closing"]
        /\ outcome' = [outcome EXCEPT ![r] = "timeout"]
        /\ lane' = lane /\ level' = level /\ ahead' = ahead /\ work' = work
        /\ givenUp \subseteq givenUp'
    BY <1>5 DEF LaneTimeout, Settle
  <2> QED BY <1>1, <1>2, <2>1, PhaseOrder DEF Answered
<1>6. ASSUME NEW why \in Outcomes \ {"none"}, phase[r] = "begun", Settle(r, why),
             UNCHANGED <<lane, level, work, givenUp, ahead>>
      PROVE  Order'
  <2>1. /\ phase' = [phase EXCEPT ![r] = "closing"]
        /\ outcome' = [outcome EXCEPT ![r] = why] /\ why # "none"
        /\ lane' = lane /\ level' = level /\ ahead' = ahead /\ work' = work /\ givenUp' = givenUp
    BY <1>6 DEF Settle
  <2> QED BY <1>1, <1>2, <1>6, <2>1, PhaseOrder DEF Answered
<1>7. CASE BeginWork(r)
  <2>1. /\ phase[r] = "begun" /\ work[r] = "idle"
        /\ lane' = lane /\ level' = level /\ ahead' = ahead /\ givenUp' = givenUp
    BY <1>1, <1>7 DEF BeginWork, Placed
  <2>2. CASE r \in aborted
    <3>1. Settle(r, "aborted") /\ work' = work /\ "aborted" \in Outcomes \ {"none"}
      BY <1>7, <2>2 DEF BeginWork, Outcomes
    <3> QED BY <1>6, <2>1, <3>1
  <2>3. CASE r \notin aborted
    <3>1. /\ phase' = [phase EXCEPT ![r] = "working"]
          /\ work' = [work EXCEPT ![r] = "working"] /\ outcome' = outcome
      BY <1>7, <2>3 DEF BeginWork
    <3> QED BY <1>1, <1>2, <2>1, <3>1, PhaseOrder DEF Answered
  <2> QED BY <2>2, <2>3
<1> QED BY <1>3, <1>4, <1>5, <1>6, <1>7

LEMMA NestedOrder ==
    ASSUME IInv, Order, ahead \in [Runs -> SUBSET Runs], NEW r \in Runs, BeginNested(r)
    PROVE  Order'
<1>1. /\ phase[r] = "begun" /\ level[r] < Depth(r)
      /\ work' = work /\ givenUp' = givenUp
  BY DEF BeginNested, Depth
<1>2. CASE (Settle(r, "aborted") \/ Settle(r, "draining")) /\ UNCHANGED <<lane, level, ahead>>
  BY <1>1, <1>2, RunOrder DEF Outcomes
<1>3. CASE Enter(r, level[r] + 1) /\ UNCHANGED outcome
  <2>1. level[r] + 1 \in 1 .. Depth(r)
    BY <1>1, Paths DEF IInv, Sound, Placed
  <2> QED BY <1>1, <1>3, <2>1, EnterOrder
<1> QED BY <1>2, <1>3 DEF BeginNested

LEMMA AcceptOrder ==
    ASSUME IInv, Order, ahead \in [Runs -> SUBSET Runs], NEW r \in Runs, Accept(r)
    PROVE  Order'
<1>1. /\ phase[r] = "new" /\ Enter(r, 1)
      /\ UNCHANGED <<work, outcome, givenUp>>
  BY DEF Accept
<1>2. level[r] = 0
  BY <1>1 DEF IInv, Sound, Placed
<1>3. 1 \in 1 .. Depth(r) /\ 1 = level[r] + 1
  BY <1>2, Paths
<1> QED BY <1>1, <1>3, EnterOrder

(* Who completes has been answered. *)
LEMMA CompleteOrder ==
    ASSUME IInv, Order, NEW r \in Runs, Complete(r)
    PROVE  Order'
<1> DEFINE l == Here(r)
           current == CQ!Current(lane[l], taskGen[r][l])
           L == IF current THEN {l} ELSE {}
           st == IF current THEN [lane EXCEPT ![l] = CQ!Completed(@, r)] ELSE lane
           ph == [phase EXCEPT ![r] = IF level[r] = 1 THEN "done" ELSE "closing"]
<1>1. /\ phase[r] = "closing" /\ Drain(L, st, ph) /\ level' = [level EXCEPT ![r] = @ - 1]
      /\ work' = work /\ outcome' = outcome /\ givenUp' = givenUp /\ ahead' = ahead
  BY DEF Complete
<1>2. Leaves(r, l, L, st, ph)
  BY <1>1 DEF Leaves
<1> HIDE DEF st, ph, l, L, current
<1>3. /\ Sound(st, ph, level', taskGen, work, outcome, givenUp)
      /\ Left(r, l, L, st, ph)
  BY <1>2, CompleteReady
<1>4. L \in SUBSET Lanes
  BY <1>3 DEF Left
<1>5. Answered(r, work, outcome)
  BY <1>1 DEF Order, Lined, Closed
<1>6. Carries(st, ph, level', work, outcome, givenUp)
  <2>1. \A m \in Lanes : st[m].queue = lane[m].queue
    BY <1>3 DEF Left
  <2>2. ASSUME NEW q \in Runs, ph[q] = "queued"
        PROVE  /\ phase[q] = "queued" /\ level'[q] = level[q]
               /\ st[Path(q)[level'[q]]].queue = lane[Path(q)[level'[q]]].queue
    <3>1. q # r /\ phase[q] = "queued" /\ level'[q] = level[q]
      BY <1>3, <2>2 DEF Left
    <3>2. Path(q)[level'[q]] \in Lanes
      BY <3>1, Paths DEF IInv, Sound, Placed
    <3> QED BY <2>1, <3>1, <3>2
  <2>3. Closed(ph, work, outcome)
    <3>1. \A q \in Runs \ {r} : ph[q] = phase[q]
      BY <1>3 DEF Left
    <3> QED BY <1>5, <3>1 DEF Order, Lined, Closed
  <2>4. \A q \in Runs : Holds(q, SessionOf[q], ph, level') => Holds(q, SessionOf[q], phase, level)
    BY <1>3, Paths DEF Left, Lanes
  <2>5. \A s \in Sessions : \A q \in lane[s].active : q \in st[s].active \/ Answered(q, work, outcome)
    BY <1>3, <1>5 DEF Left, Lanes
  <2> QED BY <2>1, <2>2, <2>3, <2>4, <2>5 DEF Carries
<1>7. Lined(st, ph, level', work, outcome, givenUp, ahead)
  BY <1>6, CarriesLined
<1>8. Lined(lane', phase', level', work, outcome, givenUp, ahead)
  BY <1>1, <1>3, <1>4, <1>7, DrainLined
<1> QED BY <1>1, <1>8 DEF Order
(* What an interrupt drops from a session's queue is answered. *)
LEMMA InterruptOrder ==
    ASSUME IInv, Order, NEW s \in Sessions, Interrupt(s)
    PROVE  Order'
<1> DEFINE dropped == {r \in Runs : \E i \in DOMAIN lane[s].queue : lane[s].queue[i] = r}
<1>1. /\ lane' = [lane EXCEPT ![s] = CQ!Cleared(@)]
      /\ phase' = [r \in Runs |-> IF r \notin dropped THEN phase[r]
                                  ELSE IF level[r] = 1 THEN "done" ELSE "closing"]
      /\ level' = [r \in Runs |-> IF r \in dropped THEN level[r] - 1 ELSE level[r]]
      /\ outcome' = [r \in Runs |-> IF r \in dropped THEN "cleared" ELSE outcome[r]]
      /\ work' = work /\ givenUp' = givenUp /\ ahead' = ahead
  BY DEF Interrupt
<1>2. /\ Typed(lane, phase, level, taskGen) /\ Placed(phase, level, work, outcome, givenUp)
      /\ Queues(lane, phase, level)
  BY DEF IInv, Sound
<1>3. s \in Lanes /\ lane[s] \in CQ!LaneState /\ lane \in [Lanes -> CQ!LaneState]
      /\ DOMAIN lane[s].queue = 1 .. Len(lane[s].queue)
  BY <1>2 DEF Lanes, Typed, CQ!LaneState
<1>4. \A r \in dropped : r \in Runs /\ phase[r] = "queued" /\ level[r] > 0 /\ Path(r)[level[r]] = s
  BY <1>2, <1>3 DEF Queues
<1>5. \A r \in Runs : phase[r] = "queued" /\ Path(r)[level[r]] = s => r \in dropped
  BY <1>3 DEF Order, Lined, InQueue
<1> HIDE DEF dropped
<1>6. /\ lane'[s].queue = <<>>
      /\ \A l \in Lanes \ {s} : lane'[l] = lane[l]
      /\ \A l \in Lanes : lane'[l].active = lane[l].active
  BY <1>1, <1>3, ClearedLane
<1>7. Carries(lane', phase', level', work, outcome', givenUp)
  <2>1. \A l \in Lanes : lane'[l].queue = lane[l].queue \/ Len(lane'[l].queue) = 0
    <3>1. Len(<<>>) = 0
      OBVIOUS
    <3> QED BY <1>6, <3>1
  <2>2. ASSUME NEW r \in Runs, phase'[r] = "queued"
        PROVE  /\ phase[r] = "queued" /\ level'[r] = level[r]
               /\ lane'[Path(r)[level'[r]]].queue = lane[Path(r)[level'[r]]].queue
    <3>1. r \notin dropped /\ phase[r] = "queued" /\ level'[r] = level[r]
      BY <1>1, <2>2
    <3>2. Path(r)[level[r]] \in Lanes /\ Path(r)[level[r]] # s
      BY <1>2, <1>5, <3>1, Paths DEF Placed
    <3> QED BY <1>6, <3>1, <3>2
  <2>3. \A r \in Runs : Answered(r, work, outcome) => Answered(r, work, outcome')
    BY <1>1 DEF Answered
  <2>4. Closed(phase', work, outcome')
    BY <1>1 DEF Order, Lined, Closed, Answered
  <2>5. ASSUME NEW r \in Runs, Holds(r, SessionOf[r], phase', level')
        PROVE  Holds(r, SessionOf[r], phase, level)
    <3>1. CASE r \in dropped
      <4>1. level[r] \in Nat /\ level'[r] = level[r] - 1
        BY <1>1, <1>2, <3>1 DEF Typed
      <4>2. \A k \in 1 .. level'[r] : k \in 1 .. level[r] /\ k # level[r]
        BY <4>1
      <4> QED BY <2>5, <4>2 DEF Holds
    <3>2. CASE r \notin dropped
      BY <1>1, <2>5, <3>2 DEF Holds
    <3> QED BY <3>1, <3>2
  <2>6. \A t \in Sessions : \A q \in lane[t].active : q \in lane'[t].active
    BY <1>6 DEF Lanes
  <2> QED BY <2>1, <2>2, <2>3, <2>4, <2>5, <2>6 DEF Carries
<1>8. Lined(lane', phase', level', work, outcome', givenUp, ahead)
  BY <1>7, CarriesLined
<1> QED BY <1>1, <1>8 DEF Order

(* Lanes that keep their queues, drained. *)
LEMMA KeptQueues ==
    ASSUME IInv, Order, NEW L \in SUBSET Lanes, NEW st,
           \A l \in Lanes : st[l].queue = lane[l].queue,
           \A s \in Sessions : \A q \in lane[s].active : q \in st[s].active \/ q \in givenUp',
           givenUp \subseteq givenUp', Sound(st, phase, level, taskGen, work, outcome, givenUp'),
           Drain(L, st, phase), UNCHANGED <<level, work, outcome, ahead>>
    PROVE  Order'
<1>1. level' = level /\ work' = work /\ outcome' = outcome /\ ahead' = ahead
  OBVIOUS
<1>2. Carries(st, phase, level, work, outcome, givenUp')
  <2>1. Closed(phase, work, outcome)
    BY DEF Order, Lined
  <2>2. \A r \in Runs : phase[r] = "queued" => Path(r)[level[r]] \in Lanes
    BY Paths DEF IInv, Sound, Placed
  <2> QED BY <2>1, <2>2 DEF Carries
<1>3. Lined(st, phase, level, work, outcome, givenUp', ahead)
  BY <1>2, CarriesLined
<1>4. Lined(lane', phase', level, work, outcome, givenUp', ahead)
  BY <1>3, DrainLined
<1> QED BY <1>1, <1>4 DEF Order

LEMMA ResetOrder ==
    ASSUME IInv, Order, NEW R \in SUBSET Lanes, NEW st, Resets(R, st),
           Drain(R, st, phase), UNCHANGED <<level, work, outcome, ahead>>
    PROVE  Order'
<1>1. Sound(st, phase, level, taskGen, work, outcome, givenUp') /\ WereReset(R, st)
  BY ResetReady
<1>2. givenUp' = givenUp \union UNION {lane[s].active : s \in R \cap Sessions}
  BY DEF Resets
<1>3. \A s \in Sessions : \A q \in lane[s].active : q \in st[s].active \/ q \in givenUp'
  <2> SUFFICES ASSUME NEW s \in Sessions, NEW q \in lane[s].active
               PROVE  q \in st[s].active \/ q \in givenUp'
    OBVIOUS
  <2>1. CASE s \in R
    BY <1>2, <2>1
  <2>2. CASE s \notin R
    <3>1. st[s] = lane[s]
      BY <1>1, <2>2 DEF Lanes, WereReset
    <3> QED BY <3>1
  <2> QED BY <2>1, <2>2
<1>4. givenUp \subseteq givenUp'
  BY <1>2
<1>5. \A l \in Lanes : st[l].queue = lane[l].queue
  BY <1>1 DEF WereReset
<1> QED BY <1>1, <1>3, <1>4, <1>5, KeptQueues

LEMMA RecoverOrder ==
    ASSUME IInv, Order, NEW s \in Sessions, Recover(s)
    PROVE  Order'
<1> DEFINE st == [l \in Lanes |-> IF l \in {s} THEN CQ!Reset(lane[l]) ELSE lane[l]]
<1>1. /\ Drain({s}, [lane EXCEPT ![s] = CQ!Reset(@)], phase)
      /\ UNCHANGED <<level, work, outcome, ahead>>
      /\ givenUp' = givenUp \union lane[s].active
  BY DEF Recover
<1>2. {s} \in SUBSET Lanes
  BY DEF Lanes
<1>3. [lane EXCEPT ![s] = CQ!Reset(@)] = st
  BY <1>2 DEF IInv, Sound, Typed
<1>4. UNION {lane[t].active : t \in {s} \cap Sessions} = lane[s].active
  OBVIOUS
<1>5. Resets({s}, st) /\ Drain({s}, st, phase)
  BY <1>1, <1>3, <1>4 DEF Resets
<1> HIDE DEF st
<1> QED BY <1>1, <1>2, <1>5, ResetOrder

LEMMA NextIterationOrder ==
    ASSUME IInv, Order, NextIteration
    PROVE  Order'
<1> DEFINE st == [l \in Lanes |-> IF l \in Lanes THEN CQ!Reset(lane[l]) ELSE lane[l]]
<1>1. /\ Drain(Lanes, [l \in Lanes |-> CQ!Reset(lane[l])], phase)
      /\ UNCHANGED <<level, work, outcome, ahead>>
      /\ givenUp' = givenUp \union UNION {lane[s].active : s \in Sessions}
  BY DEF NextIteration
<1>2. [l \in Lanes |-> CQ!Reset(lane[l])] = st /\ Lanes \cap Sessions = Sessions
  BY DEF Lanes
<1>3. Resets(Lanes, st) /\ Drain(Lanes, st, phase)
  BY <1>1, <1>2 DEF Resets
<1> HIDE DEF st
<1> QED BY <1>1, <1>3, ResetOrder

(* The order does not depend on the widths. *)
LEMMA SuspendOrder ==
    ASSUME IInv, Order, NEW r \in Runs, Suspend(r)
    PROVE  Order'
<1>1. /\ phase' = phase /\ level' = level /\ work' = work /\ outcome' = outcome
      /\ givenUp' = givenUp /\ ahead' = ahead
  BY DEF Suspend
<1>2. Resized(lane')
  <2>1. /\ {GlobalLane(r)} \in SUBSET GlobalLanes /\ SuspendedWidths \in [GlobalLanes -> Nat]
        /\ Widens({GlobalLane(r)}, SuspendedWidths, lane')
    BY SuspendWidens
  <2> QED BY <2>1, WidensResized
<1>3. Carries(lane', phase, level, work, outcome, givenUp)
  <2>1. Closed(phase, work, outcome)
    BY DEF Order, Lined
  <2>2. \A q \in Runs : phase[q] = "queued" => Path(q)[level[q]] \in Lanes
    BY Paths DEF IInv, Sound, Placed
  <2>3. \A s \in Sessions : lane'[s].active = lane[s].active
    BY <1>2 DEF Resized, Lanes
  <2> QED BY <1>2, <2>1, <2>2, <2>3 DEF Carries, Resized
<1>4. Lined(lane', phase, level, work, outcome, givenUp, ahead)
  BY <1>3, CarriesLined
<1> QED BY <1>1, <1>4 DEF Order

LEMMA ReopenOrder ==
    ASSUME IInv, Order, ApplyConcurrency \/ \E l \in GlobalLanes : AutoResume(l)
    PROVE  Order'
<1>1. PICK L \in SUBSET GlobalLanes : \E st : Widens(L, Width, st) /\ Drain(L, st, phase)
  BY ReopenWidens
<1>2. PICK st : Widens(L, Width, st) /\ Drain(L, st, phase)
  BY <1>1
<1>3. UNCHANGED <<level, work, outcome, givenUp, ahead>>
  BY ReopenWidens
<1>4. Width \in [GlobalLanes -> Nat] /\ L \in SUBSET Lanes
  BY LanesAssumption DEF Lanes
<1>5. Resized(st)
  BY <1>2, <1>4, WidensResized
<1>6. Sound(st, phase, level, taskGen, work, outcome, givenUp)
  BY <1>5, ResizedSound
<1>7. Sound(st, phase, level, taskGen, work, outcome, givenUp') /\ givenUp \subseteq givenUp'
  BY <1>3, <1>6
<1>8. \A l \in Lanes : st[l].queue = lane[l].queue /\ st[l].active = lane[l].active
  BY <1>5 DEF Resized
<1>9. \A s \in Sessions : \A q \in lane[s].active : q \in st[s].active \/ q \in givenUp'
  BY <1>8 DEF Lanes
<1> QED BY <1>2, <1>3, <1>4, <1>7, <1>8, <1>9, KeptQueues

(* The steps of the restart and of an abort touch no lane. *)
LEMMA QuietOrder ==
    ASSUME Order, UNCHANGED <<lane, level, phase, work, outcome, givenUp, ahead>>
    PROVE  Order'
BY DEF Order

LEMMA OrderStep ==
    ASSUME IInv, Rest, Order, [Next]_vars
    PROVE  Order'
<1>0. ahead \in [Runs -> SUBSET Runs]
  BY DEF Rest
<1>1. ASSUME NEW r \in Runs, Accept(r) PROVE Order'
  BY <1>0, <1>1, AcceptOrder
<1>2. ASSUME NEW r \in Runs, Refuse(r) \/ BeginWork(r) \/ WorkEnds(r) \/ LaneTimeout(r) PROVE Order'
  BY <1>2, RunOrder
<1>3. ASSUME NEW r \in Runs, BeginNested(r) PROVE Order'
  BY <1>0, <1>3, NestedOrder
<1>4. ASSUME NEW r \in Runs, Complete(r) PROVE Order'
  BY <1>4, CompleteOrder
<1>5. ASSUME NEW r \in Runs, RecoverByAbort(r) PROVE Order'
  BY <1>5, QuietOrder DEF RecoverByAbort
<1>6. ASSUME NEW r \in Runs, Suspend(r) PROVE Order'
  BY <1>6, SuspendOrder
<1>7. ASSUME NEW s \in Sessions, Interrupt(s) \/ Recover(s) PROVE Order'
  BY <1>7, InterruptOrder, RecoverOrder
<1>8. CASE ApplyConcurrency \/ \E l \in GlobalLanes : AutoResume(l)
  BY <1>8, ReopenOrder
<1>9. CASE BeginRestart \/ DrainCompletes \/ DrainExpires
  BY <1>9, QuietOrder DEF BeginRestart, DrainCompletes, DrainExpires
<1>10. CASE NextIteration
  BY <1>10, NextIterationOrder
<1>11. CASE UNCHANGED vars
  BY <1>11, QuietOrder DEF vars
<1> QED BY <1>1, <1>2, <1>3, <1>4, <1>5, <1>6, <1>7, <1>8, <1>9, <1>10, <1>11
        DEF Next, RunStep, GatewayStep

LEMMA InitOrder ==
    ASSUME Init
    PROVE  Order
<1>1. \A l \in Lanes : Len(lane[l].queue) = 0
  BY DEF Init, CQ!EmptyLane
<1>2. \A r \in Runs : /\ phase[r] = "new" /\ ahead[r] = {} /\ SessionOf[r] \in Lanes
  BY Paths DEF Init, Lanes
<1> QED BY <1>1, <1>2 DEF Order, Lined, Sorted, InQueue, Closed, Ahead

(* An attempt begins when its run holds the session slot, or has lost it.    *)
LEMMA BeginsInOrder ==
    ASSUME IInv, Rest, Order, [Next]_vars, NEW r \in Runs,
           work[r] = "idle", work'[r] = "working", NEW q \in ahead[r]
    PROVE  work[q] = "over" \/ outcome[q] # "none" \/ {q, r} \intersect givenUp # {}
<1>1. BeginWork(r)
  <2>1. Placed(phase, level, work, outcome, givenUp)
    BY DEF IInv, Sound
  <2>2. work \in [Runs -> Works]
    BY <2>1 DEF Placed
  <2>3. ASSUME NEW p \in Runs, BeginWork(p) PROVE BeginWork(r)
    BY <2>2, <2>3 DEF BeginWork
  <2>4. ASSUME NEW p \in Runs, WorkEnds(p) PROVE FALSE
    BY <2>2, <2>4 DEF WorkEnds
  <2>5. \/ \E p \in Runs : BeginWork(p) \/ WorkEnds(p)
        \/ work' = work
    BY DEF Next, RunStep, GatewayStep, Accept, Refuse, BeginNested, Complete, LaneTimeout,
           RecoverByAbort, Suspend, Interrupt, Recover, AutoResume, ApplyConcurrency,
           BeginRestart, DrainCompletes, DrainExpires, NextIteration, vars
  <2> QED BY <2>3, <2>4, <2>5
<1>2. level[r] = Depth(r)
  BY <1>1 DEF BeginWork, Depth
<1>3. Holds(r, SessionOf[r], phase, level)
  <2>1. /\ Depth(r) - 1 \in 1 .. level[r] /\ Path(r)[Depth(r) - 1] = SessionOf[r]
        /\ Depth(r) - 1 # level[r]
    BY <1>2, Paths
  <2> QED BY <2>1 DEF Holds
<1> QED BY <1>3 DEF Order, Lined, Ahead, Answered

(* Turns keep their order through the session lane and the global one, for   *)
(* any priorities: an attempt begins only after those before it in its       *)
(* session had their turn, were answered, or lost their slot.                *)
THEOREM TurnsKeepOrder == Spec => TurnsInOrder
<1>1. Init => Rest /\ Order
  BY InitOrder DEF Init, Rest
<1>2. IInv /\ Rest /\ Order /\ [Next]_vars => Rest' /\ Order'
  BY RestStep, OrderStep
<1>3. IInv /\ Rest /\ Order /\ [Next]_vars =>
         [\A r \in Runs : work[r] = "idle" /\ work'[r] = "working" =>
             \A q \in ahead[r] : \/ work[q] = "over" \/ outcome[q] # "none"
                                 \/ {q, r} \intersect givenUp # {}]_vars
  BY BeginsInOrder
<1> QED BY <1>1, <1>2, <1>3, Invariance, PTL DEF Spec, TurnsInOrder
=============================================================================
