------------------------ MODULE FollowupQueue_proofs ------------------------
(***************************************************************************)
(* Proofs about the followup queue, for every set of messages and runs,  *)
(* of authors and routes, every cap and drop policy, and every number of    *)
(* foreground runs, failures, clears and forgotten ids.                     *)
(***************************************************************************)
EXTENDS FollowupQueue, FiniteSetTheorems, SequenceTheorems, TLAPS

(* What the rounds of loop i are still to run, as it saw it in the queue. *)
Plan(i) == drain[i].batch \o drain[i].rest
UnderWay(d) == d.pc \in {"admit", "running"}
Resting(d) == ~UnderWay(d) /\ d.batch = <<>> /\ d.rest = <<>> /\ d.covers = {}

(* Queues that were cleared under their drain are still taken: one for each  *)
(* clear at most, so that there is an object left for the next queue.        *)
Orphans == {i \in Instances \ {current} : drain[i].pc # "off"}
Room ==
    /\ used \in [foreground : Nat, failures : Nat, clears : 0 .. MaxClears]
    /\ Cardinality(Orphans) <= used.clears

(* Only the queue in the map holds messages. *)
Loose == \A i \in Instances : i # current => queue[i].items = <<>> /\ queue[i].dropped = {}

(* A run is accepted once, and what is queued, planned or was run was        *)
(* accepted.                                                                 *)
Injective(acc) == \A j, k \in DOMAIN acc : acc[j] = acc[k] => j = k
Accepted ==
    /\ Injective(accepted)
    /\ \A m \in Runs : ran[m] > 0 => m \in Elements(accepted)
    /\ \A i \in Instances : Elements(queue[i].items) \subseteq Elements(accepted)
    /\ \A i \in Instances : Elements(Plan(i)) \subseteq Elements(accepted)

(* A message is planned by one loop, and waits in no other queue.            *)
Alone ==
    \A i, c \in Instances : i # c =>
        Elements(Plan(i)) \intersect (Elements(Plan(c)) \union Elements(queue[c].items)) = {}

(* What was run is neither queued nor planned. *)
Once ==
    \A m \in Runs : ran[m] # 0 =>
        ran[m] = 1 /\ \A i \in Instances : m \notin Elements(queue[i].items) \union Elements(Plan(i))

(* Queue and plan are in the order of acceptance, and what came into the     *)
(* queue after the snapshot was accepted after it.                           *)
Before(acc, a, b) == \E j, k \in DOMAIN acc : j < k /\ acc[j] = a /\ acc[k] = b
Sorted(acc, s) == \A x, y \in DOMAIN s : x < y => Before(acc, s[x], s[y])
Ordered ==
    /\ \A i \in Instances : Sorted(accepted, queue[i].items) /\ Sorted(accepted, Plan(i))
    /\ \A i, c \in Instances : \A m \in Elements(Plan(i)), n \in Elements(queue[c].items) :
          n \in Elements(Plan(i)) \/ Before(accepted, m, n)

(* A planned message that is still queued is no further back in the queue    *)
(* than in the plan; and while nothing was dropped from the queue of the map,*)
(* its front is the plan.                                                    *)
Front ==
    /\ \A i \in Instances : \A p \in DOMAIN queue[i].items, x \in DOMAIN Plan(i) :
          queue[i].items[p] = Plan(i)[x] => p <= x
    /\ \A i \in Instances : i = current /\ ~drain[i].over =>
          /\ Len(Plan(i)) <= Len(queue[i].items)
          /\ \A x \in DOMAIN Plan(i) : queue[i].items[x] = Plan(i)[x]

(* The shape of a round: a batch is as long as what is taken off after it;   *)
(* a summary runs without a batch.                                           *)
Shape ==
    \A i \in Instances :
        /\ ~UnderWay(drain[i]) => Resting(drain[i])
        /\ drain[i].batch # <<>> => drain[i].take = Len(drain[i].batch)
        /\ drain[i].batch = <<>> => drain[i].rest = <<>>
        /\ UnderWay(drain[i]) /\ drain[i].batch = <<>> /\ drain[i].take # 0 => drain[i].covers # {}

Core == Loose /\ Accepted /\ Alone /\ Once /\ Ordered /\ Front /\ Shape /\ NothingLost
IInv == TypeOK /\ Room /\ Core

(* The delivery of what was accepted is over.                                *)
Delivered == \A d \in Elements(accepted) : delivery[d] = "queued"

(* Of the runs of one message that have its id, one was accepted for each    *)
(* time that the cache has forgotten it, and one more while it remembers.    *)
Copies(m) == {d \in Elements(accepted) \ Anonymous : MessageOf[d] = m}
Counted ==
    \A m \in Messages :
        /\ IsFiniteSet(Copies(m))
        /\ Cardinality(Copies(m)) <= forgotten[m] + (IF m \in recent THEN 1 ELSE 0)

----------------------------------------------------------------------------
(* Sequences.                                                                *)

(* What is left of a sequence when n items are taken off its front. *)
LEMMA TakenOff ==
    ASSUME NEW S, NEW s \in Seq(S), NEW n \in Nat
    PROVE  LET t == SubSeq(s, n + 1, Len(s)) IN
           /\ t \in Seq(S)
           /\ Elements(t) \subseteq Elements(s)
           /\ \A p \in DOMAIN t : p + n \in DOMAIN s /\ t[p] = s[p + n]
           /\ \A q \in DOMAIN s : q > n => q - n \in DOMAIN t /\ t[q - n] = s[q]
BY DEF Elements

(* ... and its front. *)
LEMMA TakenFront ==
    ASSUME NEW S, NEW s \in Seq(S), NEW n \in 0 .. Len(s)
    PROVE  LET t == SubSeq(s, 1, n) IN
           /\ t \in Seq(S) /\ Len(t) = n
           /\ Elements(t) \subseteq Elements(s)
           /\ \A p \in DOMAIN t : p \in 1 .. n /\ p \in DOMAIN s /\ t[p] = s[p]
BY DEF Elements

LEMMA Joined ==
    ASSUME NEW S, NEW s \in Seq(S), NEW t \in Seq(S)
    PROVE  /\ s \o t \in Seq(S)
           /\ Len(s \o t) = Len(s) + Len(t)
           /\ DOMAIN (s \o t) = 1 .. Len(s) + Len(t)
BY ConcatProperties

LEMMA JoinedAt ==
    ASSUME NEW S, NEW s \in Seq(S), NEW t \in Seq(S), NEW p \in DOMAIN (s \o t)
    PROVE  (s \o t)[p] = IF p <= Len(s) THEN s[p] ELSE t[p - Len(s)]
<1>1. p \in 1 .. Len(s) + Len(t)
  BY Joined
<1> QED
  BY <1>1, ConcatProperties

LEMMA JoinedElements ==
    ASSUME NEW S, NEW s \in Seq(S), NEW t \in Seq(S)
    PROVE  Elements(s \o t) = Elements(s) \union Elements(t)
<1> DEFINE u == s \o t
<1>1. DOMAIN u = 1 .. Len(s) + Len(t) /\ Len(s) \in Nat /\ Len(t) \in Nat
  BY Joined
<1>2. \A p \in DOMAIN u : u[p] = IF p <= Len(s) THEN s[p] ELSE t[p - Len(s)]
  BY JoinedAt
<1> HIDE DEF u
<1>3. ASSUME NEW m \in Elements(u) PROVE m \in Elements(s) \union Elements(t)
  <2>1. PICK p \in DOMAIN u : m = u[p]
    BY DEF Elements
  <2>2. CASE p <= Len(s)
    <3>1. p \in DOMAIN s /\ m = s[p]
      BY <1>1, <1>2, <2>1, <2>2
    <3> QED
      BY <3>1 DEF Elements
  <2>3. CASE p > Len(s)
    <3>1. p - Len(s) \in DOMAIN t /\ m = t[p - Len(s)]
      BY <1>1, <1>2, <2>1, <2>3
    <3> QED
      BY <3>1 DEF Elements
  <2> QED
    BY <1>1, <2>2, <2>3
<1>4. ASSUME NEW m \in Elements(s) PROVE m \in Elements(u)
  <2>1. PICK p \in DOMAIN s : m = s[p]
    BY DEF Elements
  <2>2. p \in DOMAIN u /\ u[p] = m
    BY <1>1, <1>2, <2>1
  <2> QED
    BY <2>2 DEF Elements
<1>5. ASSUME NEW m \in Elements(t) PROVE m \in Elements(u)
  <2>1. PICK p \in DOMAIN t : m = t[p]
    BY DEF Elements
  <2>2. p + Len(s) \in DOMAIN u /\ u[p + Len(s)] = m
    BY <1>1, <1>2, <2>1
  <2> QED
    BY <2>2 DEF Elements
<1> QED
  BY <1>3, <1>4, <1>5 DEF u

LEMMA Split ==
    ASSUME NEW S, NEW s \in Seq(S), NEW n \in 0 .. Len(s)
    PROVE  SubSeq(s, 1, n) \o SubSeq(s, n + 1, Len(s)) = s
<1> DEFINE a == SubSeq(s, 1, n)
           b == SubSeq(s, n + 1, Len(s))
<1>1. a \in Seq(S) /\ Len(a) = n /\ \A p \in DOMAIN a : a[p] = s[p]
  BY TakenFront
<1>2. b \in Seq(S) /\ Len(b) = Len(s) - n /\ \A p \in DOMAIN b : b[p] = s[p + n]
  BY TakenOff
<1> HIDE DEF a, b
<1>3. Len(a \o b) = Len(s) /\ a \o b \in Seq(S) /\ DOMAIN (a \o b) = 1 .. Len(s)
  <2>1. n + (Len(s) - n) = Len(s)
    OBVIOUS
  <2> QED
    BY <1>1, <1>2, <2>1, Joined
<1>4. ASSUME NEW p \in 1 .. Len(s) PROVE (a \o b)[p] = s[p]
  <2>1. (a \o b)[p] = IF p <= n THEN a[p] ELSE b[p - n]
    BY <1>1, <1>2, <1>3, JoinedAt
  <2>2. CASE p <= n
    BY <1>1, <2>1, <2>2
  <2>3. CASE ~(p <= n)
    <3>1. p - n \in DOMAIN b
      BY <1>2, <2>3
    <3>2. b[p - n] = s[(p - n) + n] /\ (p - n) + n = p
      BY <1>2, <3>1
    <3> QED
      BY <2>1, <2>3, <3>2
  <2> QED
    BY <2>2, <2>3
<1>5. a \o b = s
  BY <1>3, <1>4, SeqEqual
<1> QED
  BY <1>5 DEF a, b

LEMMA Appended ==
    ASSUME NEW S, NEW s \in Seq(S), NEW m \in S
    PROVE  /\ Append(s, m) \in Seq(S)
           /\ Len(Append(s, m)) = Len(s) + 1
           /\ Append(s, m)[Len(s) + 1] = m
           /\ DOMAIN Append(s, m) = DOMAIN s \union {Len(s) + 1}
           /\ \A p \in DOMAIN s : p \in DOMAIN Append(s, m) /\ Append(s, m)[p] = s[p] /\ p < Len(s) + 1
BY AppendProperties

LEMMA AppendedElements ==
    ASSUME NEW S, NEW s \in Seq(S), NEW m \in S
    PROVE  Elements(Append(s, m)) = Elements(s) \union {m}
<1> DEFINE u == Append(s, m)
<1>1. /\ u[Len(s) + 1] = m
      /\ DOMAIN u = DOMAIN s \union {Len(s) + 1}
      /\ \A p \in DOMAIN s : p \in DOMAIN u /\ u[p] = s[p]
  BY Appended
<1> HIDE DEF u
<1> QED
  <2>1. Elements(u) = Elements(s) \union {m}
    BY <1>1 DEF Elements
  <2> QED
    BY <2>1 DEF u

LEMMA Nothing ==
    ASSUME NEW S, NEW s \in Seq(S)
    PROVE  /\ Elements(s) = {} <=> s = <<>>
           /\ s \o <<>> = s /\ <<>> \o s = s
           /\ Elements(s) \subseteq S
           /\ \A p \in DOMAIN s : p \in Nat \ {0} /\ s[p] \in S /\ s[p] \in Elements(s)
<1>1. Elements(s) = {} <=> s = <<>>
  <2>1. CASE s = <<>>
    BY <2>1 DEF Elements
  <2>2. CASE s # <<>>
    <3>1. 1 \in DOMAIN s
      BY <2>2
    <3> QED
      BY <2>2, <3>1 DEF Elements
  <2> QED
    BY <2>1, <2>2
<1>2. s \o <<>> = s /\ <<>> \o s = s
  BY ConcatEmptySeq
<1>3. \A p \in DOMAIN s : p \in Nat \ {0} /\ s[p] \in S /\ s[p] \in Elements(s)
  BY DEF Elements
<1> QED
  BY <1>1, <1>2, <1>3 DEF Elements

----------------------------------------------------------------------------
(* The helpers of the drain loop.                                            *)

Coupled(qs, ds) == \A i \in Instances : qs[i].draining <=> ds[i].pc # "off"

(* s is qs and ds after loops were ended, resumed or scheduled: the messages *)
(* are where they were, a loop keeps its round or rests.                     *)
Quieted(qs, ds, cur, s) ==
    /\ s.queue \in [Instances -> QueueState] /\ s.drain \in [Instances -> DrainState]
    /\ s.current \in {cur, 0}
    /\ Coupled(s.queue, s.drain)
    /\ \A i \in Instances : s.queue[i].items = qs[i].items /\ s.queue[i].dropped = qs[i].dropped
    /\ \A i \in Instances : s.drain[i] = ds[i] \/ Resting(s.drain[i])
    /\ s.current # cur => qs[cur].items = <<>> /\ qs[cur].dropped = {} /\ s.drain[cur].pc = "off"
    /\ \A i \in Instances : i # cur /\ s.drain[i].pc # "off" => ds[i].pc # "off"

LEMMA Objects == 0 \notin Instances /\ IsFiniteSet(Instances)
                 /\ Cardinality(Instances) = MaxClears + 1 /\ MaxClears \in Nat
<1>1. MaxClears \in Nat
  BY FollowupAssumption
<1>2. IsFiniteSet(1 .. MaxClears + 1) /\ Cardinality(1 .. MaxClears + 1) = MaxClears + 1
  <2>1. MaxClears + 1 \in Nat
    BY <1>1
  <2>2. 1 \in Int /\ MaxClears + 1 \in Int /\ 1 <= MaxClears + 1 /\ MaxClears + 1 - 1 + 1 = MaxClears + 1
    BY <1>1
  <2> QED
    BY <2>2, FS_Interval
<1> QED
  BY <1>1, <1>2 DEF Instances

LEMMA OffType == Off \in DrainState /\ [Off EXCEPT !.pc = "debounce"] \in DrainState
                 /\ Resting(Off) /\ Resting([Off EXCEPT !.pc = "debounce"])
<1>1. <<>> \in Seq(Runs) /\ {} \in SUBSET Runs /\ 0 \in Nat
  OBVIOUS
<1>2. Off \in DrainState
  BY <1>1 DEF Off, DrainState
<1>3. [Off EXCEPT !.pc = "debounce"] \in DrainState
  BY <1>1 DEF Off, DrainState
<1>4. Resting(Off) /\ Resting([Off EXCEPT !.pc = "debounce"])
  BY DEF Off, Resting, UnderWay
<1> QED
  BY <1>2, <1>3, <1>4

(* scheduleFollowupDrain *)
LEMMA KickQuiet ==
    ASSUME NEW qs \in [Instances -> QueueState], NEW ds \in [Instances -> DrainState],
           NEW cur \in Instances \union {0}, Coupled(qs, ds)
    PROVE  Quieted(qs, ds, cur, Kick(qs, ds, cur))
<1>1. CASE cur = 0 \/ (cur # 0 /\ qs[cur].draining)
  BY <1>1 DEF Kick, Quieted
<1>2. CASE ~(cur = 0 \/ (cur # 0 /\ qs[cur].draining)) /\ Pending(qs[cur])
  <2> DEFINE q1 == [qs EXCEPT ![cur].draining = TRUE, ![cur].forced = FALSE]
             d1 == [ds EXCEPT ![cur] = [Off EXCEPT !.pc = "debounce"]]
  <2>1. cur \in Instances
    BY <1>2
  <2>2. q1 \in [Instances -> QueueState]
        /\ \A i \in Instances : /\ q1[i].items = qs[i].items /\ q1[i].dropped = qs[i].dropped
                                /\ q1[i].draining = IF i = cur THEN TRUE ELSE qs[i].draining
    BY <2>1 DEF QueueState
  <2>3. d1 \in [Instances -> DrainState]
        /\ \A i \in Instances : /\ i # cur => d1[i] = ds[i]
                                /\ i = cur => d1[i].pc = "debounce" /\ Resting(d1[i])
    BY <2>1, OffType DEF DrainState, Off
  <2>4. Kick(qs, ds, cur) = [queue |-> q1, drain |-> d1, current |-> cur]
    BY <1>2 DEF Kick
  <2> HIDE DEF q1, d1
  <2>5. Coupled(q1, d1)
    BY <2>2, <2>3 DEF Coupled
  <2>6. Quieted(qs, ds, cur, [queue |-> q1, drain |-> d1, current |-> cur])
    BY <2>2, <2>3, <2>5 DEF Quieted
  <2> QED
    BY <2>4, <2>6
<1>3. CASE ~(cur = 0 \/ (cur # 0 /\ qs[cur].draining)) /\ ~Pending(qs[cur])
  <2>1. Kick(qs, ds, cur) = [queue |-> qs, drain |-> ds, current |-> 0]
    BY <1>3 DEF Kick
  <2>2. cur \in Instances /\ ds[cur].pc = "off" /\ qs[cur].items = <<>> /\ qs[cur].dropped = {}
    BY <1>3 DEF Coupled, Pending
  <2> QED
    BY <2>1, <2>2 DEF Quieted
<1> QED
  BY <1>1, <1>2, <1>3

(* The finally clause. *)
LEMMA FinallyQuiet ==
    ASSUME NEW qs \in [Instances -> QueueState], drain \in [Instances -> DrainState],
           current \in Instances \union {0}, NEW i \in Instances, Coupled(qs, drain),
           drain[i].pc # "off"
    PROVE  /\ Quieted(qs, drain, current, Finally(qs, i))
           /\ Resting(Finally(qs, i).drain[i])
<1> DEFINE off == [qs EXCEPT ![i].draining = FALSE]
           ds == [drain EXCEPT ![i] = Off]
<1>1. off \in [Instances -> QueueState]
      /\ \A j \in Instances : /\ off[j].items = qs[j].items /\ off[j].dropped = qs[j].dropped
                              /\ off[j].draining = IF j = i THEN FALSE ELSE qs[j].draining
  BY DEF QueueState
<1>2. ds \in [Instances -> DrainState] /\ ds[i] = Off
      /\ \A j \in Instances : j # i => ds[j] = drain[j]
  BY OffType
<1>3. Finally(qs, i) = IF Pending(off[i]) THEN Kick(off, ds, current)
                       ELSE [queue |-> off, drain |-> ds, current |-> IF current = i THEN 0 ELSE current]
  BY DEF Finally
<1> HIDE DEF off, ds
<1>4. Coupled(off, ds)
  <2> SUFFICES ASSUME NEW j \in Instances PROVE off[j].draining <=> ds[j].pc # "off"
    BY DEF Coupled
  <2>1. CASE j = i
    <3>1. off[j].draining = FALSE
      BY <2>1, <1>1
    <3>2. ds[j].pc = "off"
      BY <2>1, <1>2 DEF Off
    <3> QED
      BY <3>1, <3>2
  <2>2. CASE j # i
    <3>1. off[j].draining = qs[j].draining /\ ds[j] = drain[j]
      BY <2>2, <1>1, <1>2
    <3>2. qs[j].draining <=> drain[j].pc # "off"
      BY DEF Coupled
    <3> QED
      BY <3>1, <3>2
  <2> QED
    BY <2>1, <2>2
<1>5. CASE Pending(off[i])
  <2> DEFINE s == Kick(off, ds, current)
  <2>1. Quieted(off, ds, current, s)
    BY <1>1, <1>2, <1>4, KickQuiet
  <2>2. Finally(qs, i) = s
    BY <1>3, <1>5
  <2> HIDE DEF s
  <2>3. Resting(s.drain[i])
    BY <2>1, <1>2, OffType DEF Quieted
  <2>4. \A j \in Instances : s.drain[j] = drain[j] \/ Resting(s.drain[j])
    BY <2>1, <2>3, <1>2 DEF Quieted
  <2>5. \A j \in Instances : j # current /\ s.drain[j].pc # "off" => drain[j].pc # "off"
    BY <2>1, <1>2 DEF Quieted, Off
  <2>6. s.current # current => qs[current].items = <<>> /\ qs[current].dropped = {} /\ s.drain[current].pc = "off"
    BY <2>1, <1>1 DEF Quieted
  <2>7. \A j \in Instances : s.queue[j].items = qs[j].items /\ s.queue[j].dropped = qs[j].dropped
    BY <2>1, <1>1 DEF Quieted
  <2> QED
    BY <2>1, <2>2, <2>3, <2>4, <2>5, <2>6, <2>7 DEF Quieted
<1>6. CASE ~Pending(off[i])
  <2> DEFINE s == [queue |-> off, drain |-> ds, current |-> IF current = i THEN 0 ELSE current]
  <2>1. Finally(qs, i) = s
    BY <1>3, <1>6
  <2>2. qs[i].items = <<>> /\ qs[i].dropped = {}
    BY <1>1, <1>6 DEF Pending
  <2>3. Resting(ds[i]) /\ ds[i].pc = "off"
    BY <1>2, OffType DEF Off
  <2>4. Quieted(qs, drain, current, s)
    BY <1>1, <1>2, <1>4, <2>2, <2>3 DEF Quieted
  <2> QED
    BY <2>1, <2>3, <2>4
<1> QED
  BY <1>5, <1>6

(* The while condition. *)
LEMMA LoopQuiet ==
    ASSUME NEW qs \in [Instances -> QueueState], drain \in [Instances -> DrainState],
           current \in Instances \union {0}, NEW i \in Instances, Coupled(qs, drain),
           drain[i].pc # "off"
    PROVE  /\ Quieted(qs, drain, current, Loop(qs, i))
           /\ Resting(Loop(qs, i).drain[i])
<1>1. CASE Pending(qs[i])
  <2> DEFINE ds == [drain EXCEPT ![i] = [Off EXCEPT !.pc = "debounce"]]
  <2>1. Loop(qs, i) = [queue |-> qs, drain |-> ds, current |-> current]
    BY <1>1 DEF Loop
  <2>2. ds \in [Instances -> DrainState] /\ Resting(ds[i]) /\ ds[i].pc # "off"
        /\ \A j \in Instances : j # i => ds[j] = drain[j]
    BY OffType DEF Off
  <2> HIDE DEF ds
  <2>3. Coupled(qs, ds)
    BY <2>2 DEF Coupled
  <2> QED
    BY <2>1, <2>2, <2>3 DEF Quieted
<1>2. CASE ~Pending(qs[i])
  BY <1>2, FinallyQuiet DEF Loop
<1> QED
  BY <1>1, <1>2

(* r is a round made of the snapshot items: it plans a front of it, in order.*)
RoundOf(r, items) ==
    /\ r \in DrainState /\ r.pc = "admit" /\ r.over = FALSE
    /\ Len(r.batch \o r.rest) <= Len(items)
    /\ \A x \in DOMAIN (r.batch \o r.rest) : (r.batch \o r.rest)[x] = items[x]
    /\ r.batch # <<>> => r.take = Len(r.batch)
    /\ r.batch = <<>> => r.rest = <<>>
    /\ r.batch = <<>> /\ r.take # 0 => r.covers # {}

LEMMA RoundType ==
    ASSUME NEW batch \in Seq(Runs), NEW take \in Nat, NEW covers \in SUBSET Runs,
           NEW rest \in Seq(Runs)
    PROVE  Round(batch, take, covers, rest) \in DrainState
BY DEF Round, Off, DrainState

(* The first stretch of one author is not empty and no longer than the whole.*)
LEMMA GroupRoundPlan ==
    ASSUME NEW items \in Seq(Runs), items # <<>>, NEW covers \in SUBSET Runs
    PROVE  LET r == GroupRound(items, covers) IN
           RoundOf(r, items) /\ r.batch \o r.rest = items /\ r.batch # <<>> /\ r.covers = covers
<1> DEFINE n == Cardinality(OneAuthor(items))
<1>1. OneAuthor(items) \subseteq 1 .. Len(items) /\ 1 \in OneAuthor(items)
  <2>1. 1 \in DOMAIN items /\ DOMAIN items = 1 .. Len(items)
    OBVIOUS
  <2>2. \A k \in 1 .. 1 : k = 1
    OBVIOUS
  <2> QED
    BY <2>1, <2>2 DEF OneAuthor
<1>2. n \in Nat /\ n <= Len(items) /\ n # 0
  <2>1. Len(items) \in Nat /\ 1 \in Int /\ Len(items) \in Int /\ 1 <= Len(items)
    BY EmptySeq
  <2>2. IsFiniteSet(1 .. Len(items)) /\ Cardinality(1 .. Len(items)) = Len(items)
    BY <2>1, FS_Interval
  <2>3. IsFiniteSet(OneAuthor(items)) /\ n <= Len(items)
    BY <1>1, <2>2, FS_Subset
  <2>4. n \in Nat
    BY <2>3, FS_CardinalityType
  <2>5. n # 0
    BY <1>1, <2>3, FS_EmptySet
  <2> QED
    BY <2>3, <2>4, <2>5
<1> DEFINE a == SubSeq(items, 1, n)
           b == SubSeq(items, n + 1, Len(items))
<1>3. GroupRound(items, covers) = Round(a, n, covers, b)
  BY DEF GroupRound
<1> HIDE DEF n
<1>4. n \in 0 .. Len(items)
  BY <1>2
<1>5. a \in Seq(Runs) /\ Len(a) = n
  BY <1>4, TakenFront
<1>6. b \in Seq(Runs)
  BY <1>2, TakenOff
<1>7. a \o b = items
  BY <1>4, Split
<1>8. a # <<>>
  BY <1>2, <1>5
<1> HIDE DEF a, b
<1> DEFINE r == Round(a, n, covers, b)
<1>9. GroupRound(items, covers) = r
  BY <1>3
<1>10. r \in DrainState
  BY <1>2, <1>5, <1>6, RoundType
<1>11. /\ r.pc = "admit" /\ r.over = FALSE /\ r.batch = a /\ r.rest = b
       /\ r.take = n /\ r.covers = covers
  BY DEF Round, Off
<1> HIDE DEF r
<1>12. Len(items) \in Nat
  OBVIOUS
<1>13. RoundOf(r, items)
  BY <1>5, <1>7, <1>8, <1>10, <1>11, <1>12 DEF RoundOf
<1> QED
  BY <1>7, <1>8, <1>9, <1>11, <1>13

LEMMA FrontRound ==
    ASSUME NEW items \in Seq(Runs), items # <<>>
    PROVE  RoundOf(Round(Next1(items), 1, {}, <<>>), items)
<1> DEFINE a == <<Head(items)>>
           r == Round(a, 1, {}, <<>>)
<1>1. Head(items) \in Runs /\ Head(items) = items[1] /\ Len(items) >= 1
  BY EmptySeq
<1>2. Next1(items) = a /\ a \in Seq(Runs) /\ <<>> \in Seq(Runs) /\ Len(a) = 1 /\ a[1] = items[1] /\ a # <<>>
  BY <1>1 DEF Next1
<1>3. a \o <<>> = a /\ DOMAIN a = {1}
  BY <1>2, ConcatEmptySeq
<1> HIDE DEF a
<1>4. Round(Next1(items), 1, {}, <<>>) = r
  BY <1>2
<1>5. r \in DrainState
  BY <1>2, RoundType
<1>6. /\ r.pc = "admit" /\ r.over = FALSE /\ r.batch = a /\ r.rest = <<>>
      /\ r.take = 1
  BY DEF Round, Off
<1> HIDE DEF r
<1>7. RoundOf(r, items)
  BY <1>1, <1>2, <1>3, <1>5, <1>6 DEF RoundOf
<1> QED
  BY <1>4, <1>7

LEMMA SummaryRound ==
    ASSUME NEW items \in Seq(Runs), NEW covers \in SUBSET Runs,
           NEW r, \/ r = Round(<<>>, 0, covers, <<>>)
                  \/ items # <<>> /\ covers # {} /\ r = CarriedBy(Head(items), covers)
    PROVE  RoundOf(r, items)
<1>1. <<>> \in Seq(Runs) /\ 0 \in Nat
  OBVIOUS
<1>2. r \in DrainState
  <2>1. items # <<>> => {Head(items)} \in SUBSET Runs
    BY EmptySeq
  <2>2. CASE r = Round(<<>>, 0, covers, <<>>)
    BY <1>1, <2>2, RoundType
  <2>3. CASE items # <<>> /\ covers # {} /\ r = CarriedBy(Head(items), covers)
    BY <1>1, <2>1, <2>3 DEF CarriedBy, Off, DrainState
  <2> QED
    BY <2>2, <2>3
<1>5. /\ r.pc = "admit" /\ r.over = FALSE /\ r.batch = <<>> /\ r.rest = <<>>
      /\ r.covers = covers
  BY DEF Round, CarriedBy, Off
<1>6. r.take # 0 => covers # {}
  BY DEF Round, Off
<1>3. <<>> \o <<>> = <<>> /\ Len(<<>>) = 0 /\ DOMAIN <<>> = {}
  OBVIOUS
<1>4. Len(items) \in Nat
  OBVIOUS
<1> QED
  BY <1>2, <1>3, <1>4, <1>5, <1>6 DEF RoundOf

LEMMA NextRoundPlan ==
    ASSUME NEW q \in QueueState
    PROVE  RoundOf(NextRound(q), q.items)
<1> DEFINE single == q.mode = "collect" /\ (Cross(q.items) \/ (q.forced /\ Len(q.items) <= 1))
<1>1. q.items \in Seq(Runs) /\ Summary(q) \in SUBSET Runs
  BY DEF QueueState, Summary
<1>2. NextRound(q) = IF q.items = <<>> THEN Round(<<>>, 0, Summary(q), <<>>)
                     ELSE IF single THEN Round(Next1(q.items), 1, {}, <<>>)
                     ELSE IF q.mode = "collect" THEN GroupRound(q.items, Summary(q))
                     ELSE IF Summary(q) # {} THEN CarriedBy(Head(q.items), Summary(q))
                     ELSE Round(Next1(q.items), 1, {}, <<>>)
  BY DEF NextRound
<1> HIDE DEF single
<1>3. CASE q.items = <<>>
  <2>1. RoundOf(Round(<<>>, 0, Summary(q), <<>>), q.items)
    BY <1>1, SummaryRound
  <2> QED
    BY <1>2, <1>3, <2>1
<1>4. CASE q.items # <<>>
  <2>1. RoundOf(Round(Next1(q.items), 1, {}, <<>>), q.items)
    BY <1>1, <1>4, FrontRound
  <2>2. RoundOf(GroupRound(q.items, Summary(q)), q.items)
    BY <1>1, <1>4, GroupRoundPlan
  <2>3. Summary(q) # {} => RoundOf(CarriedBy(Head(q.items), Summary(q)), q.items)
    BY <1>1, <1>4, SummaryRound
  <2> QED
    BY <1>2, <1>4, <2>1, <2>2, <2>3
<1> QED
  BY <1>3, <1>4

----------------------------------------------------------------------------
(* Orders of acceptance.                                                     *)

LEMMA BeforeOnce ==
    ASSUME NEW acc \in Seq(Runs), Injective(acc), NEW a, NEW b, Before(acc, a, b)
    PROVE  a # b /\ ~Before(acc, b, a)
<1>1. PICK j \in DOMAIN acc, k \in DOMAIN acc : j < k /\ acc[j] = a /\ acc[k] = b
  BY DEF Before
<1>2. \A x \in DOMAIN acc : x \in Nat
  OBVIOUS
<1>3. a # b
  BY <1>1, <1>2 DEF Injective
<1>4. ASSUME Before(acc, b, a) PROVE FALSE
  <2>1. PICK u \in DOMAIN acc, v \in DOMAIN acc : u < v /\ acc[u] = b /\ acc[v] = a
    BY <1>4 DEF Before
  <2>2. u = k /\ v = j
    BY <1>1, <2>1 DEF Injective
  <2> QED
    BY <1>1, <1>2, <2>1, <2>2
<1> QED
  BY <1>3, <1>4

(* A message that is accepted comes after those accepted before it. *)
LEMMA BeforeGrows ==
    ASSUME NEW acc \in Seq(Runs), NEW m \in Runs
    PROVE  /\ \A a, b : Before(acc, a, b) => Before(Append(acc, m), a, b)
           /\ \A a \in Elements(acc) : Before(Append(acc, m), a, m)
<1> DEFINE n == Append(acc, m)
<1>1. n[Len(acc) + 1] = m /\ DOMAIN n = DOMAIN acc \union {Len(acc) + 1}
      /\ \A p \in DOMAIN acc : p \in DOMAIN n /\ n[p] = acc[p] /\ p < Len(acc) + 1
  BY Appended
<1> HIDE DEF n
<1>2. ASSUME NEW a, NEW b, Before(acc, a, b) PROVE Before(n, a, b)
  BY <1>1, <1>2 DEF Before
<1>3. ASSUME NEW a \in Elements(acc) PROVE Before(n, a, m)
  <2>1. PICK p \in DOMAIN acc : acc[p] = a
    BY DEF Elements
  <2>2. p \in DOMAIN n /\ Len(acc) + 1 \in DOMAIN n /\ p < Len(acc) + 1 /\ n[p] = a
    BY <1>1, <2>1
  <2> QED
    BY <1>1, <2>2 DEF Before
<1> QED
  BY <1>2, <1>3 DEF n

LEMMA InjectiveGrows ==
    ASSUME NEW acc \in Seq(Runs), Injective(acc), NEW m \in Runs, m \notin Elements(acc)
    PROVE  Injective(Append(acc, m))
<1> DEFINE n == Append(acc, m)
<1>1. n[Len(acc) + 1] = m /\ DOMAIN n = DOMAIN acc \union {Len(acc) + 1}
      /\ \A p \in DOMAIN acc : p \in DOMAIN n /\ n[p] = acc[p] /\ p < Len(acc) + 1
  BY Appended
<1>2. \A p \in DOMAIN acc : acc[p] # m
  BY DEF Elements
<1> HIDE DEF n
<1>3. Injective(n)
  BY <1>1, <1>2 DEF Injective
<1> QED
  BY <1>3 DEF n

LEMMA SortedTail ==
    ASSUME NEW acc, NEW s \in Seq(Runs), Sorted(acc, s), NEW n \in Nat
    PROVE  Sorted(acc, SubSeq(s, n + 1, Len(s)))
<1> DEFINE t == SubSeq(s, n + 1, Len(s))
<1>1. t \in Seq(Runs) /\ \A p \in DOMAIN t : p + n \in DOMAIN s /\ t[p] = s[p + n]
  BY TakenOff
<1> HIDE DEF t
<1>2. ASSUME NEW x \in DOMAIN t, NEW y \in DOMAIN t, x < y PROVE Before(acc, t[x], t[y])
  <2>1. x + n < y + n
    BY <1>1, <1>2
  <2> QED
    BY <1>1, <2>1 DEF Sorted
<1> QED
  BY <1>2 DEF Sorted, t

LEMMA SortedFront ==
    ASSUME NEW acc, NEW s \in Seq(Runs), Sorted(acc, s), NEW t \in Seq(Runs),
           Len(t) <= Len(s), \A x \in DOMAIN t : t[x] = s[x]
    PROVE  Sorted(acc, t)
<1>1. \A x \in DOMAIN t : x \in DOMAIN s
  OBVIOUS
<1> QED
  BY <1>1 DEF Sorted

LEMMA SortedGrows ==
    ASSUME NEW acc \in Seq(Runs), NEW m \in Runs, NEW s, Sorted(acc, s)
    PROVE  Sorted(Append(acc, m), s)
BY BeforeGrows DEF Sorted

LEMMA SortedAppend ==
    ASSUME NEW acc \in Seq(Runs), NEW m \in Runs, NEW s \in Seq(Runs),
           Sorted(acc, s), Elements(s) \subseteq Elements(acc)
    PROVE  Sorted(Append(acc, m), Append(s, m))
<1> DEFINE n == Append(acc, m)
           t == Append(s, m)
<1>1. t[Len(s) + 1] = m /\ DOMAIN t = DOMAIN s \union {Len(s) + 1}
      /\ \A p \in DOMAIN s : p \in DOMAIN t /\ t[p] = s[p] /\ p < Len(s) + 1
  BY Appended
<1>2. Sorted(n, s)
  BY SortedGrows
<1>3. \A a \in Elements(s) : Before(n, a, m)
  BY BeforeGrows
<1> HIDE DEF n, t
<1>4. ASSUME NEW x \in DOMAIN t, NEW y \in DOMAIN t, x < y PROVE Before(n, t[x], t[y])
  <2>1. Len(s) \in Nat /\ \A p \in DOMAIN s : p \in Nat /\ p < Len(s) + 1
    BY <1>1
  <2>2. x \in DOMAIN s
    BY <1>1, <1>4, <2>1
  <2>3. t[x] = s[x] /\ t[x] \in Elements(s)
    BY <1>1, <2>2 DEF Elements
  <2>4. CASE y \in DOMAIN s
    BY <1>1, <1>2, <1>4, <2>2, <2>3, <2>4 DEF Sorted
  <2>5. CASE y = Len(s) + 1
    BY <1>1, <1>3, <2>3, <2>5
  <2> QED
    BY <1>1, <2>4, <2>5
<1> QED
  BY <1>4 DEF Sorted, n, t

----------------------------------------------------------------------------
(* What the steps do to the invariant but its types and counts.              *)

Types ==
    /\ queue \in [Instances -> QueueState] /\ drain \in [Instances -> DrainState]
    /\ current \in Instances \union {0}
    /\ accepted \in Seq(Runs) /\ ran \in [Runs -> Nat]

(* A loop keeps its round, but for its admission and a drop noticed, or      *)
(* rests.                                                                    *)
SamePlan(i) ==
    /\ drain'[i].batch = drain[i].batch /\ drain'[i].rest = drain[i].rest
    /\ drain'[i].take = drain[i].take /\ drain'[i].covers = drain[i].covers
    /\ UnderWay(drain'[i]) <=> UnderWay(drain[i])
    /\ drain[i].over => drain'[i].over
KeepsPlan(i) == SamePlan(i) \/ Resting(drain'[i])

(* The queue of the map stays, leaves it empty, or is taken in.              *)
KeepsMap ==
    /\ Types'
    /\ \A i \in Instances : i # current' => queue'[i].items = <<>> /\ queue'[i].dropped = {}
    /\ current' = current \/ current' = 0 \/ Resting(drain'[current'])

KeepsItems(i) == queue'[i].items = queue[i].items /\ queue'[i].dropped = queue[i].dropped
KeepsHistory ==
    accepted' = accepted /\ ran' = ran /\ gone' = gone /\ shoved' = shoved

Quiet ==
    /\ KeepsMap /\ KeepsHistory
    /\ \A i \in Instances : KeepsPlan(i)
    /\ \A i \in Instances : KeepsItems(i)

LEMMA PlanType ==
    ASSUME Types, NEW i \in Instances
    PROVE  /\ drain[i].batch \in Seq(Runs) /\ drain[i].rest \in Seq(Runs)
           /\ Plan(i) \in Seq(Runs)
           /\ queue[i].items \in Seq(Runs)
<1>1. drain[i] \in DrainState /\ queue[i] \in QueueState
  BY DEF Types
<1>2. drain[i].batch \in Seq(Runs) /\ drain[i].rest \in Seq(Runs) /\ queue[i].items \in Seq(Runs)
  BY <1>1 DEF DrainState, QueueState
<1>3. Plan(i) \in Seq(Runs)
  BY <1>2, Joined DEF Plan
<1> QED
  BY <1>2, <1>3

LEMMA PlanKept ==
    ASSUME NEW i \in Instances, KeepsPlan(i)
    PROVE  /\ Plan(i)' = Plan(i) \/ Plan(i)' = <<>>
           /\ Elements(Plan(i))' \subseteq Elements(Plan(i))
           /\ DOMAIN Plan(i)' \subseteq DOMAIN Plan(i)
           /\ \A x \in DOMAIN Plan(i)' : Plan(i)'[x] = Plan(i)[x]
<1>1. Plan(i)' = Plan(i) \/ Plan(i)' = <<>>
  <2>1. CASE SamePlan(i)
    BY <2>1 DEF SamePlan, Plan
  <2>2. CASE Resting(drain'[i])
    <3>1. <<>> \o <<>> = <<>>
      OBVIOUS
    <3> QED
      BY <2>2, <3>1 DEF Resting, Plan
  <2> QED
    BY <2>1, <2>2 DEF KeepsPlan
<1>2. Elements(<<>>) = {} /\ DOMAIN <<>> = {}
  BY DEF Elements
<1> QED
  BY <1>1, <1>2

LEMMA ShapeKept ==
    ASSUME NEW i \in Instances, KeepsPlan(i), Shape
    PROVE  /\ ~UnderWay(drain'[i]) => Resting(drain'[i])
           /\ drain'[i].batch # <<>> => drain'[i].take = Len(drain'[i].batch)
           /\ drain'[i].batch = <<>> => drain'[i].rest = <<>>
           /\ UnderWay(drain'[i]) /\ drain'[i].batch = <<>> /\ drain'[i].take # 0 => drain'[i].covers # {}
BY DEF KeepsPlan, SamePlan, Resting, Shape

LEMMA AcceptedQuiet == ASSUME Types, Core, Quiet PROVE Accepted'
<1>1. \A i \in Instances : Elements(Plan(i))' \subseteq Elements(Plan(i)) /\ KeepsItems(i)
  BY PlanKept DEF Quiet
<1> QED
  BY <1>1 DEF Core, Accepted, Quiet, KeepsHistory, KeepsItems

LEMMA AloneQuiet == ASSUME Types, Core, Quiet PROVE Alone'
<1>1. \A i \in Instances : Elements(Plan(i))' \subseteq Elements(Plan(i)) /\ KeepsItems(i)
  BY PlanKept DEF Quiet
<1> QED
  BY <1>1 DEF Core, Alone, KeepsItems

LEMMA OnceQuiet == ASSUME Types, Core, Quiet PROVE Once'
<1>1. \A i \in Instances : Elements(Plan(i))' \subseteq Elements(Plan(i)) /\ KeepsItems(i)
  BY PlanKept DEF Quiet
<1>2. ran' = ran
  BY DEF Quiet, KeepsHistory
<1> QED
  BY <1>1, <1>2 DEF Core, Once, KeepsItems

LEMMA OrderedQuiet == ASSUME Types, Core, Quiet PROVE Ordered'
<1>1. \A i \in Instances : /\ Plan(i)' = Plan(i) \/ Plan(i)' = <<>>
                           /\ KeepsItems(i)
  BY PlanKept DEF Quiet
<1>2. accepted' = accepted
  BY DEF Quiet, KeepsHistory
<1>3. Sorted(accepted, <<>>) /\ Elements(<<>>) = {}
  BY DEF Sorted, Elements
<1>4. ASSUME NEW i \in Instances PROVE Sorted(accepted', queue'[i].items) /\ Sorted(accepted', Plan(i)')
  BY <1>1, <1>2, <1>3 DEF Core, Ordered, KeepsItems
<1>5. ASSUME NEW i \in Instances, NEW c \in Instances, NEW m \in Elements(Plan(i)'),
             NEW n \in Elements(queue'[c].items)
      PROVE  n \in Elements(Plan(i)') \/ Before(accepted', m, n)
  <2>1. Plan(i)' = Plan(i) /\ n \in Elements(queue[c].items)
    BY <1>1, <1>3, <1>5 DEF KeepsItems
  <2> QED
    BY <1>2, <2>1 DEF Core, Ordered
<1> QED
  BY <1>4, <1>5 DEF Ordered

LEMMA FrontQuiet == ASSUME Types, Core, Quiet PROVE Front'
<1>1. ASSUME NEW i \in Instances, NEW p \in DOMAIN queue'[i].items, NEW x \in DOMAIN Plan(i)',
             queue'[i].items[p] = Plan(i)'[x]
      PROVE  p <= x
  <2>1. Plan(i)' = Plan(i) /\ KeepsItems(i)
    <3>1. DOMAIN <<>> = {}
      OBVIOUS
    <3> QED
      BY <1>1, <3>1, PlanKept DEF Quiet
  <2> QED
    BY <1>1, <2>1 DEF Core, Front, KeepsItems
<1>2. ASSUME NEW i \in Instances, i = current', ~drain'[i].over
      PROVE  /\ Len(Plan(i)') <= Len(queue'[i].items)
             /\ \A x \in DOMAIN Plan(i)' : queue'[i].items[x] = Plan(i)'[x]
  <2>1. KeepsItems(i) /\ KeepsPlan(i)
    BY DEF Quiet
  <2>2. CASE Plan(i)' = <<>>
    <3>1. queue'[i].items \in Seq(Runs)
      BY DEF Quiet, KeepsMap, Types, QueueState
    <3>2. Len(queue'[i].items) \in Nat /\ Len(<<>>) = 0 /\ DOMAIN <<>> = {}
      BY <3>1
    <3> QED
      BY <2>2, <3>2
  <2>3. CASE Plan(i)' # <<>>
    <3>1. ~Resting(drain'[i])
      <4>1. <<>> \o <<>> = <<>>
        OBVIOUS
      <4> QED
        BY <2>3, <4>1 DEF Resting, Plan
    <3>2. i = current
      BY <1>2, <3>1, Objects DEF Quiet, KeepsMap
    <3>3. ~drain[i].over
      BY <1>2, <2>1, <3>1 DEF KeepsPlan, SamePlan
    <3>4. Plan(i)' = Plan(i)
      BY <2>1, <2>3, PlanKept
    <3> QED
      BY <2>1, <3>2, <3>3, <3>4 DEF KeepsItems, Core, Front
  <2> QED
    BY <2>2, <2>3
<1> QED
  BY <1>1, <1>2 DEF Front

LEMMA LostQuiet == ASSUME Types, Core, Quiet PROVE NothingLost'
<1>1. Waiting' = Waiting
  BY DEF Waiting, Quiet, KeepsItems
<1> QED
  BY <1>1 DEF Core, NothingLost, Quiet, KeepsHistory

LEMMA QuietStep == ASSUME Types, Core, Quiet PROVE Core'
<1>1. Loose'
  BY DEF Loose, Quiet, KeepsMap
<1>2. Shape'
  <2>1. \A i \in Instances : KeepsPlan(i)
    BY DEF Quiet
  <2>2. Shape
    BY DEF Core
  <2> QED
    BY <2>1, <2>2, ShapeKept DEF Shape
<1> QED
  BY <1>1, <1>2, AcceptedQuiet, AloneQuiet, OnceQuiet, OrderedQuiet, FrontQuiet, LostQuiet DEF Core

----------------------------------------------------------------------------
(* A round begins: loop i plans a front of its queue.                        *)

Begins(i) ==
    /\ KeepsHistory /\ Types' /\ current' = current
    /\ \A j \in Instances : KeepsItems(j)
    /\ \A j \in Instances \ {i} : drain'[j] = drain[j]
    /\ ~UnderWay(drain[i])
    /\ RoundOf(drain'[i], queue[i].items)

LEMMA BeginsPlan ==
    ASSUME Types, Core, NEW i \in Instances, Begins(i)
    PROVE  /\ Plan(i)' \in Seq(Runs)
           /\ Len(Plan(i)') <= Len(queue[i].items)
           /\ \A x \in DOMAIN Plan(i)' : x \in DOMAIN queue[i].items /\ Plan(i)'[x] = queue[i].items[x]
           /\ Elements(Plan(i)') \subseteq Elements(queue[i].items)
           /\ Plan(i) = <<>>
           /\ \A j \in Instances \ {i} : Plan(j)' = Plan(j)
<1>1. Plan(i)' \in Seq(Runs)
  <2>1. drain'[i].batch \in Seq(Runs) /\ drain'[i].rest \in Seq(Runs)
    BY DEF Begins, RoundOf, DrainState
  <2> QED
    BY <2>1, Joined DEF Plan
<1>2. Len(Plan(i)') <= Len(queue[i].items) /\ \A x \in DOMAIN Plan(i)' : Plan(i)'[x] = queue[i].items[x]
  BY DEF Begins, RoundOf, Plan
<1>3. queue[i].items \in Seq(Runs)
  BY PlanType
<1>4. \A x \in DOMAIN Plan(i)' : x \in DOMAIN queue[i].items
  BY <1>1, <1>2, <1>3
<1>5. Elements(Plan(i)') \subseteq Elements(queue[i].items)
  BY <1>2, <1>4 DEF Elements
<1>6. Plan(i) = <<>>
  <2>1. Resting(drain[i]) /\ <<>> \o <<>> = <<>>
    BY DEF Begins, Core, Shape
  <2> QED
    BY <2>1 DEF Resting, Plan
<1>7. \A j \in Instances \ {i} : Plan(j)' = Plan(j)
  BY DEF Begins, Plan
<1> QED
  BY <1>1, <1>2, <1>4, <1>5, <1>6, <1>7

LEMMA BeginsStep == ASSUME Types, Core, NEW i \in Instances, Begins(i) PROVE Core'
<1> DEFINE items == queue[i].items
<1>1. /\ \A x \in DOMAIN Plan(i)' : x \in DOMAIN items /\ Plan(i)'[x] = items[x]
      /\ \A j \in Instances \ {i} : Plan(j)' = Plan(j)
      /\ Plan(i)' \in Seq(Runs) /\ Len(Plan(i)') <= Len(items)
  BY BeginsPlan
<1>2. Elements(Plan(i)') \subseteq Elements(items)
  BY BeginsPlan
<1>3. \A c \in Instances : queue'[c].items = queue[c].items /\ queue'[c].dropped = queue[c].dropped
  BY DEF Begins, KeepsItems
<1>4. /\ accepted' = accepted /\ ran' = ran /\ gone' = gone /\ shoved' = shoved
      /\ current' = current
  BY DEF Begins, KeepsHistory
<1>5. Loose'
  BY <1>3, <1>4 DEF Core, Loose
<1>6. Accepted'
  BY <1>1, <1>2, <1>3, <1>4 DEF Core, Accepted
<1>7. \A c \in Instances \ {i} : Elements(queue[c].items) = {} \/ items = <<>>
  <2>1. Elements(<<>>) = {}
    BY DEF Elements
  <2> QED
    BY <2>1 DEF Core, Loose
<1>8. Alone'
  <2>1. items = <<>> => Elements(Plan(i)') = {}
    BY <1>2 DEF Elements
  <2>2. \A c \in Instances \ {i} : Elements(Plan(c)) \intersect Elements(items) = {}
    BY DEF Core, Alone
  <2>3. \A c \in Instances \ {i} : Elements(Plan(i)') \intersect (Elements(Plan(c)) \union Elements(queue[c].items)) = {}
    BY <1>2, <1>7, <2>1, <2>2
  <2> QED
    BY <1>1, <1>3, <2>3 DEF Core, Alone
<1>9. Once'
  BY <1>1, <1>2, <1>3, <1>4 DEF Core, Once
<1>10. items \in Seq(Runs) /\ accepted \in Seq(Runs)
  BY PlanType DEF Types
<1>11. Ordered'
  <2>1. Sorted(accepted, items)
    BY DEF Core, Ordered
  <2>2. Sorted(accepted, Plan(i)')
    BY <1>1, <1>10, <2>1, SortedFront
  <2>3. ASSUME NEW c \in Instances, NEW m \in Elements(Plan(i)'), NEW n \in Elements(queue[c].items)
        PROVE  n \in Elements(Plan(i)') \/ Before(accepted, m, n)
    <3>1. PICK x \in DOMAIN Plan(i)' : Plan(i)'[x] = m
      BY DEF Elements
    <3>2. x \in DOMAIN items /\ items[x] = m
      BY <1>1, <3>1
    <3>3. c = i
      <4>1. items # <<>>
        BY <3>2
      <4>2. Elements(queue[c].items) # {}
        BY <2>3
      <4> QED
        BY <1>7, <4>1, <4>2
    <3>4. PICK y \in DOMAIN items : items[y] = n
      BY <2>3, <3>3 DEF Elements
    <3>5. CASE y \in DOMAIN Plan(i)'
      BY <1>1, <3>4, <3>5 DEF Elements
    <3>6. CASE y \notin DOMAIN Plan(i)'
      <4>1. x < y
        BY <1>1, <1>10, <3>1, <3>4, <3>6
      <4> QED
        BY <2>1, <3>2, <3>4, <4>1 DEF Sorted
    <3> QED
      BY <3>5, <3>6
  <2>4. ASSUME NEW j \in Instances PROVE Sorted(accepted', queue'[j].items) /\ Sorted(accepted', Plan(j)')
    BY <1>1, <1>3, <1>4, <2>2 DEF Core, Ordered
  <2>5. ASSUME NEW j \in Instances, NEW c \in Instances, NEW m \in Elements(Plan(j)'),
               NEW n \in Elements(queue'[c].items)
        PROVE  n \in Elements(Plan(j)') \/ Before(accepted', m, n)
    <3>1. CASE j = i
      BY <1>3, <1>4, <2>3, <2>5, <3>1
    <3>2. CASE j # i
      BY <1>1, <1>3, <1>4, <2>5, <3>2 DEF Core, Ordered
    <3> QED
      BY <3>1, <3>2
  <2> QED
    BY <2>4, <2>5 DEF Ordered
<1>12. Front'
  <2>1. ASSUME NEW j \in Instances, NEW p \in DOMAIN queue'[j].items, NEW x \in DOMAIN Plan(j)',
               queue'[j].items[p] = Plan(j)'[x]
        PROVE  p <= x
    <3>1. CASE j = i
      <4>1. p \in DOMAIN items /\ x \in DOMAIN items /\ items[p] = items[x]
        BY <1>1, <1>3, <2>1, <3>1
      <4>2. p \in Nat /\ x \in Nat
        BY <1>10, <4>1
      <4>3. ~(x < p)
        <5>1. Sorted(accepted, items) /\ Injective(accepted)
          BY DEF Core, Ordered, Accepted
        <5>2. x < p => Before(accepted, items[x], items[p])
          BY <4>1, <5>1 DEF Sorted
        <5> QED
          BY <1>10, <4>1, <5>1, <5>2, BeforeOnce
      <4> QED
        BY <4>2, <4>3
    <3>2. CASE j # i
      BY <1>1, <1>3, <2>1, <3>2 DEF Core, Front
    <3> QED
      BY <3>1, <3>2
  <2>2. ASSUME NEW j \in Instances, j = current', ~drain'[j].over
        PROVE  /\ Len(Plan(j)') <= Len(queue'[j].items)
               /\ \A x \in DOMAIN Plan(j)' : queue'[j].items[x] = Plan(j)'[x]
    <3>1. CASE j = i
      BY <1>1, <1>3, <3>1
    <3>2. CASE j # i
      <4>1. drain'[j] = drain[j]
        BY <3>2 DEF Begins
      <4> QED
        BY <1>1, <1>3, <1>4, <2>2, <3>2, <4>1 DEF Core, Front
    <3> QED
      BY <3>1, <3>2
  <2> QED
    BY <2>1, <2>2 DEF Front
<1>13. Shape'
  <2>1. UnderWay(drain'[i])
    BY DEF Begins, RoundOf, UnderWay
  <2> QED
    BY <2>1 DEF Begins, RoundOf, Core, Shape
<1>14. NothingLost'
  <2>1. Waiting' = Waiting
    BY <1>3 DEF Waiting
  <2> QED
    BY <1>4, <2>1 DEF Core, NothingLost
<1> QED
  BY <1>5, <1>6, <1>8, <1>9, <1>11, <1>12, <1>13, <1>14 DEF Core

----------------------------------------------------------------------------
(* A round is over: "told", its batch, was run, or it was skipped, and as    *)
(* much is taken off the front of the queue.                                 *)

Tells(i, told) ==
    /\ accepted' = accepted
    /\ told \subseteq Elements(drain[i].batch)
    /\ ran' = [m \in Runs |-> IF m \in told THEN ran[m] + 1 ELSE ran[m]]
    /\ gone \subseteq gone' /\ shoved \subseteq shoved'
    /\ Elements(drain[i].batch) \ told \subseteq gone'
    /\ drain[i].covers \subseteq gone' \union shoved'
    /\ drain[i].over \/ drain[i].covers # {} => TakenUntold(queue[i], drain[i]) \subseteq shoved'

Advances(i, told) ==
    /\ Types' /\ UnderWay(drain[i])
    /\ \A j \in Instances \ {i} : KeepsItems(j) /\ KeepsPlan(j)
    /\ queue'[i].items = SubSeq(queue[i].items, drain[i].take + 1, Len(queue[i].items))
    /\ queue'[i].dropped = IF drain[i].covers # {} THEN {} ELSE queue[i].dropped
    /\ Plan(i)' = drain[i].rest
    /\ drain[i].over => drain'[i].over \/ Resting(drain'[i])
    /\ Resting(drain'[i]) \/ /\ drain'[i].batch # <<>> /\ drain'[i].take = Len(drain'[i].batch)
                             /\ UnderWay(drain'[i])
    /\ \A j \in Instances : j # current' => queue'[j].items = <<>> /\ queue'[j].dropped = {}
    /\ current' \in {current, 0}
    /\ Tells(i, told)

(* The plan is the batch and, behind it, the rest. *)
LEMMA PlanParts ==
    ASSUME Types, NEW i \in Instances
    PROVE  /\ Len(Plan(i)) = Len(drain[i].batch) + Len(drain[i].rest)
           /\ \A x \in DOMAIN drain[i].batch : x \in DOMAIN Plan(i) /\ Plan(i)[x] = drain[i].batch[x]
           /\ \A x \in DOMAIN drain[i].rest :
                 x + Len(drain[i].batch) \in DOMAIN Plan(i)
                 /\ Plan(i)[x + Len(drain[i].batch)] = drain[i].rest[x]
           /\ Elements(Plan(i)) = Elements(drain[i].batch) \union Elements(drain[i].rest)
<1> DEFINE a == drain[i].batch
           b == drain[i].rest
<1>1. a \in Seq(Runs) /\ b \in Seq(Runs) /\ Plan(i) = a \o b
  BY PlanType DEF Plan
<1> HIDE DEF a, b
<1>2. Len(a \o b) = Len(a) + Len(b) /\ DOMAIN (a \o b) = 1 .. Len(a) + Len(b)
      /\ Len(a) \in Nat /\ Len(b) \in Nat
  BY <1>1, Joined
<1>3. \A x \in DOMAIN (a \o b) : (a \o b)[x] = IF x <= Len(a) THEN a[x] ELSE b[x - Len(a)]
  BY <1>1, JoinedAt
<1>4. ASSUME NEW x \in DOMAIN a PROVE x \in DOMAIN (a \o b) /\ (a \o b)[x] = a[x]
  BY <1>1, <1>2, <1>3
<1>5. ASSUME NEW x \in DOMAIN b
      PROVE  x + Len(a) \in DOMAIN (a \o b) /\ (a \o b)[x + Len(a)] = b[x]
  <2>1. x + Len(a) \in DOMAIN (a \o b) /\ ~(x + Len(a) <= Len(a)) /\ (x + Len(a)) - Len(a) = x
    BY <1>1, <1>2
  <2> QED
    BY <1>3, <2>1
<1>6. Elements(a \o b) = Elements(a) \union Elements(b)
  BY <1>1, JoinedElements
<1> QED
  BY <1>1, <1>2, <1>4, <1>5, <1>6 DEF a, b

(* What was run is not queued again, anywhere, nor in the rest of the plan.  *)
LEMMA BatchGone ==
    ASSUME Types, Core, NEW i \in Instances, NEW told, Advances(i, told), NEW m \in Elements(drain[i].batch)
    PROVE  /\ m \notin Elements(drain[i].rest)
           /\ \A c \in Instances : m \notin Elements(queue'[c].items)
<1> DEFINE n == drain[i].take
           items == queue[i].items
           tail == SubSeq(items, n + 1, Len(items))
<1>1. PICK x \in DOMAIN drain[i].batch : drain[i].batch[x] = m
  BY DEF Elements
<1>2. x \in DOMAIN Plan(i) /\ Plan(i)[x] = m
  BY <1>1, PlanParts
<1>3. drain[i].batch \in Seq(Runs) /\ items \in Seq(Runs) /\ Plan(i) \in Seq(Runs)
      /\ accepted \in Seq(Runs) /\ drain[i].rest \in Seq(Runs)
  BY PlanType DEF Types
<1>4. n = Len(drain[i].batch) /\ n \in Nat /\ x \in 1 .. n
  BY <1>1, <1>3 DEF Core, Shape
<1>5. m \notin Elements(drain[i].rest)
  <2> SUFFICES ASSUME NEW y \in DOMAIN drain[i].rest, drain[i].rest[y] = m PROVE FALSE
    BY DEF Elements
  <2>1. y + Len(drain[i].batch) \in DOMAIN Plan(i) /\ Plan(i)[y + Len(drain[i].batch)] = m
    BY PlanParts
  <2>2. y \in Nat \ {0}
    BY <1>3
  <2>3. x < y + Len(drain[i].batch)
    BY <1>4, <2>2
  <2>4. Sorted(accepted, Plan(i)) /\ Injective(accepted)
    BY DEF Core, Ordered, Accepted
  <2>5. Before(accepted, m, m)
    BY <1>2, <2>1, <2>3, <2>4 DEF Sorted
  <2> QED
    BY <1>3, <2>4, <2>5, BeforeOnce
<1>6. ASSUME NEW c \in Instances, m \in Elements(queue'[c].items) PROVE FALSE
  <2>1. CASE c # i
    <3>1. m \in Elements(queue[c].items)
      BY <1>6, <2>1 DEF Advances, KeepsItems
    <3>2. m \in Elements(Plan(i))
      BY PlanParts
    <3> QED
      BY <2>1, <3>1, <3>2 DEF Core, Alone
  <2>2. CASE c = i
    <3>1. m \in Elements(tail)
      BY <1>6, <2>2 DEF Advances
    <3>2. PICK p \in DOMAIN tail : tail[p] = m
      BY <3>1 DEF Elements
    <3>3. p + n \in DOMAIN items /\ items[p + n] = m /\ p \in Nat \ {0}
      <4>1. tail \in Seq(Runs) /\ \A q \in DOMAIN tail : q + n \in DOMAIN items /\ tail[q] = items[q + n]
        BY <1>3, <1>4, TakenOff
      <4>2. p \in Nat \ {0}
        BY <3>2, <4>1, Nothing
      <4> HIDE DEF tail
      <4> QED
        BY <3>2, <4>1, <4>2
    <3>4. p + n <= x
      BY <1>2, <3>3 DEF Core, Front
    <3> QED
      BY <1>4, <3>3, <3>4
  <2> QED
    BY <2>1, <2>2
<1> QED
  BY <1>5, <1>6

(* The queues and the plans get no new element. *)
LEMMA AdvancesShrink ==
    ASSUME Types, Core, NEW i \in Instances, NEW told, Advances(i, told)
    PROVE  /\ \A c \in Instances : Elements(queue'[c].items) \subseteq Elements(queue[c].items)
           /\ \A j \in Instances : Elements(Plan(j)') \subseteq Elements(Plan(j))
<1>1. Elements(queue'[i].items) \subseteq Elements(queue[i].items)
  <2>1. queue[i].items \in Seq(Runs) /\ drain[i].take \in Nat
    BY PlanType DEF Types, DrainState
  <2>2. Elements(SubSeq(queue[i].items, drain[i].take + 1, Len(queue[i].items))) \subseteq Elements(queue[i].items)
    BY <2>1, TakenOff
  <2> QED
    BY <2>2 DEF Advances
<1>2. \A c \in Instances \ {i} : queue'[c].items = queue[c].items
  BY DEF Advances, KeepsItems
<1>3. Elements(Plan(i)') \subseteq Elements(Plan(i))
  BY PlanParts DEF Advances
<1>4. \A j \in Instances \ {i} : Elements(Plan(j)') \subseteq Elements(Plan(j))
  BY PlanKept DEF Advances
<1> QED
  BY <1>1, <1>2, <1>3, <1>4

LEMMA InElements == ASSUME NEW m, NEW s PROVE In(m, s) <=> m \in Elements(s)
BY DEF In, Elements

LEMMA OnceAdvances == ASSUME Types, Core, NEW i \in Instances, NEW told, Advances(i, told) PROVE Once'
<1> SUFFICES ASSUME NEW m \in Runs, ran'[m] # 0
             PROVE  /\ ran'[m] = 1
                    /\ \A c \in Instances : m \notin Elements(queue'[c].items) \union Elements(Plan(c)')
  BY DEF Once
<1>1. /\ \A c \in Instances : Elements(queue'[c].items) \subseteq Elements(queue[c].items)
      /\ \A j \in Instances : Elements(Plan(j)') \subseteq Elements(Plan(j))
  BY AdvancesShrink
<1>0. told \subseteq Elements(drain[i].batch)
      /\ ran'[m] = IF m \in told THEN ran[m] + 1 ELSE ran[m]
  BY DEF Advances, Tells
<1>2. CASE m \in told
  <2>1. m \in Elements(Plan(i))
    BY <1>0, <1>2, PlanParts
  <2>2. ran[m] = 0
    BY <2>1 DEF Core, Once
  <2>3. ran'[m] = 1
    BY <1>0, <1>2, <2>2
  <2>4. m \notin Elements(Plan(i)')
    BY <1>0, <1>2, BatchGone DEF Advances
  <2>5. \A c \in Instances \ {i} : m \notin Elements(Plan(c)')
    BY <1>1, <2>1 DEF Core, Alone
  <2>6. \A c \in Instances : m \notin Elements(queue'[c].items)
    BY <1>0, <1>2, BatchGone
  <2> QED
    BY <2>3, <2>4, <2>5, <2>6
<1>3. CASE m \notin told
  <2>1. ran'[m] = ran[m]
    BY <1>0, <1>3
  <2> QED
    BY <1>1, <2>1 DEF Core, Once
<1> QED
  BY <1>2, <1>3

LEMMA OrderedAdvances == ASSUME Types, Core, NEW i \in Instances, NEW told, Advances(i, told) PROVE Ordered'
<1>1. accepted' = accepted
  BY DEF Advances, Tells
<1>2. \A j \in Instances \ {i} : queue'[j].items = queue[j].items /\ (Plan(j)' = Plan(j) \/ Plan(j)' = <<>>)
  BY PlanKept DEF Advances, KeepsItems
<1>3. Sorted(accepted, <<>>) /\ Elements(<<>>) = {}
  BY DEF Sorted, Elements
<1>4. Sorted(accepted, queue'[i].items)
  <2>1. queue[i].items \in Seq(Runs) /\ drain[i].take \in Nat
    BY PlanType DEF Types, DrainState
  <2>2. Sorted(accepted, queue[i].items)
    BY DEF Core, Ordered
  <2> QED
    BY <2>1, <2>2, SortedTail DEF Advances
<1>5. Sorted(accepted, drain[i].rest)
  <2>1. Sorted(accepted, Plan(i))
    BY DEF Core, Ordered
  <2>2. drain[i].rest \in Seq(Runs) /\ drain[i].batch \in Seq(Runs)
    BY PlanType
  <2>3. ASSUME NEW x \in DOMAIN drain[i].rest, NEW y \in DOMAIN drain[i].rest, x < y
        PROVE  Before(accepted, drain[i].rest[x], drain[i].rest[y])
    <3> DEFINE k == Len(drain[i].batch)
    <3>1. x + k \in DOMAIN Plan(i) /\ Plan(i)[x + k] = drain[i].rest[x]
          /\ y + k \in DOMAIN Plan(i) /\ Plan(i)[y + k] = drain[i].rest[y]
      BY PlanParts
    <3>2. k \in Nat /\ x \in Nat /\ y \in Nat
      BY <2>2
    <3> HIDE DEF k
    <3>3. x + k < y + k
      BY <2>3, <3>2
    <3> QED
      BY <2>1, <3>1, <3>3 DEF Sorted
  <2> QED
    BY <2>3 DEF Sorted
<1>6. ASSUME NEW j \in Instances PROVE Sorted(accepted', queue'[j].items) /\ Sorted(accepted', Plan(j)')
  <2>1. CASE j = i
    BY <1>1, <1>4, <1>5, <2>1 DEF Advances
  <2>2. CASE j # i
    BY <1>1, <1>2, <1>3, <2>2 DEF Core, Ordered
  <2> QED
    BY <2>1, <2>2
<1>7. ASSUME NEW j \in Instances, NEW c \in Instances, NEW m \in Elements(Plan(j)'),
             NEW n \in Elements(queue'[c].items)
      PROVE  n \in Elements(Plan(j)') \/ Before(accepted', m, n)
  <2>1. n \in Elements(queue[c].items) /\ m \in Elements(Plan(j))
    BY <1>7, AdvancesShrink
  <2>2. n \in Elements(Plan(j)) \/ Before(accepted, m, n)
    BY <2>1 DEF Core, Ordered
  <2>3. CASE j = i
    <3>1. n \notin Elements(drain[i].batch)
      BY <1>7, BatchGone
    <3>2. n \in Elements(Plan(i)) => n \in Elements(drain[i].rest)
      BY <3>1, PlanParts
    <3> QED
      BY <1>1, <2>2, <2>3, <3>2 DEF Advances
  <2>4. CASE j # i
    BY <1>1, <1>2, <1>3, <1>7, <2>2, <2>4
  <2> QED
    BY <2>3, <2>4
<1> QED
  BY <1>6, <1>7 DEF Ordered

LEMMA FrontAdvances == ASSUME Types, Core, NEW i \in Instances, NEW told, Advances(i, told) PROVE Front'
<1> DEFINE n == drain[i].take
           items == queue[i].items
           rest == drain[i].rest
           tail == SubSeq(items, n + 1, Len(items))
<1>1. items \in Seq(Runs) /\ n \in Nat /\ rest \in Seq(Runs) /\ drain[i].batch \in Seq(Runs)
  BY PlanType DEF Types, DrainState
<1>2. /\ tail \in Seq(Runs)
      /\ \A p \in DOMAIN tail : p + n \in DOMAIN items /\ tail[p] = items[p + n]
      /\ \A q \in DOMAIN items : q > n => q - n \in DOMAIN tail /\ tail[q - n] = items[q]
  BY <1>1, TakenOff
<1>3. queue'[i].items = tail /\ Plan(i)' = rest
  BY DEF Advances
<1>4. rest # <<>> => n = Len(drain[i].batch)
  BY DEF Core, Shape
<1>5. \A x \in DOMAIN rest : x + Len(drain[i].batch) \in DOMAIN Plan(i)
                             /\ Plan(i)[x + Len(drain[i].batch)] = rest[x]
  BY PlanParts
<1>6. Len(Plan(i)) = Len(drain[i].batch) + Len(rest)
  BY PlanParts
<1> HIDE DEF n, items, rest, tail
<1>7. ASSUME NEW p \in DOMAIN tail, NEW x \in DOMAIN rest, tail[p] = rest[x] PROVE p <= x
  <2>1. rest # <<>> /\ p \in Nat /\ x \in Nat
    BY <1>1, <1>2
  <2>2. p + n \in DOMAIN items /\ items[p + n] = rest[x]
    BY <1>2, <1>7
  <2>3. x + n \in DOMAIN Plan(i) /\ Plan(i)[x + n] = rest[x]
    BY <1>4, <1>5, <2>1
  <2>4. p + n <= x + n
    BY <2>2, <2>3 DEF Core, Front, items
  <2> QED
    BY <1>1, <2>1, <2>4
<1>8. ASSUME NEW j \in Instances, NEW p \in DOMAIN queue'[j].items, NEW x \in DOMAIN Plan(j)',
             queue'[j].items[p] = Plan(j)'[x]
      PROVE  p <= x
  <2>1. CASE j = i
    BY <1>3, <1>7, <1>8, <2>1
  <2>2. CASE j # i
    <3>1. KeepsItems(j) /\ KeepsPlan(j)
      BY <2>2 DEF Advances
    <3>2. x \in DOMAIN Plan(j) /\ Plan(j)'[x] = Plan(j)[x]
      BY <1>8, <3>1, PlanKept
    <3> QED
      BY <1>8, <3>1, <3>2 DEF Core, Front, KeepsItems
  <2> QED
    BY <2>1, <2>2
<1>9. ASSUME i = current', ~drain'[i].over
      PROVE  Len(rest) <= Len(tail) /\ \A x \in DOMAIN rest : tail[x] = rest[x]
  <2>1. CASE rest = <<>>
    <3>1. Len(rest) = 0 /\ DOMAIN rest = {} /\ Len(tail) \in Nat
      BY <1>2, <2>1
    <3> QED
      BY <3>1
  <2>2. CASE rest # <<>>
    <3>1. ~Resting(drain'[i])
      <4>1. <<>> \o <<>> = <<>>
        OBVIOUS
      <4> QED
        BY <1>3, <2>2, <4>1 DEF Resting, Plan
    <3>2. ~drain[i].over /\ i = current
      BY <1>9, <3>1, Objects DEF Advances
    <3>3. Len(Plan(i)) <= Len(items) /\ \A x \in DOMAIN Plan(i) : items[x] = Plan(i)[x]
      BY <3>2 DEF Core, Front, items
    <3>4. \A x \in DOMAIN rest : items[x + n] = rest[x] /\ x + n \in DOMAIN Plan(i)
      BY <1>4, <1>5, <2>2, <3>3
    <3>5. Plan(i) \in Seq(Runs)
      BY PlanType
    <3>6. \A x \in DOMAIN rest : x + n \in DOMAIN items /\ x + n > n /\ (x + n) - n = x
      <4> TAKE x \in DOMAIN rest
      <4>1. x + n \in 1 .. Len(Plan(i)) /\ x \in Nat \ {0}
        BY <1>1, <3>4, <3>5
      <4>2. Len(items) \in Nat /\ Len(Plan(i)) \in Nat
        BY <1>1, <3>5
      <4>3. x + n \in 1 .. Len(items)
        BY <3>3, <4>1, <4>2
      <4> QED
        BY <1>1, <4>1, <4>3
    <3>7. \A x \in DOMAIN rest : x \in DOMAIN tail /\ tail[x] = rest[x]
      <4> TAKE x \in DOMAIN rest
      <4>1. (x + n) - n \in DOMAIN tail /\ tail[(x + n) - n] = items[x + n]
        BY <1>2, <3>6
      <4> QED
        BY <3>4, <3>6, <4>1
    <3>8. Len(rest) \in DOMAIN rest
      BY <1>1, <2>2, EmptySeq
    <3> QED
      BY <1>1, <1>2, <3>7, <3>8
  <2> QED
    BY <2>1, <2>2
<1>10. ASSUME NEW j \in Instances, j = current', ~drain'[j].over
       PROVE  /\ Len(Plan(j)') <= Len(queue'[j].items)
              /\ \A x \in DOMAIN Plan(j)' : queue'[j].items[x] = Plan(j)'[x]
  <2>1. CASE j = i
    BY <1>3, <1>9, <1>10, <2>1
  <2>2. CASE j # i
    <3>1. KeepsItems(j) /\ KeepsPlan(j) /\ j = current
      BY <1>10, <2>2, Objects DEF Advances
    <3>2. queue'[j].items \in Seq(Runs)
      BY <2>2 DEF Advances, Types, QueueState
    <3>3. CASE Plan(j)' = <<>>
      <4>1. Len(queue'[j].items) \in Nat /\ Len(<<>>) = 0 /\ DOMAIN <<>> = {}
        BY <3>2
      <4> QED
        BY <3>3, <4>1
    <3>4. CASE Plan(j)' # <<>>
      <4>1. ~Resting(drain'[j])
        <5>1. <<>> \o <<>> = <<>>
          OBVIOUS
        <5> QED
          BY <3>4, <5>1 DEF Resting, Plan
      <4>2. ~drain[j].over
        BY <1>10, <3>1, <4>1 DEF KeepsPlan, SamePlan
      <4>3. Plan(j)' = Plan(j)
        BY <3>1, <3>4, PlanKept
      <4> QED
        BY <3>1, <4>2, <4>3 DEF KeepsItems, Core, Front
    <3> QED
      BY <3>3, <3>4
  <2> QED
    BY <2>1, <2>2
<1> QED
  BY <1>8, <1>10 DEF Front

(* What is taken off was run, or is counted as shoved. *)
LEMMA TakenOffSettled ==
    ASSUME Types, Core, NEW i \in Instances, NEW told, Advances(i, told), NEW m \in Elements(queue[i].items)
    PROVE  \/ m \in Elements(queue'[i].items) \/ m \in Elements(drain[i].batch) \/ m \in shoved'
<1> DEFINE n == drain[i].take
           items == queue[i].items
           tail == SubSeq(items, n + 1, Len(items))
<1>1. items \in Seq(Runs) /\ n \in Nat /\ drain[i].batch \in Seq(Runs)
  BY PlanType DEF Types, DrainState
<1>2. PICK p \in DOMAIN items : items[p] = m
  BY DEF Elements
<1>3. CASE p > n
  <2>1. p - n \in DOMAIN tail /\ tail[p - n] = items[p]
    BY <1>1, <1>3, TakenOff
  <2>2. m \in Elements(tail)
    BY <1>2, <2>1 DEF Elements
  <2> QED
    BY <2>2 DEF Advances
<1>4. CASE ~(p > n)
  <2>1. p \in 1 .. n
    BY <1>1, <1>4
  <2>2. CASE drain[i].over \/ drain[i].covers # {}
    <3>1. m \in {items[k] : k \in DOMAIN items \intersect (1 .. n)}
      BY <1>2, <2>1
    <3>2. m \notin Elements(drain[i].batch) => m \in TakenUntold(queue[i], drain[i])
      BY <3>1 DEF TakenUntold
    <3> QED
      BY <2>2, <3>2 DEF Advances, Tells
  <2>3. CASE ~(drain[i].over \/ drain[i].covers # {})
    <3>1. drain[i].batch # <<>> /\ n = Len(drain[i].batch)
      <4>1. n # 0
        BY <2>1
      <4> QED
        BY <2>3, <4>1 DEF Core, Shape, Advances
    <3>2. i = current
      <4>1. items # <<>>
        BY <1>2
      <4> QED
        BY <4>1 DEF Core, Loose
    <3>3. p \in DOMAIN drain[i].batch
      BY <1>1, <2>1, <3>1
    <3>4. p \in DOMAIN Plan(i) /\ Plan(i)[p] = drain[i].batch[p]
      BY <3>3, PlanParts
    <3>5. items[p] = Plan(i)[p]
      BY <2>3, <3>2, <3>4 DEF Core, Front
    <3> QED
      BY <1>2, <3>3, <3>4, <3>5 DEF Elements
  <2> QED
    BY <2>2, <2>3
<1> QED
  BY <1>3, <1>4

LEMMA LostAdvances == ASSUME Types, Core, NEW i \in Instances, NEW told, Advances(i, told) PROVE NothingLost'
<1> SUFFICES ASSUME NEW k \in DOMAIN accepted, NEW m, m = accepted[k]
             PROVE  ran'[m] > 0 \/ m \in gone' \union shoved' \union Waiting'
  BY DEF NothingLost, Advances, Tells
<1>1. m \in Runs
  BY DEF Types
<1>2. ran[m] \in Nat /\ ran'[m] = IF m \in told THEN ran[m] + 1 ELSE ran[m]
  BY <1>1 DEF Advances, Tells, Types
<1>3. m \in Elements(drain[i].batch) => ran'[m] > 0 \/ m \in gone'
  <2>1. m \in told => ran'[m] > 0
    BY <1>2
  <2>2. m \in Elements(drain[i].batch) \ told => m \in gone'
    BY DEF Advances, Tells
  <2> QED
    BY <2>1, <2>2
<1>4. ran[m] > 0 => ran'[m] > 0
  BY <1>2
<1>5. gone \subseteq gone' /\ shoved \subseteq shoved'
  BY DEF Advances, Tells
<1>6. ASSUME NEW c \in Instances, m \in Elements(queue[c].items)
      PROVE  ran'[m] > 0 \/ m \in gone' \union shoved' \union Waiting'
  <2>1. CASE c = i
    BY <1>3, <1>6, <2>1, TakenOffSettled DEF Waiting
  <2>2. CASE c # i
    BY <1>6, <2>2 DEF Waiting, Advances, KeepsItems
  <2> QED
    BY <2>1, <2>2
<1>7. ASSUME NEW c \in Instances, m \in queue[c].dropped
      PROVE  ran'[m] > 0 \/ m \in gone' \union shoved' \union Waiting'
  <2>1. CASE c = i /\ drain[i].covers # {}
    <3>1. m \in drain[i].covers => m \in gone' \union shoved'
      BY DEF Advances, Tells
    <3>2. m \notin drain[i].covers => m \in TakenUntold(queue[i], drain[i])
      BY <1>7, <2>1 DEF TakenUntold
    <3> QED
      BY <2>1, <3>1, <3>2 DEF Advances, Tells
  <2>2. CASE ~(c = i /\ drain[i].covers # {})
    <3>1. queue'[c].dropped = queue[c].dropped
      BY <2>2 DEF Advances, KeepsItems
    <3> QED
      BY <1>7, <3>1 DEF Waiting
  <2> QED
    BY <2>1, <2>2
<1>8. ran[m] > 0 \/ m \in gone \union shoved \union Waiting
  BY DEF Core, NothingLost
<1> QED
  BY <1>4, <1>5, <1>6, <1>7, <1>8 DEF Waiting

LEMMA AdvancesStep == ASSUME Types, Core, NEW i \in Instances, NEW told, Advances(i, told) PROVE Core'
<1>1. /\ \A c \in Instances : Elements(queue'[c].items) \subseteq Elements(queue[c].items)
      /\ \A j \in Instances : Elements(Plan(j)') \subseteq Elements(Plan(j))
  BY AdvancesShrink
<1>2. Loose'
  BY DEF Advances, Loose
<1>3. Accepted'
  <2>1. accepted' = accepted
    BY DEF Advances, Tells
  <2>2. ASSUME NEW m \in Runs, ran'[m] > 0 PROVE m \in Elements(accepted)
    <3>1. CASE m \in told
      <4>1. m \in Elements(Plan(i))
        BY <3>1, PlanParts DEF Advances, Tells
      <4> QED
        BY <4>1 DEF Core, Accepted
    <3>2. CASE m \notin told
      <4>1. ran'[m] = ran[m]
        BY <3>2 DEF Advances, Tells
      <4> QED
        BY <2>2, <4>1 DEF Core, Accepted
    <3> QED
      BY <3>1, <3>2
  <2> QED
    BY <1>1, <2>1, <2>2 DEF Core, Accepted
<1>4. Alone'
  BY <1>1 DEF Core, Alone
<1>5. Shape'
  <2>1. \A j \in Instances \ {i} :
          /\ ~UnderWay(drain'[j]) => Resting(drain'[j])
          /\ drain'[j].batch # <<>> => drain'[j].take = Len(drain'[j].batch)
          /\ drain'[j].batch = <<>> => drain'[j].rest = <<>>
          /\ UnderWay(drain'[j]) /\ drain'[j].batch = <<>> /\ drain'[j].take # 0 => drain'[j].covers # {}
    BY ShapeKept DEF Core, Advances
  <2>2. Resting(drain'[i]) \/ (/\ drain'[i].batch # <<>> /\ drain'[i].take = Len(drain'[i].batch)
                               /\ UnderWay(drain'[i]))
    BY DEF Advances
  <2> QED
    BY <2>1, <2>2 DEF Shape, Resting
<1> QED
  BY <1>2, <1>3, <1>4, <1>5, OnceAdvances, OrderedAdvances, FrontAdvances, LostAdvances DEF Core

----------------------------------------------------------------------------
(* Message m comes into queue i, which drops n of its oldest items for it.   *)

Adds(i, m, n) ==
    /\ Types' /\ m \in Runs \ Elements(accepted) /\ n \in Nat
    /\ \A j \in Instances \ {i} : KeepsItems(j)
    /\ \A j \in Instances : KeepsPlan(j)
    /\ queue'[i].items = Append(SubSeq(queue[i].items, n + 1, Len(queue[i].items)), m)
    /\ queue[i].dropped \subseteq queue'[i].dropped
    /\ \A p \in DOMAIN queue[i].items : p <= n => queue[i].items[p] \in queue'[i].dropped \union gone'
    /\ gone \subseteq gone' /\ shoved' = shoved /\ ran' = ran
    /\ accepted' = Append(accepted, m)
    /\ current' = i
    /\ current = i \/ Resting(drain[i])
    /\ n # 0 => drain'[i].over \/ Resting(drain'[i])
    /\ \A j \in Instances \ {i} : queue'[j].items = <<>> /\ queue'[j].dropped = {}

LEMMA AddsItems ==
    ASSUME Types, Core, NEW i \in Instances, NEW m, NEW n, Adds(i, m, n)
    PROVE  /\ \A p \in DOMAIN queue'[i].items :
                 \/ queue'[i].items[p] = m
                 \/ p + n \in DOMAIN queue[i].items /\ queue'[i].items[p] = queue[i].items[p + n]
           /\ \A q \in DOMAIN queue[i].items : q > n =>
                 q - n \in DOMAIN queue'[i].items /\ queue'[i].items[q - n] = queue[i].items[q]
           /\ Elements(queue'[i].items) \subseteq Elements(queue[i].items) \union {m}
           /\ m \in Elements(queue'[i].items)
<1> DEFINE items == queue[i].items
           tail == SubSeq(items, n + 1, Len(items))
           new == queue'[i].items
<1>1. items \in Seq(Runs) /\ n \in Nat /\ m \in Runs
  BY PlanType DEF Adds
<1>2. /\ tail \in Seq(Runs) /\ Elements(tail) \subseteq Elements(items)
      /\ \A p \in DOMAIN tail : p + n \in DOMAIN items /\ tail[p] = items[p + n]
      /\ \A q \in DOMAIN items : q > n => q - n \in DOMAIN tail /\ tail[q - n] = items[q]
  BY <1>1, TakenOff
<1>3. new = Append(tail, m)
  BY DEF Adds
<1> HIDE DEF items, tail, new
<1>4. new[Len(tail) + 1] = m /\ DOMAIN new = DOMAIN tail \union {Len(tail) + 1}
      /\ \A p \in DOMAIN tail : p \in DOMAIN new /\ new[p] = tail[p] /\ p < Len(tail) + 1
  BY <1>1, <1>2, <1>3, Appended
<1>5. Elements(new) = Elements(tail) \union {m}
  BY <1>1, <1>2, <1>3, AppendedElements
<1>6. \A p \in DOMAIN new : new[p] = m \/ (p + n \in DOMAIN items /\ new[p] = items[p + n])
  BY <1>2, <1>4
<1>7. \A q \in DOMAIN items : q > n => q - n \in DOMAIN new /\ new[q - n] = items[q]
  BY <1>2, <1>4
<1> QED
  BY <1>2, <1>5, <1>6, <1>7 DEF items, new

LEMMA OrderedAdds ==
    ASSUME Types, Core, NEW i \in Instances, NEW m, NEW n, Adds(i, m, n) PROVE Ordered'
<1> DEFINE acc == Append(accepted, m)
<1>1. accepted \in Seq(Runs) /\ m \in Runs /\ n \in Nat /\ accepted' = acc
      /\ m \notin Elements(accepted)
  BY DEF Types, Adds, Core, Accepted
<1>2. \A j \in Instances \ {i} : queue'[j].items = queue[j].items
  BY DEF Adds, KeepsItems
<1>3. \A j \in Instances : Plan(j)' = Plan(j) \/ Plan(j)' = <<>>
  BY PlanKept DEF Adds
<1>4. \A s : Sorted(accepted, s) => Sorted(acc, s)
  BY <1>1, SortedGrows
<1>5. \A a, b : Before(accepted, a, b) => Before(acc, a, b)
  BY <1>1, BeforeGrows
<1>6. \A a \in Elements(accepted) : Before(acc, a, m)
  BY <1>1, BeforeGrows
<1>7. Sorted(acc, queue'[i].items)
  <2> DEFINE tail == SubSeq(queue[i].items, n + 1, Len(queue[i].items))
  <2>1. queue[i].items \in Seq(Runs) /\ Sorted(accepted, queue[i].items)
        /\ Elements(queue[i].items) \subseteq Elements(accepted)
    BY PlanType DEF Core, Ordered, Accepted
  <2>2. tail \in Seq(Runs) /\ Elements(tail) \subseteq Elements(accepted)
    BY <1>1, <2>1, TakenOff
  <2>3. Sorted(accepted, tail)
    BY <1>1, <2>1, SortedTail
  <2>4. queue'[i].items = Append(tail, m)
    BY DEF Adds
  <2> HIDE DEF tail
  <2> QED
    BY <1>1, <2>2, <2>3, <2>4, SortedAppend
<1> HIDE DEF acc
<1>8. Sorted(acc, <<>>) /\ Elements(<<>>) = {}
  BY DEF Sorted, Elements
<1>9. ASSUME NEW j \in Instances PROVE Sorted(acc, queue'[j].items) /\ Sorted(acc, Plan(j)')
  BY <1>2, <1>3, <1>4, <1>7, <1>8 DEF Core, Ordered
<1>10. ASSUME NEW j \in Instances, NEW c \in Instances, NEW a \in Elements(Plan(j)'),
              NEW b \in Elements(queue'[c].items)
       PROVE  b \in Elements(Plan(j)') \/ Before(acc, a, b)
  <2>1. Plan(j)' = Plan(j)
    BY <1>3, <1>8, <1>10
  <2>2. a \in Elements(accepted)
    BY <1>10, <2>1 DEF Core, Accepted
  <2>3. CASE b = m
    BY <1>6, <2>2, <2>3
  <2>4. CASE b # m
    <3>1. b \in Elements(queue[c].items)
      <4>1. CASE c = i
        BY <1>10, <2>4, <4>1, AddsItems
      <4>2. CASE c # i
        BY <1>2, <1>10, <4>2
      <4> QED
        BY <4>1, <4>2
    <3> QED
      BY <1>5, <1>10, <2>1, <3>1 DEF Core, Ordered
  <2> QED
    BY <2>3, <2>4
<1> QED
  BY <1>1, <1>9, <1>10 DEF Ordered

LEMMA FrontAdds ==
    ASSUME Types, Core, NEW i \in Instances, NEW m, NEW n, Adds(i, m, n) PROVE Front'
<1>1. \A j \in Instances : KeepsPlan(j) /\ (Plan(j)' = Plan(j) \/ Plan(j)' = <<>>)
  BY PlanKept DEF Adds
<1>2. queue[i].items \in Seq(Runs) /\ n \in Nat
      /\ queue'[i].items \in Seq(Runs) /\ Plan(i) \in Seq(Runs)
  BY PlanType DEF Adds, Types, QueueState
<1>3. DOMAIN <<>> = {} /\ Len(<<>>) = 0 /\ <<>> \o <<>> = <<>>
  OBVIOUS
<1>4. m \notin Elements(Plan(i))
  BY DEF Adds, Core, Accepted
<1>5. ASSUME NEW j \in Instances, NEW p \in DOMAIN queue'[j].items, NEW x \in DOMAIN Plan(j)',
             queue'[j].items[p] = Plan(j)'[x]
      PROVE  p <= x
  <2>1. Plan(j)' = Plan(j)
    BY <1>1, <1>3, <1>5
  <2>2. CASE j = i
    <3>1. queue'[i].items[p] # m
      BY <1>4, <1>5, <2>1, <2>2 DEF Elements
    <3>2. p + n \in DOMAIN queue[i].items /\ queue[i].items[p + n] = Plan(i)[x]
      BY <1>5, <2>1, <2>2, <3>1, AddsItems
    <3>3. p + n <= x
      BY <1>5, <2>1, <2>2, <3>2 DEF Core, Front
    <3>4. p \in Nat /\ x \in Nat
      BY <1>2, <1>5, <2>1, <2>2
    <3> QED
      BY <1>2, <3>3, <3>4
  <2>3. CASE j # i
    BY <1>5, <2>1, <2>3 DEF Adds, KeepsItems, Core, Front
  <2> QED
    BY <2>2, <2>3
<1>6. ASSUME ~drain'[i].over
      PROVE  /\ Len(Plan(i)') <= Len(queue'[i].items)
             /\ \A x \in DOMAIN Plan(i)' : queue'[i].items[x] = Plan(i)'[x]
  <2>1. CASE Plan(i)' = <<>>
    BY <1>2, <1>3, <2>1
  <2>2. CASE Plan(i)' # <<>>
    <3>1. ~Resting(drain'[i]) /\ Plan(i)' = Plan(i)
      BY <1>1, <1>3, <2>2 DEF Resting, Plan
    <3>2. ~Resting(drain[i])
      BY <1>3, <2>2, <3>1 DEF Resting, Plan
    <3>3. current = i /\ n = 0 /\ ~drain[i].over
      BY <1>1, <1>6, <3>1, <3>2 DEF Adds, KeepsPlan, SamePlan
    <3>4. Len(Plan(i)) <= Len(queue[i].items) /\ \A x \in DOMAIN Plan(i) : queue[i].items[x] = Plan(i)[x]
      BY <3>3 DEF Core, Front
    <3>5. \A x \in DOMAIN queue[i].items : x \in DOMAIN queue'[i].items /\ queue'[i].items[x] = queue[i].items[x]
      <4> TAKE x \in DOMAIN queue[i].items
      <4>1. x > n /\ x - n = x
        BY <1>2, <3>3
      <4>2. x - n \in DOMAIN queue'[i].items /\ queue'[i].items[x - n] = queue[i].items[x]
        BY <4>1, AddsItems
      <4> QED
        BY <4>1, <4>2
    <3>6. \A x \in DOMAIN Plan(i) : x \in DOMAIN queue[i].items
      BY <1>2, <3>4
    <3>7. Plan(i) # <<>> /\ Len(Plan(i)) \in DOMAIN Plan(i)
      BY <1>2, <2>2, <3>1, EmptySeq
    <3>8. Len(Plan(i)) \in DOMAIN queue'[i].items
      BY <3>5, <3>6, <3>7
    <3>9. Len(Plan(i)) <= Len(queue'[i].items)
      BY <1>2, <3>8
    <3> QED
      BY <3>1, <3>4, <3>5, <3>6, <3>9
  <2> QED
    BY <2>1, <2>2
<1>7. current' = i
  BY DEF Adds
<1> QED
  BY <1>5, <1>6, <1>7 DEF Front

LEMMA LostAdds ==
    ASSUME Types, Core, NEW i \in Instances, NEW m, NEW n, Adds(i, m, n) PROVE NothingLost'
<1> SUFFICES ASSUME NEW k \in DOMAIN accepted', NEW a, a = accepted'[k]
             PROVE  ran'[a] > 0 \/ a \in gone' \union shoved' \union Waiting'
  BY DEF NothingLost
<1>1. a = m \/ (k \in DOMAIN accepted /\ a = accepted[k])
  <2>1. accepted \in Seq(Runs) /\ m \in Runs
    BY DEF Types, Adds
  <2> QED
    BY <2>1, Appended DEF Adds
<1>2. CASE a = m
  BY <1>2, AddsItems DEF Waiting
<1>3. CASE k \in DOMAIN accepted /\ a = accepted[k]
  <2>1. ran[a] > 0 \/ a \in gone \union shoved \union Waiting
    BY <1>3 DEF Core, NothingLost
  <2>2. ASSUME NEW c \in Instances, a \in queue[c].dropped PROVE a \in Waiting'
    <3>1. CASE c = i
      <4>1. a \in queue'[i].dropped
        BY <2>2, <3>1 DEF Adds
      <4> QED
        BY <4>1 DEF Waiting
    <3>2. CASE c # i
      BY <2>2, <3>2 DEF Waiting, Adds, KeepsItems
    <3> QED
      BY <3>1, <3>2
  <2>3. ASSUME NEW c \in Instances, a \in Elements(queue[c].items) PROVE a \in Waiting' \union gone'
    <3>1. CASE c = i
      <4>1. PICK p \in DOMAIN queue[i].items : queue[i].items[p] = a
        BY <2>3, <3>1 DEF Elements
      <4>2. CASE p <= n
        BY <4>1, <4>2 DEF Waiting, Adds
      <4>3. CASE ~(p <= n)
        <5>1. p \in Nat /\ n \in Nat
          BY PlanType DEF Adds
        <5>2. p - n \in DOMAIN queue'[i].items /\ queue'[i].items[p - n] = a
          BY <4>1, <4>3, <5>1, AddsItems
        <5>3. a \in Elements(queue'[i].items)
          BY <5>2 DEF Elements
        <5> QED
          BY <5>3 DEF Waiting
      <4> QED
        BY <4>2, <4>3
    <3>2. CASE c # i
      BY <2>3, <3>2 DEF Waiting, Adds, KeepsItems
    <3> QED
      BY <3>1, <3>2
  <2> QED
    BY <2>1, <2>2, <2>3 DEF Waiting, Adds
<1> QED
  BY <1>1, <1>2, <1>3

LEMMA AddsStep ==
    ASSUME Types, Core, NEW i \in Instances, NEW m, NEW n, Adds(i, m, n) PROVE Core'
<1>1. \A j \in Instances : Elements(Plan(j)') \subseteq Elements(Plan(j))
  BY PlanKept DEF Adds
<1>2. Elements(queue'[i].items) \subseteq Elements(queue[i].items) \union {m}
  BY AddsItems
<1>3. \A j \in Instances \ {i} : queue'[j].items = queue[j].items /\ queue'[j].items = <<>>
  BY DEF Adds, KeepsItems
<1>4. m \in Runs /\ m \notin Elements(accepted) /\ ran' = ran
      /\ accepted' = Append(accepted, m) /\ accepted \in Seq(Runs)
  BY DEF Adds, Types
<1>5. Loose'
  BY DEF Adds, Loose
<1>6. Accepted'
  <2>1. Elements(accepted') = Elements(accepted) \union {m}
    BY <1>4, AppendedElements
  <2>2. Injective(accepted')
    BY <1>4, InjectiveGrows DEF Core, Accepted
  <2> QED
    BY <1>1, <1>2, <1>3, <1>4, <2>1, <2>2 DEF Core, Accepted
<1>7. Alone'
  <2>1. \A j \in Instances : m \notin Elements(Plan(j))
    BY <1>4 DEF Core, Accepted
  <2> QED
    BY <1>1, <1>2, <1>3, <2>1 DEF Core, Alone
<1>8. Once'
  <2>1. ran[m] = 0
    <3>1. ~(ran[m] > 0) /\ ran[m] \in Nat
      BY <1>4 DEF Core, Accepted, Types
    <3> QED
      BY <3>1
  <2> QED
    BY <1>1, <1>2, <1>3, <1>4, <2>1 DEF Core, Once
<1>9. Shape'
  <2>1. \A j \in Instances : KeepsPlan(j)
    BY DEF Adds
  <2>2. Shape
    BY DEF Core
  <2> QED
    BY <2>1, <2>2, ShapeKept DEF Shape
<1> QED
  BY <1>5, <1>6, <1>7, <1>8, <1>9, OrderedAdds, FrontAdds, LostAdds DEF Core

----------------------------------------------------------------------------
(* Types, and room for another queue.                                        *)

Others ==
    /\ active \in {"none", "foreground", "followup"}
    /\ delivery \in [Runs -> {"new", "observed", "queued", "refused"}]
    /\ aborted \subseteq Abortable /\ recent \subseteq Messages
    /\ forgotten \in [Messages -> Nat]
    /\ gone \subseteq Runs /\ shoved \subseteq Runs
    /\ uprooted \in BOOLEAN

LEMMA TypeParts == TypeOK <=> Types /\ Coupled(queue, drain) /\ Others
BY DEF TypeOK, Types, Coupled, Others

LEMMA TypePartsNext == TypeOK' <=> Types' /\ Coupled(queue', drain') /\ Others'
BY DEF TypeOK, Types, Coupled, Others

LEMMA RoomKept ==
    ASSUME Room, Orphans' \subseteq Orphans, used'.clears = used.clears,
           used' \in [foreground : Nat, failures : Nat, clears : 0 .. MaxClears]
    PROVE  Room'
<1>1. IsFiniteSet(Orphans)
  BY Objects, FS_Subset DEF Orphans
<1>2. Cardinality(Orphans') <= Cardinality(Orphans) /\ IsFiniteSet(Orphans')
  BY <1>1, FS_Subset
<1>3. Cardinality(Orphans) \in Nat /\ Cardinality(Orphans') \in Nat
  BY <1>1, <1>2, FS_CardinalityType
<1>4. used.clears \in Nat /\ Cardinality(Orphans) <= used.clears
  BY Objects DEF Room
<1>5. Cardinality(Orphans') <= used'.clears
  BY <1>2, <1>3, <1>4
<1> QED
  BY <1>5 DEF Room

(* There is always an object for a new queue. *)
LEMMA TargetFree ==
    ASSUME Types, Room
    PROVE  /\ Target \in Instances
           /\ current = 0 => drain[Target].pc = "off"
<1>1. CASE current # 0
  BY <1>1 DEF Target, Types
<1>2. CASE current = 0
  <2>1. Orphans = {i \in Instances : drain[i].pc # "off"}
    BY <1>2, Objects DEF Orphans
  <2>2. \E i \in Instances : drain[i].pc = "off"
    <3> SUFFICES ASSUME \A i \in Instances : drain[i].pc # "off" PROVE FALSE
      OBVIOUS
    <3>1. Orphans = Instances
      BY <2>1
    <3>2. Cardinality(Orphans) = MaxClears + 1 /\ MaxClears \in Nat
      BY <3>1, Objects
    <3>3. used.clears \in 0 .. MaxClears /\ Cardinality(Orphans) <= used.clears
      BY DEF Room
    <3> QED
      BY <3>2, <3>3
  <2>3. Target = CHOOSE i \in Instances : drain[i].pc = "off"
    BY <1>2 DEF Target
  <2> QED
    BY <2>2, <2>3
<1> QED
  BY <1>1, <1>2

----------------------------------------------------------------------------
(* The actions.                                                              *)

LEMMA OldQuiet == ASSUME IInv, KeepsHistory, UNCHANGED <<queue, drain, current>>
                  PROVE Quiet /\ Orphans' = Orphans /\ Coupled(queue', drain')
<1>1. Types' /\ Coupled(queue', drain')
  BY TypeParts DEF IInv, Types, KeepsHistory
<1>2. \A i \in Instances : KeepsPlan(i) /\ KeepsItems(i)
  BY DEF KeepsPlan, SamePlan, KeepsItems
<1>3. KeepsMap
  BY <1>1 DEF KeepsMap, IInv, Core, Loose
<1> QED
  BY <1>1, <1>2, <1>3 DEF Quiet, Orphans

LEMMA BecameQuiet ==
    ASSUME IInv, KeepsHistory, NEW s, Become(s), Quieted(queue, drain, current, s)
    PROVE  Quiet /\ Orphans' \subseteq Orphans /\ Coupled(queue', drain')
<1>0. queue' = s.queue /\ drain' = s.drain /\ current' = s.current
  BY DEF Become
<1>1. Types' /\ Coupled(queue', drain')
  <2>1. Types
    BY TypeParts DEF IInv
  <2>2. queue' \in [Instances -> QueueState] /\ drain' \in [Instances -> DrainState]
        /\ current' \in {current, 0} /\ Coupled(queue', drain')
    BY <1>0 DEF Quieted
  <2> QED
    BY <2>1, <2>2 DEF Types, KeepsHistory
<1>2. \A i \in Instances : KeepsPlan(i)
  <2>1. \A i \in Instances : drain'[i] = drain[i] \/ Resting(drain'[i])
    BY <1>0 DEF Quieted
  <2> QED
    BY <2>1 DEF KeepsPlan, SamePlan
<1>3. \A i \in Instances : KeepsItems(i)
  BY <1>0 DEF Quieted, KeepsItems
<1>4. current' \in {current, 0}
      /\ (current' # current => queue[current].items = <<>> /\ queue[current].dropped = {}
                                /\ drain'[current].pc = "off")
  BY <1>0 DEF Quieted
<1>5. \A i \in Instances : i # current' => queue'[i].items = <<>> /\ queue'[i].dropped = {}
  <2> TAKE i \in Instances
  <2>1. CASE i # current
    BY <1>3, <2>1 DEF KeepsItems, IInv, Core, Loose
  <2>2. CASE i = current /\ i # current'
    BY <1>3, <1>4, <2>2 DEF KeepsItems
  <2> QED
    BY <2>1, <2>2
<1>6. Orphans' \subseteq Orphans
  <2>1. \A i \in Instances : i # current /\ drain'[i].pc # "off" => drain[i].pc # "off"
    BY <1>0 DEF Quieted
  <2> QED
    BY <1>4, <2>1 DEF Orphans
<1> QED
  BY <1>1, <1>2, <1>3, <1>4, <1>5, <1>6 DEF Quiet, KeepsMap

(* A quiet step keeps the invariant. *)
LEMMA QuietInv ==
    ASSUME IInv, Quiet, Orphans' \subseteq Orphans, Coupled(queue', drain'), Others',
           used'.clears = used.clears,
           used' \in [foreground : Nat, failures : Nat, clears : 0 .. MaxClears]
    PROVE  IInv'
<1>1. Types /\ Types' /\ Core /\ Room
  BY TypeParts DEF IInv, Quiet, KeepsMap
<1>2. Core'
  BY <1>1, QuietStep
<1>3. TypeOK'
  BY <1>1, TypePartsNext
<1>4. Room'
  BY <1>1, RoomKept
<1> QED
  BY <1>2, <1>3, <1>4 DEF IInv

LEMMA UsedKept == ASSUME Room, used' = used
    PROVE used'.clears = used.clears /\ used' \in [foreground : Nat, failures : Nat, clears : 0 .. MaxClears]
BY DEF Room

LEMMA AdmitInv == ASSUME IInv, NEW i \in Instances, Admit(i) PROVE IInv'
<1>1. KeepsHistory /\ queue' = queue /\ current' = current /\ used' = used
  BY DEF Admit, history, KeepsHistory
<1>2. drain \in [Instances -> DrainState] /\ Types /\ Core /\ Room /\ Others /\ Coupled(queue, drain)
  BY TypeParts DEF IInv, Types
<1>3. /\ drain' \in [Instances -> DrainState]
      /\ \A j \in Instances : j # i => drain'[j] = drain[j]
      /\ drain'[i].pc = "running" /\ drain[i].pc = "admit"
      /\ drain'[i].batch = drain[i].batch /\ drain'[i].rest = drain[i].rest
      /\ drain'[i].take = drain[i].take /\ drain'[i].covers = drain[i].covers
      /\ drain'[i].over = drain[i].over
  BY <1>2 DEF Admit, DrainState
<1>4. \A j \in Instances : SamePlan(j) /\ (drain'[j].pc # "off" <=> drain[j].pc # "off")
  <2> TAKE j \in Instances
  <2>1. CASE j = i
    BY <1>3, <2>1 DEF SamePlan, UnderWay
  <2>2. CASE j # i
    BY <1>3, <2>2 DEF SamePlan
  <2> QED
    BY <2>1, <2>2
<1>5. Coupled(queue', drain')
  BY <1>1, <1>2, <1>4 DEF Coupled
<1>6. Orphans' \subseteq Orphans
  BY <1>1, <1>4 DEF Orphans
<1>7. Types'
  BY <1>1, <1>2, <1>3 DEF Types, KeepsHistory
<1>8. Quiet
  BY <1>1, <1>2, <1>4, <1>7 DEF Quiet, KeepsMap, KeepsItems, KeepsPlan, Core, Loose
<1>9. Others'
  BY <1>2 DEF Admit, Others, history
<1> QED
  BY <1>1, <1>2, <1>5, <1>6, <1>8, <1>9, QuietInv, UsedKept

LEMMA DeferInv == ASSUME IInv, NEW i \in Instances, Defer(i) PROVE IInv'
<1>1. KeepsHistory /\ used' = used /\ Become(Finally(queue, i)) /\ drain[i].pc # "off"
  BY DEF Defer, history, KeepsHistory
<1>2. Types /\ Room /\ Others /\ Coupled(queue, drain)
  BY TypeParts DEF IInv
<1>3. Quieted(queue, drain, current, Finally(queue, i))
  BY <1>1, <1>2, FinallyQuiet DEF Types
<1>4. Others'
  BY <1>2 DEF Defer, Others, history
<1> QED
  BY <1>1, <1>2, <1>3, <1>4, BecameQuiet, QuietInv, UsedKept

LEMMA RunThrowsInv == ASSUME IInv, NEW i \in Instances, RunThrows(i) PROVE IInv'
<1>1. KeepsHistory /\ Become(Finally(queue, i)) /\ drain[i].pc # "off"
  BY DEF RunThrows, history, KeepsHistory
<1>2. Types /\ Room /\ Others /\ Coupled(queue, drain)
  BY TypeParts DEF IInv
<1>3. Quieted(queue, drain, current, Finally(queue, i))
  BY <1>1, <1>2, FinallyQuiet DEF Types
<1>4. Others'
  BY <1>2 DEF RunThrows, Others, history
<1>5. used'.clears = used.clears /\ used' \in [foreground : Nat, failures : Nat, clears : 0 .. MaxClears]
  BY <1>2 DEF RunThrows, Room
<1> QED
  BY <1>1, <1>3, <1>4, <1>5, BecameQuiet, QuietInv

LEMMA BeginForegroundInv == ASSUME IInv, BeginForeground PROVE IInv'
<1>1. KeepsHistory /\ UNCHANGED <<queue, drain, current>>
  BY DEF BeginForeground, history, KeepsHistory
<1>2. Room /\ Others
  BY TypeParts DEF IInv
<1>4. Others'
  BY <1>2 DEF BeginForeground, Others, history
<1>5. used'.clears = used.clears /\ used' \in [foreground : Nat, failures : Nat, clears : 0 .. MaxClears]
  BY <1>2 DEF BeginForeground, Room
<1> QED
  BY <1>1, <1>4, <1>5, OldQuiet, QuietInv

LEMMA EndForegroundInv == ASSUME IInv, EndForeground PROVE IInv'
<1>1. KeepsHistory /\ used' = used /\ Become(Kick(queue, drain, current))
  BY DEF EndForeground, history, KeepsHistory
<1>2. Types /\ Room /\ Others /\ Coupled(queue, drain)
  BY TypeParts DEF IInv
<1>3. Quieted(queue, drain, current, Kick(queue, drain, current))
  BY <1>2, KickQuiet DEF Types
<1>4. Others'
  BY <1>2 DEF EndForeground, Others, history
<1> QED
  BY <1>1, <1>2, <1>3, <1>4, BecameQuiet, QuietInv, UsedKept

LEMMA ObserveInv == ASSUME IInv, NEW d \in Runs, Observe(d) PROVE IInv'
<1>1. KeepsHistory /\ UNCHANGED <<queue, drain, current>> /\ used' = used
  BY DEF Observe, history, KeepsHistory
<1>2. Room /\ Others
  BY TypeParts DEF IInv
<1>4. Others'
  BY <1>2 DEF Observe, Others, history
<1> QED
  BY <1>1, <1>2, <1>4, OldQuiet, QuietInv, UsedKept

LEMMA StutterInv == ASSUME IInv, UNCHANGED vars PROVE IInv'
<1>1. KeepsHistory /\ UNCHANGED <<queue, drain, current>> /\ used' = used
  BY DEF vars, history, KeepsHistory
<1>2. Room /\ Others
  BY TypeParts DEF IInv
<1>4. Others'
  BY <1>2 DEF vars, Others, history
<1> QED
  BY <1>1, <1>2, <1>4, OldQuiet, QuietInv, UsedKept

(* A sequence without its element at p. *)
LEMMA TakenOut ==
    ASSUME NEW s \in Seq(Runs), NEW p \in DOMAIN s, NEW t,
           t = SubSeq(s, 1, p - 1) \o SubSeq(s, p + 1, Len(s))
    PROVE  /\ t \in Seq(Runs) /\ Elements(t) \subseteq Elements(s)
           /\ \A m \in Elements(s) : m = s[p] \/ m \in Elements(t)
           /\ \A acc : Sorted(acc, s) => Sorted(acc, t)
<1> DEFINE a == SubSeq(s, 1, p - 1)
           b == SubSeq(s, p + 1, Len(s))
<1>1. p - 1 \in 0 .. Len(s) /\ p \in Nat /\ p >= 1
  OBVIOUS
<1>2. /\ a \in Seq(Runs) /\ Len(a) = p - 1 /\ Elements(a) \subseteq Elements(s)
      /\ \A x \in DOMAIN a : x \in 1 .. p - 1 /\ x \in DOMAIN s /\ a[x] = s[x]
  BY <1>1, TakenFront
<1>3. /\ b \in Seq(Runs) /\ Elements(b) \subseteq Elements(s)
      /\ \A x \in DOMAIN b : x + p \in DOMAIN s /\ b[x] = s[x + p]
      /\ \A y \in DOMAIN s : y > p => y - p \in DOMAIN b /\ b[y - p] = s[y]
  BY <1>1, TakenOff
<1>4. \A x \in DOMAIN s : x < p => x \in DOMAIN a
  BY <1>1, <1>2
<1> HIDE DEF a, b
<1>5. t = a \o b
  BY DEF a, b
<1>6. t \in Seq(Runs) /\ Elements(t) = Elements(a) \union Elements(b)
      /\ DOMAIN t = 1 .. Len(a) + Len(b)
  <2>1. a \o b \in Seq(Runs) /\ DOMAIN (a \o b) = 1 .. Len(a) + Len(b)
    BY <1>2, <1>3, Joined
  <2>2. Elements(a \o b) = Elements(a) \union Elements(b)
    BY <1>2, <1>3, JoinedElements
  <2> QED
    BY <1>5, <2>1, <2>2
<1>7. ASSUME NEW m \in Elements(s) PROVE m = s[p] \/ m \in Elements(t)
  <2>1. PICK x \in DOMAIN s : s[x] = m
    BY DEF Elements
  <2>2. CASE x < p
    <3>1. x \in DOMAIN a /\ a[x] = m
      BY <1>2, <1>4, <2>1, <2>2
    <3> QED
      BY <1>6, <3>1 DEF Elements
  <2>3. CASE x > p
    <3>1. x - p \in DOMAIN b /\ b[x - p] = m
      BY <1>3, <2>1, <2>3
    <3> QED
      BY <1>6, <3>1 DEF Elements
  <2>4. CASE x = p
    BY <2>1, <2>4
  <2> QED
    BY <1>1, <2>2, <2>3, <2>4
<1>8. ASSUME NEW x \in DOMAIN t
      PROVE  \E z \in DOMAIN s : t[x] = s[z] /\ z = IF x <= p - 1 THEN x ELSE x + 1
  <2>1. t[x] = IF x <= Len(a) THEN a[x] ELSE b[x - Len(a)]
    <3>1. x \in DOMAIN (a \o b)
      BY <1>5
    <3>2. (a \o b)[x] = IF x <= Len(a) THEN a[x] ELSE b[x - Len(a)]
      BY <1>2, <1>3, <3>1, JoinedAt
    <3> QED
      BY <1>5, <3>2
  <2>2. CASE x <= p - 1
    <3>1. x \in DOMAIN a
      BY <1>2, <1>6, <2>2
    <3> QED
      BY <1>2, <2>1, <2>2, <3>1
  <2>3. CASE ~(x <= p - 1)
    <3>1. x - (p - 1) \in DOMAIN b /\ (x - (p - 1)) + p = x + 1
      <4>1. Len(b) \in Nat /\ DOMAIN b = 1 .. Len(b)
        BY <1>3
      <4>2. x \in 1 .. (p - 1) + Len(b)
        BY <1>2, <1>6
      <4>3. ASSUME NEW n \in Nat, NEW k \in Nat, k >= 1, NEW y \in 1 .. (k - 1) + n, ~(y <= k - 1)
            PROVE  y - (k - 1) \in 1 .. n /\ (y - (k - 1)) + k = y + 1
        BY <4>3
      <4> QED
        BY <1>1, <2>3, <4>1, <4>2, <4>3
    <3>2. t[x] = b[x - (p - 1)]
      BY <1>2, <2>1, <2>3
    <3> QED
      BY <1>3, <2>3, <3>1, <3>2
  <2> QED
    BY <2>2, <2>3
<1>9. ASSUME NEW acc, Sorted(acc, s), NEW x \in DOMAIN t, NEW y \in DOMAIN t, x < y
      PROVE  Before(acc, t[x], t[y])
  <2>1. PICK u \in DOMAIN s : t[x] = s[u] /\ u = IF x <= p - 1 THEN x ELSE x + 1
    BY <1>8
  <2>2. PICK v \in DOMAIN s : t[y] = s[v] /\ v = IF y <= p - 1 THEN y ELSE y + 1
    BY <1>8
  <2>3. u < v
    BY <1>1, <1>6, <1>9, <2>1, <2>2
  <2> QED
    BY <1>9, <2>1, <2>2, <2>3 DEF Sorted
<1> QED
  BY <1>2, <1>3, <1>6, <1>7, <1>9 DEF Sorted

LEMMA DropAbortedInv == ASSUME IInv, NEW i \in Instances, DropAborted(i) PROVE IInv'
<1>1. Types /\ Room /\ Core /\ Coupled(queue, drain) /\ Others
  BY TypeParts DEF IInv
<1>2. PICK p \in AbortedItems(queue[i]) :
         LET q == queue[i]
             items == SubSeq(q.items, 1, p - 1) \o SubSeq(q.items, p + 1, Len(q.items)) IN
         /\ queue' = [queue EXCEPT ![i].items = items, ![i].dropped = IF items = <<>> THEN {} ELSE @]
         /\ gone' = gone \union {q.items[p]}
         /\ shoved' = IF items = <<>> THEN shoved \union q.dropped ELSE shoved
  BY DEF DropAborted
<1>3. /\ drain[i].pc = "debounce" /\ drain' = drain /\ current' = current /\ active' = active
      /\ delivery' = delivery /\ aborted' = aborted /\ recent' = recent /\ used' = used
      /\ accepted' = accepted /\ ran' = ran /\ uprooted' = uprooted /\ forgotten' = forgotten
  BY DEF DropAborted
<1> DEFINE old == queue[i].items
           items == SubSeq(old, 1, p - 1) \o SubSeq(old, p + 1, Len(old))
           dropped == IF items = <<>> THEN {} ELSE queue[i].dropped
<1>4. p \in DOMAIN old /\ old \in Seq(Runs) /\ queue[i].dropped \subseteq Runs
      /\ queue[i] \in QueueState
  BY <1>1 DEF AbortedItems, Types, QueueState
<1>5. /\ queue' = [queue EXCEPT ![i].items = items, ![i].dropped = dropped]
      /\ gone' = gone \union {old[p]}
      /\ shoved' = IF items = <<>> THEN shoved \union queue[i].dropped ELSE shoved
  BY <1>2
<1>6. /\ items \in Seq(Runs) /\ Elements(items) \subseteq Elements(old)
      /\ \A m \in Elements(old) : m = old[p] \/ m \in Elements(items)
      /\ \A acc : Sorted(acc, old) => Sorted(acc, items)
  BY <1>4, TakenOut
<1> HIDE DEF items
<1>7. dropped \in SUBSET Runs
  BY <1>4
<1>8. /\ queue' \in [Instances -> QueueState]
      /\ queue'[i].items = items /\ queue'[i].dropped = dropped
      /\ \A j \in Instances \ {i} : queue'[j] = queue[j]
      /\ \A j \in Instances : queue'[j].draining = queue[j].draining
  <2>1. queue \in [Instances -> QueueState]
    BY <1>1 DEF Types
  <2> HIDE DEF dropped
  <2> QED
    BY <1>5, <1>6, <1>7, <2>1 DEF QueueState
<1> HIDE DEF old
<1>9. i = current
  BY <1>1, <1>4 DEF Core, Loose, old
<1>10. \A j \in Instances : Plan(j)' = Plan(j)
  BY <1>3 DEF Plan
<1>11. Plan(i) = <<>> /\ DOMAIN <<>> = {} /\ Len(<<>>) = 0 /\ Elements(<<>>) = {}
  <2>1. Resting(drain[i]) /\ <<>> \o <<>> = <<>>
    BY <1>1, <1>3 DEF Core, Shape, UnderWay
  <2> QED
    BY <2>1 DEF Plan, Resting, Elements
<1>12. \A j \in Instances : Elements(queue'[j].items) \subseteq Elements(queue[j].items)
  BY <1>6, <1>8 DEF old
<1>13. Types' /\ Coupled(queue', drain')
  BY <1>1, <1>3, <1>8 DEF Types, Coupled
<1>14. Loose' /\ Shape'
  BY <1>1, <1>3, <1>8, <1>9 DEF Core, Loose, Shape
<1>15. Accepted' /\ Alone' /\ Once'
  <2>1. Accepted'
    BY <1>1, <1>3, <1>10, <1>12 DEF Core, Accepted
  <2>2. Alone'
    BY <1>1, <1>10, <1>12 DEF Core, Alone
  <2>3. Once'
    BY <1>1, <1>3, <1>10, <1>12 DEF Core, Once
  <2> QED
    BY <2>1, <2>2, <2>3
<1>16. Ordered'
  <2>1. \A j \in Instances : Sorted(accepted, queue'[j].items)
    BY <1>1, <1>6, <1>8 DEF Core, Ordered, old
  <2> QED
    BY <1>1, <1>3, <1>10, <1>12, <2>1 DEF Core, Ordered
<1>17. Front'
  <2>1. \A j \in Instances \ {i} : queue'[j].items = queue[j].items /\ Plan(j)' = Plan(j)
    BY <1>8, <1>10
  <2>2. Plan(i)' = <<>> /\ Len(queue'[i].items) \in Nat
    BY <1>6, <1>8, <1>10, <1>11
  <2>3. \A j \in Instances : \A x \in DOMAIN queue'[j].items, y \in DOMAIN Plan(j)' :
           queue'[j].items[x] = Plan(j)'[y] => x <= y
    BY <1>1, <1>11, <2>1, <2>2 DEF Core, Front
  <2>4. \A j \in Instances : j = current' =>
           /\ Len(Plan(j)') <= Len(queue'[j].items)
           /\ \A x \in DOMAIN Plan(j)' : queue'[j].items[x] = Plan(j)'[x]
    BY <1>3, <1>9, <1>11, <2>2
  <2> QED
    BY <2>3, <2>4 DEF Front
<1>18. NothingLost'
  <2> SUFFICES ASSUME NEW k \in DOMAIN accepted, NEW a, a = accepted[k]
               PROVE  ran[a] > 0 \/ a \in gone' \union shoved' \union Waiting'
    BY <1>3 DEF NothingLost
  <2>1. ran[a] > 0 \/ a \in gone \union shoved \union Waiting
    BY <1>1 DEF Core, NothingLost
  <2>2. ASSUME a \in Waiting PROVE a \in gone' \union shoved' \union Waiting'
    <3>1. PICK j \in Instances : a \in Elements(queue[j].items) \union queue[j].dropped
      BY <2>2 DEF Waiting
    <3>2. CASE j # i
      BY <1>8, <3>1, <3>2 DEF Waiting
    <3>3. CASE j = i /\ a \in Elements(old)
      <4>1. a \in gone' \/ a \in Elements(queue'[i].items)
        BY <1>5, <1>6, <1>8, <3>3
      <4> QED
        BY <4>1 DEF Waiting
    <3>4. CASE j = i /\ a \in queue[i].dropped
      <4>1. CASE items = <<>>
        BY <1>5, <3>4, <4>1
      <4>2. CASE items # <<>>
        <5>1. a \in queue'[i].dropped
          BY <1>8, <3>4, <4>2
        <5> QED
          BY <5>1 DEF Waiting
      <4> QED
        BY <4>1, <4>2
    <3> QED
      BY <3>1, <3>2, <3>3, <3>4 DEF old
  <2> QED
    BY <1>5, <2>1, <2>2
<1>19. Others'
  <2>1. old[p] \in Runs
    BY <1>4 DEF old
  <2>2. gone' \subseteq Runs /\ shoved' \subseteq Runs
    BY <1>1, <1>4, <1>5, <2>1 DEF Others
  <2> QED
    BY <1>1, <1>3, <2>2 DEF Others
<1>20. Room'
  <2>1. Orphans' \subseteq Orphans
    BY <1>3 DEF Orphans
  <2> QED
    BY <1>1, <1>3, <2>1, RoomKept, UsedKept
<1>21. TypeOK'
  BY <1>13, <1>19, TypePartsNext
<1> QED
  BY <1>14, <1>15, <1>16, <1>17, <1>18, <1>20, <1>21 DEF IInv, Core

LEMMA DebouncedInv == ASSUME IInv, NEW i \in Instances, Debounced(i) PROVE IInv'
<1>1. KeepsHistory /\ used' = used /\ drain[i].pc = "debounce"
  BY DEF Debounced, history, KeepsHistory
<1>2. Types /\ Room /\ Others /\ Coupled(queue, drain) /\ Core
  BY TypeParts DEF IInv
<1>3. Others'
  BY <1>2 DEF Debounced, Others, history
<1>4. CASE Break(queue[i])
  <2>1. Become(Finally(queue, i))
    BY <1>4 DEF Debounced
  <2>2. Quieted(queue, drain, current, Finally(queue, i))
    BY <1>1, <1>2, FinallyQuiet DEF Types
  <2> QED
    BY <1>1, <1>2, <1>3, <2>1, <2>2, BecameQuiet, QuietInv, UsedKept
<1>5. CASE ~Break(queue[i])
  <2> DEFINE f == IF queue[i].mode # "collect" THEN queue[i].forced
                  ELSE Cross(queue[i].items) \/ (queue[i].forced /\ Len(queue[i].items) <= 1)
             q == [queue[i] EXCEPT !.forced = f]
  <2>1. queue' = [queue EXCEPT ![i] = q] /\ drain' = [drain EXCEPT ![i] = NextRound(queue[i])]
        /\ current' = current
    BY <1>5 DEF Debounced
  <2>2. queue[i] \in QueueState /\ queue \in [Instances -> QueueState] /\ drain \in [Instances -> DrainState]
    BY <1>2 DEF Types
  <2>3. f \in BOOLEAN
    BY <2>2 DEF QueueState
  <2> HIDE DEF f
  <2>4. q \in QueueState /\ q.items = queue[i].items /\ q.dropped = queue[i].dropped
        /\ q.draining = queue[i].draining
    BY <2>2, <2>3 DEF QueueState
  <2> HIDE DEF q
  <2>5. RoundOf(drain'[i], queue[i].items) /\ drain' \in [Instances -> DrainState]
    <3>1. RoundOf(NextRound(queue[i]), queue[i].items)
      BY <2>2, NextRoundPlan
    <3> QED
      BY <2>1, <2>2, <3>1 DEF RoundOf
  <2>6. queue' \in [Instances -> QueueState]
        /\ \A j \in Instances : KeepsItems(j) /\ queue'[j].draining = queue[j].draining
    BY <2>1, <2>2, <2>4 DEF KeepsItems
  <2>7. \A j \in Instances \ {i} : drain'[j] = drain[j]
    BY <2>1, <2>2
  <2>8. Types'
    BY <1>1, <1>2, <2>1, <2>5, <2>6 DEF Types, KeepsHistory
  <2>9. Begins(i)
    BY <1>1, <2>1, <2>5, <2>6, <2>7, <2>8 DEF Begins, UnderWay
  <2>10. Core'
    BY <1>2, <2>9, BeginsStep
  <2>11. drain'[i].pc = "admit"
    BY <2>5 DEF RoundOf
  <2>12. Coupled(queue', drain')
    <3> SUFFICES ASSUME NEW j \in Instances PROVE queue'[j].draining <=> drain'[j].pc # "off"
      BY DEF Coupled
    <3>1. queue[j].draining <=> drain[j].pc # "off"
      BY <1>2 DEF Coupled
    <3>2. drain'[j].pc # "off" <=> drain[j].pc # "off"
      BY <1>1, <2>7, <2>11
    <3>3. queue'[j].draining = queue[j].draining
      BY <2>6
    <3> QED
      BY <3>1, <3>2, <3>3
  <2>13. Orphans' \subseteq Orphans
    BY <1>1, <2>1, <2>7 DEF Orphans
  <2>14. Room'
    BY <1>1, <1>2, <2>13, RoomKept, UsedKept
  <2>15. TypeOK'
    BY <1>3, <2>8, <2>12, TypePartsNext
  <2> QED
    BY <2>10, <2>14, <2>15 DEF IInv
<1> QED
  BY <1>4, <1>5

LEMMA RoundOverAdvances ==
    ASSUME IInv, NEW i \in Instances, UnderWay(drain[i]), RoundOver(i), NEW told, Tells(i, told)
    PROVE  Advances(i, told) /\ Coupled(queue', drain') /\ Orphans' \subseteq Orphans
<1> DEFINE done == drain[i]
           items == SubSeq(queue[i].items, done.take + 1, Len(queue[i].items))
           dropped == IF done.covers # {} THEN {} ELSE queue[i].dropped
           qs == [queue EXCEPT ![i].items = items, ![i].dropped = dropped]
<1>1. Types /\ Room /\ Others /\ Coupled(queue, drain) /\ Core
  BY TypeParts DEF IInv
<1>2. /\ done.pc # "off"
      /\ accepted' = accepted
      /\ ran' = [m \in Runs |-> IF m \in told THEN ran[m] + 1 ELSE ran[m]]
  BY DEF Tells, UnderWay
<1>3. IF done.rest = <<>> THEN Become(Loop(qs, i))
      ELSE /\ queue' = qs
           /\ drain' = [drain EXCEPT ![i] = [GroupRound(done.rest, {}) EXCEPT !.over = done.over]]
           /\ current' = current
  BY DEF RoundOver
<1>4. /\ queue \in [Instances -> QueueState] /\ drain \in [Instances -> DrainState]
      /\ current \in Instances \union {0} /\ ran \in [Runs -> Nat]
      /\ queue[i] \in QueueState /\ done \in DrainState
  BY <1>1 DEF Types
<1>5. items \in Seq(Runs) /\ dropped \in SUBSET Runs
  <2>1. queue[i].items \in Seq(Runs) /\ done.take \in Nat /\ queue[i].dropped \in SUBSET Runs
    BY <1>4 DEF QueueState, DrainState
  <2>2. items \in Seq(Runs)
    BY <2>1, TakenOff
  <2> QED
    BY <2>1, <2>2
<1> HIDE DEF items, dropped
<1>6. /\ qs \in [Instances -> QueueState]
      /\ qs[i].items = items /\ qs[i].dropped = dropped
      /\ \A j \in Instances \ {i} : qs[j] = queue[j]
      /\ \A j \in Instances : qs[j].draining = queue[j].draining
  BY <1>4, <1>5 DEF QueueState
<1>7. Coupled(qs, drain)
  BY <1>1, <1>6 DEF Coupled
<1> HIDE DEF qs
<1>8. ran' \in [Runs -> Nat]
  BY <1>2, <1>4
<1>9. \A j \in Instances : j # current => qs[j].items = <<>> /\ qs[j].dropped = {}
  <2> TAKE j \in Instances
  <2> SUFFICES ASSUME j # current PROVE qs[j].items = <<>> /\ qs[j].dropped = {}
    OBVIOUS
  <2>1. queue[j].items = <<>> /\ queue[j].dropped = {}
    BY <1>1 DEF Core, Loose
  <2>2. CASE j # i
    BY <1>6, <2>1, <2>2
  <2>3. CASE j = i
    <3>1. dropped = {}
      BY <2>1, <2>3 DEF dropped
    <3>2. items = <<>>
      <4>1. done.take \in Nat /\ queue[i].items \in Seq(Runs) /\ queue[i].items = <<>>
        BY <1>4, <2>1, <2>3 DEF DrainState, QueueState
      <4>2. Elements(items) \subseteq Elements(queue[i].items)
        BY <4>1, TakenOff DEF items
      <4>3. Elements(items) = {}
        BY <4>1, <4>2 DEF Elements
      <4> QED
        BY <1>5, <4>3, Nothing
    <3> QED
      BY <1>6, <2>3, <3>1, <3>2
  <2> QED
    BY <2>2, <2>3
<1>10. CASE done.rest = <<>>
  <2> DEFINE s == Loop(qs, i)
  <2>1. queue' = s.queue /\ drain' = s.drain /\ current' = s.current
    BY <1>3, <1>10 DEF Become
  <2>2. Quieted(qs, drain, current, s) /\ Resting(s.drain[i])
    BY <1>2, <1>4, <1>6, <1>7, LoopQuiet
  <2> HIDE DEF s
  <2>3. /\ queue' \in [Instances -> QueueState] /\ drain' \in [Instances -> DrainState]
        /\ current' \in {current, 0} /\ Coupled(queue', drain')
    BY <2>1, <2>2 DEF Quieted
  <2>4. \A j \in Instances : queue'[j].items = qs[j].items /\ queue'[j].dropped = qs[j].dropped
    BY <2>1, <2>2 DEF Quieted
  <2>5. \A j \in Instances \ {i} : KeepsItems(j) /\ KeepsPlan(j)
    <3>1. \A j \in Instances : drain'[j] = drain[j] \/ Resting(drain'[j])
      BY <2>1, <2>2 DEF Quieted
    <3> QED
      BY <1>6, <2>4, <3>1 DEF KeepsItems, KeepsPlan, SamePlan
  <2>6. Resting(drain'[i])
    BY <2>1, <2>2
  <2>7. Plan(i)' = done.rest
    <3>1. <<>> \o <<>> = <<>>
      OBVIOUS
    <3> QED
      BY <1>10, <2>6, <3>1 DEF Plan, Resting
  <2>8. current' # current => qs[current].items = <<>> /\ qs[current].dropped = {} /\ drain'[current].pc = "off"
    BY <2>1, <2>2 DEF Quieted
  <2>9. \A j \in Instances : j # current' => queue'[j].items = <<>> /\ queue'[j].dropped = {}
    BY <1>9, <2>4, <2>8
  <2>10. Types'
    BY <1>1, <1>2, <1>8, <2>3 DEF Types
  <2>11. queue'[i].items = items /\ queue'[i].dropped = dropped
    BY <1>6, <2>4
  <2>12. Advances(i, told)
    BY <2>3, <2>5, <2>6, <2>7, <2>9, <2>10, <2>11 DEF Advances, items, dropped
  <2>13. Orphans' \subseteq Orphans
    <3>1. \A j \in Instances : j # current /\ drain'[j].pc # "off" => drain[j].pc # "off"
      BY <2>1, <2>2 DEF Quieted
    <3> QED
      BY <2>3, <2>8, <3>1 DEF Orphans
  <2> QED
    BY <2>3, <2>12, <2>13
<1>11. CASE done.rest # <<>>
  <2> DEFINE g == GroupRound(done.rest, {})
             r == [g EXCEPT !.over = done.over]
  <2>1. queue' = qs /\ drain' = [drain EXCEPT ![i] = r] /\ current' = current
    BY <1>3, <1>11
  <2>2. RoundOf(g, done.rest) /\ g.batch \o g.rest = done.rest /\ g.batch # <<>>
    <3>1. done.rest \in Seq(Runs) /\ {} \in SUBSET Runs
      BY <1>4 DEF DrainState
    <3> QED
      BY <1>11, <3>1, GroupRoundPlan
  <2> HIDE DEF g
  <2>3. /\ r \in DrainState /\ r.pc = "admit" /\ r.batch = g.batch /\ r.rest = g.rest
        /\ r.take = g.take /\ r.over = done.over
    <3>1. g \in DrainState /\ g.pc = "admit" /\ done.over \in BOOLEAN
      BY <1>4, <2>2 DEF RoundOf, DrainState
    <3> QED
      BY <3>1 DEF DrainState
  <2> HIDE DEF r
  <2>4. drain' \in [Instances -> DrainState] /\ drain'[i] = r /\ \A j \in Instances \ {i} : drain'[j] = drain[j]
    BY <1>4, <2>1, <2>3
  <2>5. Plan(i)' = done.rest
    BY <2>2, <2>3, <2>4 DEF Plan
  <2>6. \A j \in Instances \ {i} : KeepsItems(j) /\ KeepsPlan(j)
    BY <1>6, <2>1, <2>4 DEF KeepsItems, KeepsPlan, SamePlan
  <2>7. drain'[i].batch # <<>> /\ drain'[i].take = Len(drain'[i].batch) /\ UnderWay(drain'[i])
        /\ (done.over => drain'[i].over)
    BY <2>2, <2>3, <2>4 DEF RoundOf, UnderWay
  <2>8. Types'
    BY <1>1, <1>2, <1>6, <1>8, <2>1, <2>4 DEF Types
  <2>9. \A j \in Instances : j # current' => queue'[j].items = <<>> /\ queue'[j].dropped = {}
    BY <1>9, <2>1
  <2>10. queue'[i].items = items /\ queue'[i].dropped = dropped
    BY <1>6, <2>1
  <2>11. Advances(i, told)
    BY <2>1, <2>5, <2>6, <2>7, <2>8, <2>9, <2>10 DEF Advances, items, dropped
  <2>12. \A j \in Instances : drain'[j].pc # "off" <=> drain[j].pc # "off"
    <3> TAKE j \in Instances
    <3>1. CASE j = i
      BY <1>2, <2>3, <2>4, <3>1
    <3>2. CASE j # i
      BY <2>4, <3>2
    <3> QED
      BY <3>1, <3>2
  <2>13. Coupled(queue', drain')
    BY <1>7, <2>1, <2>12 DEF Coupled
  <2>14. Orphans' \subseteq Orphans
    BY <2>1, <2>12 DEF Orphans
  <2> QED
    BY <2>11, <2>13, <2>14
<1> QED
  BY <1>10, <1>11

(* The histories of the two actions that end a round. *)
LEMMA UntoldType ==
    ASSUME Types, NEW i \in Instances
    PROVE  /\ drain[i].covers \subseteq Runs /\ Elements(drain[i].batch) \subseteq Runs
           /\ TakenUntold(queue[i], drain[i]) \subseteq Runs
<1>1. drain[i].covers \subseteq Runs /\ queue[i].items \in Seq(Runs) /\ queue[i].dropped \subseteq Runs
      /\ drain[i].batch \in Seq(Runs)
  BY DEF Types, DrainState, QueueState
<1>2. {queue[i].items[k] : k \in DOMAIN queue[i].items \intersect (1 .. drain[i].take)} \subseteq Runs
  BY <1>1
<1>3. TakenUntold(queue[i], drain[i]) \subseteq Runs
  BY <1>1, <1>2 DEF TakenUntold
<1> QED
  BY <1>1, <1>3, Nothing

LEMMA RunSucceedsAdvances ==
    ASSUME IInv, NEW i \in Instances, RunSucceeds(i)
    PROVE  /\ Advances(i, Elements(drain[i].batch)) /\ Coupled(queue', drain')
           /\ Orphans' \subseteq Orphans
<1>1. UnderWay(drain[i]) /\ RoundOver(i)
  BY DEF RunSucceeds, UnderWay
<1>2. accepted' = accepted /\ gone' = gone \union drain[i].covers /\ shoved' = Shoved(i)
      /\ ran' = [m \in Runs |-> IF In(m, drain[i].batch) THEN ran[m] + 1 ELSE ran[m]]
  BY DEF RunSucceeds
<1>3. ran' = [m \in Runs |-> IF m \in Elements(drain[i].batch) THEN ran[m] + 1 ELSE ran[m]]
  BY <1>2, InElements
<1>4. Tells(i, Elements(drain[i].batch))
  BY <1>2, <1>3 DEF Tells, Shoved
<1> QED
  BY <1>1, <1>4, RoundOverAdvances

LEMMA SkipAdvances ==
    ASSUME IInv, NEW i \in Instances, Skip(i)
    PROVE  Advances(i, {}) /\ Coupled(queue', drain') /\ Orphans' \subseteq Orphans
<1>1. UnderWay(drain[i]) /\ RoundOver(i)
  BY DEF Skip, UnderWay
<1>2. accepted' = accepted /\ ran' = ran /\ gone' = gone \union Elements(drain[i].batch)
      /\ shoved' = Shoved(i) \union drain[i].covers
  BY DEF Skip
<1>3. ran' = [m \in Runs |-> IF m \in {} THEN ran[m] + 1 ELSE ran[m]]
  <2>1. ran \in [Runs -> Nat]
    BY DEF IInv, TypeOK
  <2> QED
    BY <1>2, <2>1
<1>4. Tells(i, {})
  BY <1>2, <1>3 DEF Tells, Shoved
<1> QED
  BY <1>1, <1>4, RoundOverAdvances

LEMMA AdvancesInv ==
    ASSUME IInv, NEW i \in Instances, NEW told, Advances(i, told),
           Coupled(queue', drain'), Orphans' \subseteq Orphans, Others', used' = used
    PROVE  IInv'
<1>1. Types /\ Room /\ Core
  BY TypeParts DEF IInv
<1>2. Core'
  BY <1>1, AdvancesStep
<1>3. Room'
  BY <1>1, RoomKept, UsedKept
<1>4. TypeOK'
  BY TypePartsNext DEF Advances
<1> QED
  BY <1>2, <1>3, <1>4 DEF IInv

LEMMA RunSucceedsInv == ASSUME IInv, NEW i \in Instances, RunSucceeds(i) PROVE IInv'
<1>1. Types /\ Others
  BY TypeParts DEF IInv
<1>2. /\ used' = used /\ active' = "none" /\ delivery' = delivery /\ uprooted' = uprooted
      /\ aborted' = aborted /\ recent' = recent /\ forgotten' = forgotten
      /\ gone' = gone \union drain[i].covers /\ shoved' = Shoved(i)
  BY DEF RunSucceeds
<1>3. gone' \subseteq Runs /\ shoved' \subseteq Runs
  BY <1>1, <1>2, UntoldType DEF Others, Shoved
<1>4. Others'
  BY <1>1, <1>2, <1>3 DEF Others
<1> QED
  BY <1>2, <1>4, RunSucceedsAdvances, AdvancesInv

LEMMA SkipInv == ASSUME IInv, NEW i \in Instances, Skip(i) PROVE IInv'
<1>1. Types /\ Others
  BY TypeParts DEF IInv
<1>2. /\ used' = used /\ active' = active /\ delivery' = delivery /\ uprooted' = uprooted
      /\ aborted' = aborted /\ recent' = recent /\ forgotten' = forgotten
      /\ gone' = gone \union Elements(drain[i].batch)
      /\ shoved' = Shoved(i) \union drain[i].covers
  BY DEF Skip
<1>3. gone' \subseteq Runs /\ shoved' \subseteq Runs
  BY <1>1, <1>2, UntoldType DEF Others, Shoved
<1>4. Others'
  BY <1>1, <1>2, <1>3 DEF Others
<1> QED
  BY <1>2, <1>4, SkipAdvances, AdvancesInv

(* A message came to queue i, which was kept as "kept", and the drain may    *)
(* have been scheduled.                                                      *)
LEMMA Rechecked ==
    ASSUME IInv, NEW i \in Instances, i = Target, NEW kept \in QueueState,
           kept.draining = queue[i].draining, NEW over \in BOOLEAN, drain[i].over => over,
           Become(Recheck([queue EXCEPT ![i] = kept], [drain EXCEPT ![i].over = over], i))
    PROVE  /\ queue' \in [Instances -> QueueState] /\ drain' \in [Instances -> DrainState]
           /\ current' \in {i, 0} /\ Coupled(queue', drain')
           /\ \A j \in Instances \ {i} : KeepsItems(j)
           /\ \A j \in Instances : KeepsPlan(j)
           /\ queue'[i].items = kept.items /\ queue'[i].dropped = kept.dropped
           /\ current' # i => kept.items = <<>> /\ kept.dropped = {}
           /\ \A j \in Instances \ {i} : queue'[j].items = <<>> /\ queue'[j].dropped = {}
           /\ Orphans' \subseteq Orphans
           /\ current = i \/ Resting(drain[i])
           /\ Resting(drain[i]) => Resting(drain'[i])
           /\ over => drain'[i].over \/ Resting(drain'[i])
<1> DEFINE qs == [queue EXCEPT ![i] = kept]
           ds == [drain EXCEPT ![i].over = over]
           s == Recheck(qs, ds, i)
<1>1. Types /\ Room /\ Core /\ Coupled(queue, drain)
  BY TypeParts DEF IInv
<1>2. queue \in [Instances -> QueueState] /\ drain \in [Instances -> DrainState]
      /\ current \in Instances \union {0} /\ drain[i] \in DrainState
  BY <1>1 DEF Types
<1>3. qs \in [Instances -> QueueState] /\ qs[i] = kept /\ \A j \in Instances \ {i} : qs[j] = queue[j]
  BY <1>2
<1>4. /\ ds \in [Instances -> DrainState] /\ \A j \in Instances \ {i} : ds[j] = drain[j]
      /\ ds[i].pc = drain[i].pc /\ ds[i].batch = drain[i].batch /\ ds[i].take = drain[i].take
      /\ ds[i].covers = drain[i].covers /\ ds[i].rest = drain[i].rest /\ ds[i].over = over
  BY <1>2 DEF DrainState
<1> HIDE DEF qs, ds
<1>5. Coupled(qs, ds)
  <2> SUFFICES ASSUME NEW j \in Instances PROVE qs[j].draining <=> ds[j].pc # "off"
    BY DEF Coupled
  <2>1. queue[j].draining <=> drain[j].pc # "off"
    BY <1>1 DEF Coupled
  <2>2. CASE j = i
    BY <1>3, <1>4, <2>1, <2>2
  <2>3. CASE j # i
    BY <1>3, <1>4, <2>1, <2>3
  <2> QED
    BY <2>2, <2>3
<1>6. Quieted(qs, ds, i, s)
  <2>1. CASE active = "none"
    BY <1>3, <1>4, <1>5, <2>1, KickQuiet DEF Recheck
  <2>2. CASE active # "none"
    BY <1>3, <1>4, <1>5, <2>2 DEF Recheck, Quieted
  <2> QED
    BY <2>1, <2>2
<1>7. queue' = s.queue /\ drain' = s.drain /\ current' = s.current
  BY DEF Become, qs, ds
<1> HIDE DEF s
<1>8. queue' \in [Instances -> QueueState] /\ drain' \in [Instances -> DrainState]
      /\ current' \in {i, 0} /\ Coupled(queue', drain')
  BY <1>6, <1>7 DEF Quieted
<1>9. \A j \in Instances : queue'[j].items = qs[j].items /\ queue'[j].dropped = qs[j].dropped
  BY <1>6, <1>7 DEF Quieted
<1>10. \A j \in Instances : drain'[j] = ds[j] \/ Resting(drain'[j])
  BY <1>6, <1>7 DEF Quieted
<1>11. current' # i => kept.items = <<>> /\ kept.dropped = {} /\ drain'[i].pc = "off"
  BY <1>3, <1>6, <1>7 DEF Quieted
<1>12. \A j \in Instances \ {i} : drain'[j].pc # "off" => drain[j].pc # "off"
  BY <1>4, <1>6, <1>7 DEF Quieted
<1>13. current = i \/ (current = 0 /\ Resting(drain[i]))
  <2>1. CASE current # 0
    BY <2>1 DEF Target
  <2>2. CASE current = 0
    <3>1. drain[i].pc = "off"
      BY <1>1, <2>2, TargetFree
    <3> QED
      BY <1>1, <2>2, <3>1 DEF Core, Shape, UnderWay
  <2> QED
    BY <2>1, <2>2
<1>14. \A j \in Instances \ {i} : KeepsItems(j)
  BY <1>3, <1>9 DEF KeepsItems
<1>15. \A j \in Instances \ {i} : queue'[j].items = <<>> /\ queue'[j].dropped = {}
  BY <1>13, <1>14, <1>1, Objects DEF KeepsItems, Core, Loose
<1>16. ASSUME NEW j \in Instances PROVE KeepsPlan(j)
  <2>1. CASE Resting(drain'[j])
    BY <2>1 DEF KeepsPlan
  <2>2. CASE drain'[j] = ds[j] /\ j = i
    BY <1>4, <2>2 DEF KeepsPlan, SamePlan, UnderWay
  <2>3. CASE drain'[j] = ds[j] /\ j # i
    BY <1>4, <2>3 DEF KeepsPlan, SamePlan, UnderWay
  <2> QED
    BY <1>10, <2>1, <2>2, <2>3
<1>17. Orphans' \subseteq Orphans
  <2> SUFFICES ASSUME NEW j \in Orphans' PROVE j \in Orphans
    OBVIOUS
  <2>1. j \in Instances /\ j # current' /\ drain'[j].pc # "off"
    BY DEF Orphans
  <2>2. j # i
    BY <1>8, <1>11, <2>1
  <2>3. j # current
    BY <1>13, <2>1, <2>2, Objects
  <2> QED
    BY <1>12, <2>1, <2>2, <2>3 DEF Orphans
<1>18. Resting(drain[i]) => Resting(drain'[i])
  BY <1>16 DEF KeepsPlan, SamePlan, Resting
<1>19. over => drain'[i].over \/ Resting(drain'[i])
  BY <1>4, <1>10
<1>20. queue'[i].items = kept.items /\ queue'[i].dropped = kept.dropped
  BY <1>3, <1>9
<1> QED
  BY <1>8, <1>11, <1>13, <1>14, <1>15, <1>16, <1>17, <1>18, <1>19, <1>20

(* What applyQueueDropPolicy does to a queue that is not refused. *)
Kept(q, m) == [AfterDrop(q) EXCEPT !.items = Append(@, m)]
MadeRoom(q, m, n, kept) ==
    /\ n \in Nat /\ kept \in QueueState
    /\ kept.draining = q.draining
    /\ kept.items = Append(SubSeq(q.items, n + 1, Len(q.items)), m)
    /\ kept.items # <<>>
    /\ q.dropped \subseteq kept.dropped
    /\ Dropped(q) \subseteq Runs
    /\ \A p \in DOMAIN q.items : p <= n =>
          p \in 1 .. n /\ q.items[p] \in Dropped(q)
          /\ (q.drop = "old" \/ q.items[p] \in kept.dropped)
    /\ n # 0 => Dropped(q) # {}

LEMMA DropPolicy ==
    ASSUME NEW q \in QueueState, NEW m \in Runs, ~Full(q), NEW n, n = Excess(q),
           NEW kept, kept = Kept(q, m)
    PROVE  MadeRoom(q, m, n, kept)
<1> DEFINE tail == SubSeq(q.items, n + 1, Len(q.items))
           front == SubSeq(q.items, 1, n)
<1>1. q.items \in Seq(Runs) /\ q.drop \in {"summarize", "old", "new"} /\ q.dropped \subseteq Runs
      /\ Cap \in Nat /\ Cap # 0
  BY FollowupAssumption DEF QueueState
<1>2. n \in 0 .. Len(q.items) /\ (q.drop = "new" => n = 0)
  <2>1. CASE Len(q.items) < Cap \/ q.drop = "new"
    BY <1>1, <2>1 DEF Excess
  <2>2. CASE ~(Len(q.items) < Cap) /\ q.drop # "new"
    BY <1>1, <2>2 DEF Excess
  <2> QED
    BY <2>1, <2>2
<1>3. tail \in Seq(Runs)
  BY <1>1, <1>2, TakenOff
<1>4. front \in Seq(Runs) /\ Len(front) = n /\ Elements(front) \subseteq Elements(q.items)
      /\ \A p \in DOMAIN front : front[p] = q.items[p]
  BY <1>1, <1>2, TakenFront
<1>5. Dropped(q) = Elements(front)
  BY DEF Dropped
<1>7. /\ AfterDrop(q) \in QueueState /\ AfterDrop(q).items = tail
      /\ AfterDrop(q).draining = q.draining
      /\ AfterDrop(q).dropped = IF q.drop = "summarize" THEN q.dropped \union Dropped(q) ELSE q.dropped
  <2>1. Dropped(q) \subseteq Runs
    BY <1>1, <1>4, <1>5, Nothing
  <2> QED
    BY <1>1, <1>3, <2>1 DEF AfterDrop, QueueState
<1> HIDE DEF tail, front
<1>8. Append(tail, m) \in Seq(Runs) /\ Append(tail, m) # <<>>
  <2>1. Append(tail, m) \in Seq(Runs) /\ Len(Append(tail, m)) = Len(tail) + 1 /\ Len(tail) \in Nat
    BY <1>3, Appended
  <2>2. Len(Append(tail, m)) # 0
    BY <2>1
  <2> QED
    BY <2>1, <2>2, EmptySeq
<1>9. kept \in QueueState /\ kept.items = Append(tail, m) /\ kept.draining = q.draining
      /\ kept.dropped = AfterDrop(q).dropped
  BY <1>7, <1>8 DEF Kept, QueueState
<1>10. ASSUME NEW p \in DOMAIN q.items, p <= n
       PROVE  p \in 1 .. n /\ q.items[p] \in Dropped(q) /\ (q.drop = "old" \/ q.items[p] \in kept.dropped)
  <2>1. p \in DOMAIN front /\ p \in 1 .. n
    BY <1>1, <1>2, <1>4, <1>10
  <2>2. q.items[p] \in Dropped(q)
    BY <1>4, <1>5, <2>1 DEF Elements
  <2>3. q.drop # "new"
    BY <1>2, <2>1
  <2> QED
    BY <1>1, <1>7, <1>9, <2>1, <2>2, <2>3
<1>11. n # 0 => Dropped(q) # {}
  <2>1. n # 0 => 1 \in DOMAIN q.items /\ 1 <= n
    BY <1>1, <1>2
  <2> QED
    BY <1>10, <2>1
<1>12. Dropped(q) \subseteq Runs
  BY <1>1, <1>4, <1>5, Nothing
<1>13. q.dropped \subseteq kept.dropped
  BY <1>7, <1>9
<1>14. kept.items = Append(SubSeq(q.items, n + 1, Len(q.items)), m) /\ kept.items # <<>>
  BY <1>8, <1>9 DEF tail
<1>15. n \in Nat
  BY <1>2
<1> QED
  BY <1>9, <1>10, <1>11, <1>12, <1>13, <1>14, <1>15 DEF MadeRoom

LEMMA EnqueueInv ==
    ASSUME IInv, Delivered, NEW d \in Runs, NEW mode \in Modes, NEW drop \in DropPolicies,
           Enqueue(d, mode, drop)
    PROVE  IInv'
<1> DEFINE m == d
           i == Target
           q == Got(mode, drop)
           refused == Duplicate(d, q) \/ Full(q)
           kept == IF refused THEN q ELSE [AfterDrop(q) EXCEPT !.items = Append(@, m)]
           over == drain[i].over \/ (drain[i].pc # "off" /\ ~refused /\ Dropped(q) # {})
<1>1. Types /\ Room /\ Core /\ Coupled(queue, drain) /\ Others
  BY TypeParts DEF IInv
<1>2. /\ delivery' = [delivery EXCEPT ![d] = IF refused THEN "refused" ELSE "queued"]
      /\ recent' = IF refused \/ d \in Anonymous THEN recent ELSE recent \union {MessageOf[d]}
      /\ accepted' = IF refused THEN accepted ELSE Append(accepted, d)
      /\ gone' = IF refused \/ drop # "old" THEN gone ELSE gone \union Dropped(q)
      /\ Become(Recheck([queue EXCEPT ![i] = kept],
                        [drain EXCEPT ![i].over = @ \/ (drain[i].pc # "off" /\ ~refused /\ Dropped(q) # {})], i))
  BY DEF Enqueue
<1>3. /\ active' = active /\ used' = used /\ ran' = ran /\ shoved' = shoved /\ uprooted' = uprooted
      /\ aborted' = aborted /\ forgotten' = forgotten
  BY DEF Enqueue
<1>4. i \in Instances /\ i = Target /\ m \in Runs
      /\ mode \in {"followup", "collect"} /\ drop \in {"summarize", "old", "new"}
  BY <1>1, TargetFree, FollowupAssumption
<1>10. d \notin Elements(accepted) /\ MessageOf[d] \in Messages /\ recent \subseteq Messages
  <2>1. delivery[d] = "observed"
    BY DEF Enqueue
  <2> QED
    BY <1>1, <2>1, FollowupAssumption DEF Delivered, Others
<1>11. recent' \subseteq Messages
  BY <1>2, <1>10
<1>5. queue[i] \in QueueState /\ drain[i] \in DrainState /\ drain \in [Instances -> DrainState]
  BY <1>1, <1>4 DEF Types
<1>6. over \in BOOLEAN /\ (drain[i].over => over)
      /\ [drain EXCEPT ![i].over = @ \/ (drain[i].pc # "off" /\ ~refused /\ Dropped(q) # {})]
         = [drain EXCEPT ![i].over = over]
  BY <1>4, <1>5 DEF DrainState
<1>7. q \in QueueState /\ q.draining = queue[i].draining /\ q.drop = drop
      /\ q.items = queue[i].items /\ q.dropped = queue[i].dropped
  <2>1. CASE current # 0
    <3>1. i = current /\ q = [queue[i] EXCEPT !.mode = mode, !.drop = drop]
      BY <2>1 DEF Target, Got
    <3> QED
      BY <1>4, <1>5, <3>1 DEF QueueState
  <2>2. CASE current = 0
    <3>1. queue[i].items = <<>> /\ queue[i].dropped = {}
      BY <1>1, <1>4, <2>2, Objects DEF Core, Loose
    <3>2. drain[i].pc = "off"
      BY <1>1, <2>2, TargetFree
    <3>3. queue[i].draining = FALSE
      BY <1>1, <1>4, <1>5, <3>2 DEF Coupled, QueueState
    <3>4. q = NewQueue(mode, drop) /\ <<>> \in Seq(Runs) /\ {} \in SUBSET Runs
      BY <2>2 DEF Got
    <3>5. q = [items |-> <<>>, draining |-> FALSE, mode |-> mode, drop |-> drop,
               forced |-> FALSE, dropped |-> {}]
      BY <3>4 DEF NewQueue
    <3> HIDE DEF q, i
    <3>6. q \in QueueState
      BY <1>4, <3>4, <3>5 DEF QueueState
    <3>7. q.items = <<>> /\ q.dropped = {} /\ q.drop = drop /\ q.draining = FALSE
      BY <3>5
    <3> QED
      BY <3>1, <3>3, <3>6, <3>7
  <2> QED
    BY <2>1, <2>2
<1> HIDE DEF m, i, q
<1>8. CASE refused
  <2>1. kept \in QueueState /\ kept.draining = queue[i].draining /\ kept = q
    BY <1>7, <1>8
  <2>2. Become(Recheck([queue EXCEPT ![i] = kept], [drain EXCEPT ![i].over = over], i))
    BY <1>2, <1>6
  <2> HIDE DEF kept, over, refused
  <2>3. /\ queue' \in [Instances -> QueueState] /\ drain' \in [Instances -> DrainState]
        /\ current' \in {i, 0} /\ Coupled(queue', drain')
        /\ \A j \in Instances \ {i} : KeepsItems(j)
        /\ \A j \in Instances : KeepsPlan(j)
        /\ queue'[i].items = kept.items /\ queue'[i].dropped = kept.dropped
        /\ current' # i => kept.items = <<>> /\ kept.dropped = {}
        /\ \A j \in Instances \ {i} : queue'[j].items = <<>> /\ queue'[j].dropped = {}
        /\ Orphans' \subseteq Orphans
        /\ current = i \/ Resting(drain[i])
        /\ Resting(drain[i]) => Resting(drain'[i])
    BY <1>4, <1>6, <2>1, <2>2, Rechecked
  <2>4. KeepsHistory
    BY <1>2, <1>3, <1>8 DEF KeepsHistory
  <2>5. Types'
    BY <1>1, <1>4, <2>3, <2>4 DEF Types, KeepsHistory
  <2>6. \A j \in Instances : KeepsItems(j)
    BY <1>7, <2>1, <2>3 DEF KeepsItems
  <2>7. KeepsMap
    BY <2>3, <2>5 DEF KeepsMap
  <2>8. Quiet
    BY <2>3, <2>4, <2>6, <2>7 DEF Quiet
  <2>9. Others'
    BY <1>1, <1>2, <1>3, <1>8, <1>11 DEF Others
  <2> QED
    BY <1>1, <1>3, <2>3, <2>8, <2>9, QuietInv, UsedKept
<1>9. CASE ~refused
  <2> DEFINE n == Excess(q)
  <2>1. m \notin Elements(accepted) /\ ~Full(q)
    BY <1>9, <1>10 DEF m
  <2>2. kept = Kept(q, m)
    BY <1>9 DEF Kept
  <2>3. Become(Recheck([queue EXCEPT ![i] = kept], [drain EXCEPT ![i].over = over], i))
    BY <1>2, <1>6
  <2>4. over = (drain[i].over \/ (drain[i].pc # "off" /\ Dropped(q) # {}))
    BY <1>9
  <2> HIDE DEF kept, over, refused
  <2>16. n = Excess(q)
    OBVIOUS
  <2> HIDE DEF n
  <2>5. /\ n \in Nat /\ kept \in QueueState
        /\ kept.draining = q.draining
        /\ kept.items = Append(SubSeq(q.items, n + 1, Len(q.items)), m)
        /\ kept.items # <<>>
        /\ q.dropped \subseteq kept.dropped
        /\ Dropped(q) \subseteq Runs
        /\ \A p \in DOMAIN q.items : p <= n =>
              p \in 1 .. n /\ q.items[p] \in Dropped(q)
              /\ (q.drop = "old" \/ q.items[p] \in kept.dropped)
        /\ n # 0 => Dropped(q) # {}
    <3>1. MadeRoom(q, m, n, kept)
      BY <1>4, <1>7, <2>1, <2>2, <2>16, DropPolicy
    <3> QED
      BY <3>1 DEF MadeRoom
  <2>6. /\ queue' \in [Instances -> QueueState] /\ drain' \in [Instances -> DrainState]
        /\ current' \in {i, 0} /\ Coupled(queue', drain')
        /\ \A j \in Instances \ {i} : KeepsItems(j)
        /\ \A j \in Instances : KeepsPlan(j)
        /\ queue'[i].items = kept.items /\ queue'[i].dropped = kept.dropped
        /\ current' # i => kept.items = <<>> /\ kept.dropped = {}
        /\ \A j \in Instances \ {i} : queue'[j].items = <<>> /\ queue'[j].dropped = {}
        /\ Orphans' \subseteq Orphans
        /\ current = i \/ Resting(drain[i])
        /\ Resting(drain[i]) => Resting(drain'[i])
        /\ over => drain'[i].over \/ Resting(drain'[i])
    BY <1>4, <1>6, <1>7, <2>3, <2>5, Rechecked
  <2>7. gone' = IF drop = "old" THEN gone \union Dropped(q) ELSE gone
    BY <1>2, <1>9
  <2>8. accepted' = Append(accepted, m)
    BY <1>2, <1>9 DEF m
  <2>9. Types'
    <3>1. Append(accepted, m) \in Seq(Runs)
      BY <1>1, <1>4 DEF Types
    <3> QED
      BY <1>1, <1>3, <1>4, <2>6, <2>7, <2>8, <3>1 DEF Types
  <2>10. n # 0 => drain'[i].over \/ Resting(drain'[i])
    <3>1. CASE drain[i].pc = "off"
      <4>1. Resting(drain[i])
        BY <1>1, <1>4, <3>1 DEF Core, Shape, UnderWay
      <4> QED
        BY <2>6, <4>1
    <3>2. CASE drain[i].pc # "off"
      BY <2>4, <2>5, <2>6, <3>2
    <3> QED
      BY <3>1, <3>2
  <2>11. Adds(i, m, n)
    <3>1. m \in Runs \ Elements(accepted) /\ current' = i /\ gone \subseteq gone'
      BY <1>4, <2>1, <2>5, <2>6, <2>7
    <3>2. \A p \in DOMAIN queue[i].items : p <= n => queue[i].items[p] \in queue'[i].dropped \union gone'
      BY <1>7, <2>5, <2>6, <2>7
    <3>3. queue'[i].items = Append(SubSeq(queue[i].items, n + 1, Len(queue[i].items)), m)
          /\ queue[i].dropped \subseteq queue'[i].dropped
      BY <1>7, <2>5, <2>6
    <3> QED
      BY <1>3, <2>5, <2>6, <2>7, <2>8, <2>9, <2>10, <3>1, <3>2, <3>3 DEF Adds
  <2>12. Core'
    BY <1>1, <1>4, <2>11, AddsStep
  <2>13. Others'
    BY <1>1, <1>2, <1>3, <1>11, <2>5, <2>7 DEF Others
  <2>14. Room'
    BY <1>1, <1>3, <2>6, RoomKept, UsedKept
  <2>15. TypeOK'
    BY <2>6, <2>9, <2>13, TypePartsNext
  <2> QED
    BY <2>12, <2>14, <2>15 DEF IInv
<1> QED
  BY <1>8, <1>9

LEMMA EnqueueAbortedInv == ASSUME IInv, NEW d \in Runs, EnqueueAborted(d) PROVE IInv'
<1>1. KeepsHistory /\ used' = used /\ Become(Recheck(queue, drain, current))
  BY DEF EnqueueAborted, history, KeepsHistory
<1>2. Types /\ Room /\ Others /\ Coupled(queue, drain)
  BY TypeParts DEF IInv
<1>3. Quieted(queue, drain, current, Recheck(queue, drain, current))
  <2>1. CASE active = "none"
    BY <1>2, <2>1, KickQuiet DEF Recheck, Types
  <2>2. CASE active # "none"
    BY <1>2, <2>2 DEF Recheck, Types, Quieted
  <2> QED
    BY <2>1, <2>2
<1>4. Others'
  BY <1>2 DEF EnqueueAborted, Others, history
<1> QED
  BY <1>1, <1>2, <1>3, <1>4, BecameQuiet, QuietInv, UsedKept

LEMMA AbortInv == ASSUME IInv, NEW d \in Runs, Abort(d) PROVE IInv'
<1>1. KeepsHistory /\ UNCHANGED <<queue, drain, current>> /\ used' = used
  BY DEF Abort, history, KeepsHistory
<1>2. Room /\ Others
  BY TypeParts DEF IInv
<1>4. Others'
  BY <1>2 DEF Abort, Others, history
<1> QED
  BY <1>1, <1>2, <1>4, OldQuiet, QuietInv, UsedKept

LEMMA ForgetInv == ASSUME IInv, NEW m \in Messages, Forget(m) PROVE IInv'
<1>1. KeepsHistory /\ UNCHANGED <<queue, drain, current>> /\ used' = used
  BY DEF Forget, KeepsHistory
<1>2. Room /\ Others
  BY TypeParts DEF IInv
<1>4. Others'
  BY <1>2 DEF Forget, Others
<1> QED
  BY <1>1, <1>2, <1>4, OldQuiet, QuietInv, UsedKept

LEMMA ClearInv == ASSUME IInv, Clear PROVE IInv'
<1> DEFINE c == current
<1>1. Types /\ Room /\ Core /\ Coupled(queue, drain) /\ Others
  BY TypeParts DEF IInv
<1>2. /\ c \in Instances /\ used.clears < MaxClears
      /\ used' = [used EXCEPT !.clears = @ + 1]
      /\ gone' = gone \union Elements(queue[c].items) \union queue[c].dropped
      /\ queue' = [queue EXCEPT ![c].items = <<>>, ![c].dropped = {}]
      /\ current' = 0 /\ uprooted' \in BOOLEAN
      /\ drain' = drain /\ active' = active /\ delivery' = delivery /\ recent' = recent
      /\ aborted' = aborted /\ forgotten' = forgotten /\ accepted' = accepted /\ ran' = ran /\ shoved' = shoved
  BY <1>1 DEF Clear, Types
<1> HIDE DEF c
<1>3. /\ queue' \in [Instances -> QueueState]
      /\ \A j \in Instances : queue'[j].draining = queue[j].draining
      /\ queue'[c].items = <<>> /\ queue'[c].dropped = {}
      /\ \A j \in Instances \ {c} : queue'[j] = queue[j]
  <2>1. queue \in [Instances -> QueueState] /\ <<>> \in Seq(Runs) /\ {} \in SUBSET Runs
    BY <1>1 DEF Types
  <2> QED
    BY <1>2, <2>1 DEF QueueState
<1>4. \A j \in Instances : queue'[j].items = <<>> /\ queue'[j].dropped = {}
  BY <1>1, <1>3 DEF Core, Loose, c
<1>5. \A j \in Instances : Plan(j)' = Plan(j)
  BY <1>2 DEF Plan
<1>6. Elements(<<>>) = {} /\ DOMAIN <<>> = {} /\ Sorted(accepted, <<>>)
  BY DEF Elements, Sorted
<1>7. Types'
  BY <1>1, <1>2, <1>3 DEF Types
<1>8. Coupled(queue', drain')
  <2> SUFFICES ASSUME NEW j \in Instances PROVE queue'[j].draining <=> drain'[j].pc # "off"
    BY DEF Coupled
  <2>1. queue[j].draining <=> drain[j].pc # "off"
    BY <1>1 DEF Coupled
  <2> QED
    BY <1>2, <1>3, <2>1
<1>9. Loose' /\ Shape'
  BY <1>1, <1>2, <1>4 DEF Core, Loose, Shape
<1>10. Accepted' /\ Alone' /\ Once'
  <2>1. Accepted'
    BY <1>1, <1>2, <1>4, <1>5, <1>6 DEF Core, Accepted
  <2>2. Alone'
    BY <1>1, <1>4, <1>5, <1>6 DEF Core, Alone
  <2>3. Once'
    BY <1>1, <1>2, <1>4, <1>5, <1>6 DEF Core, Once
  <2> QED
    BY <2>1, <2>2, <2>3
<1>11. Ordered'
  BY <1>1, <1>2, <1>4, <1>5, <1>6 DEF Core, Ordered
<1>12. Front'
  BY <1>2, <1>4, <1>6, Objects DEF Front
<1>13. NothingLost'
  <2> SUFFICES ASSUME NEW k \in DOMAIN accepted, NEW a, a = accepted[k]
               PROVE  ran[a] > 0 \/ a \in gone' \union shoved \union Waiting'
    BY <1>2 DEF NothingLost
  <2>1. ran[a] > 0 \/ a \in gone \union shoved \union Waiting
    BY <1>1 DEF Core, NothingLost
  <2>2. ASSUME a \in Waiting PROVE a \in gone'
    <3>1. PICK j \in Instances : a \in Elements(queue[j].items) \union queue[j].dropped
      BY <2>2 DEF Waiting
    <3>2. j = c
      BY <1>1, <1>6, <3>1 DEF Core, Loose, c
    <3> QED
      BY <1>2, <3>1, <3>2
  <2> QED
    BY <1>2, <2>1, <2>2
<1>14. Room'
  <2>1. Orphans' \subseteq Orphans \union {c}
    BY <1>2 DEF Orphans, c
  <2>2. IsFiniteSet(Orphans) /\ c \notin Orphans
    BY Objects, FS_Subset DEF Orphans, c
  <2>3. IsFiniteSet(Orphans \union {c}) /\ Cardinality(Orphans \union {c}) = Cardinality(Orphans) + 1
    BY <2>2, FS_AddElement
  <2>4. Cardinality(Orphans') <= Cardinality(Orphans) + 1 /\ IsFiniteSet(Orphans')
    BY <2>1, <2>3, FS_Subset
  <2>5. Cardinality(Orphans) \in Nat /\ Cardinality(Orphans') \in Nat
    BY <2>2, <2>4, FS_CardinalityType
  <2>6. used \in [foreground : Nat, failures : Nat, clears : 0 .. MaxClears] /\ Cardinality(Orphans) <= used.clears
    BY <1>1 DEF Room
  <2>7. used' \in [foreground : Nat, failures : Nat, clears : 0 .. MaxClears] /\ used'.clears = used.clears + 1
    BY <1>2, <2>6, Objects
  <2> QED
    BY <2>4, <2>5, <2>6, <2>7 DEF Room
<1>15. Others'
  <2>1. Elements(queue[c].items) \subseteq Runs /\ queue[c].dropped \subseteq Runs
    <3>1. queue[c].items \in Seq(Runs) /\ queue[c].dropped \subseteq Runs
      BY <1>1, <1>2 DEF Types, QueueState
    <3> QED
      BY <3>1, Nothing
  <2> QED
    BY <1>1, <1>2, <2>1 DEF Others
<1>16. TypeOK'
  BY <1>7, <1>8, <1>15, TypePartsNext
<1> QED
  BY <1>9, <1>10, <1>11, <1>12, <1>13, <1>14, <1>16 DEF IInv, Core

LEMMA InitInv == ASSUME Init PROVE IInv
<1>1. <<>> \in Seq(Runs) /\ {} \in SUBSET Runs /\ <<>> \o <<>> = <<>> /\ DOMAIN <<>> = {}
      /\ Len(<<>>) = 0
  OBVIOUS
<1>2. NewQueue("followup", "summarize") \in QueueState
      /\ NewQueue("followup", "summarize").items = <<>>
      /\ NewQueue("followup", "summarize").dropped = {}
      /\ NewQueue("followup", "summarize").draining = FALSE
  BY <1>1 DEF NewQueue, QueueState
<1>3. Off \in DrainState /\ Off.pc = "off" /\ Resting(Off) /\ Off.batch = <<>> /\ Off.rest = <<>>
  BY OffType DEF Off
<1>4. /\ queue \in [Instances -> QueueState] /\ drain \in [Instances -> DrainState]
      /\ \A i \in Instances : /\ queue[i].items = <<>> /\ queue[i].dropped = {} /\ queue[i].draining = FALSE
                              /\ drain[i].pc = "off" /\ Resting(drain[i]) /\ Plan(i) = <<>>
                              /\ drain[i].batch = <<>> /\ drain[i].rest = <<>>
  BY <1>1, <1>2, <1>3 DEF Init, Plan
<1>5. current = 0 /\ accepted = <<>> /\ ran = [m \in Runs |-> 0]
      /\ gone = {} /\ shoved = {}
  BY DEF Init
<1>6. Types
  BY <1>1, <1>4, <1>5 DEF Types
<1>7. Others /\ Coupled(queue, drain)
  <2>1. Others
    BY DEF Init, Others
  <2>2. Coupled(queue, drain)
    BY <1>4 DEF Coupled
  <2> QED
    BY <2>1, <2>2
<1>8. Room
  <2>1. Orphans = {}
    BY <1>4 DEF Orphans
  <2>2. Cardinality(Orphans) = 0
    BY <2>1, FS_EmptySet
  <2> QED
    BY <2>2, Objects DEF Init, Room
<1>9. Elements(<<>>) = {}
  BY DEF Elements
<1>10. Loose /\ Accepted /\ Alone /\ Once
  BY <1>1, <1>4, <1>5, <1>9 DEF Loose, Accepted, Alone, Once, Injective
<1>11. Ordered
  BY <1>1, <1>4, <1>5, <1>9 DEF Ordered, Sorted
<1>12. Front
  BY <1>1, <1>4 DEF Front
<1>13. Shape
  BY <1>4 DEF Shape, Resting
<1>14. NothingLost
  BY <1>1, <1>5 DEF NothingLost
<1> QED
  BY <1>6, <1>7, <1>8, <1>10, <1>11, <1>12, <1>13, <1>14, TypeParts DEF IInv, Core

----------------------------------------------------------------------------
(* What the invariant rests on: a delivery is enqueued once.  And how often   *)
(* the cache lets the deliveries of one message pass.                        *)

(* Every step but Enqueue and Forget keeps what the two count. *)
LEMMA CountsKept ==
    ASSUME [Next]_vars,
           \A d \in Runs, mode \in Modes, drop \in DropPolicies : ~Enqueue(d, mode, drop)
    PROVE  /\ accepted' = accepted
           /\ \A d \in Runs : delivery[d] = "queued" /\ TypeOK => delivery'[d] = "queued"
           /\ (\A m \in Messages : ~Forget(m)) => recent' = recent /\ forgotten' = forgotten
<1>1. ASSUME NEW i \in Instances, DrainStep(i) \/ Defer(i)
      PROVE  accepted' = accepted /\ delivery' = delivery /\ recent' = recent /\ forgotten' = forgotten
  BY <1>1 DEF DrainStep, DropAborted, Debounced, Admit, Skip, RunSucceeds, RunThrows, Defer, history
<1>2. ASSUME NEW d \in Runs, Observe(d) \/ EnqueueAborted(d) \/ Abort(d)
      PROVE  /\ accepted' = accepted /\ recent' = recent /\ forgotten' = forgotten
             /\ \A e \in Runs : delivery[e] = "queued" /\ TypeOK => delivery'[e] = "queued"
  BY <1>2 DEF Observe, EnqueueAborted, Abort, TypeOK, history
<1>3. CASE BeginForeground \/ EndForeground \/ Clear
  BY <1>3 DEF BeginForeground, EndForeground, Clear, history
<1>4. ASSUME NEW m \in Messages, Forget(m) PROVE accepted' = accepted /\ delivery' = delivery
  BY <1>4 DEF Forget
<1>5. CASE UNCHANGED vars
  BY <1>5 DEF vars, history
<1> QED
  BY <1>1, <1>2, <1>3, <1>4, <1>5 DEF Next

LEMMA DeliveredStep == ASSUME TypeOK, Delivered, [Next]_vars PROVE Delivered'
<1>1. ASSUME NEW d \in Runs, NEW mode \in Modes, NEW drop \in DropPolicies, Enqueue(d, mode, drop)
      PROVE  Delivered'
  <2>1. accepted \in Seq(Runs) /\ delivery \in [Runs -> {"new", "observed", "queued", "refused"}]
    BY DEF TypeOK
  <2>2. \/ accepted' = accepted /\ delivery' = [delivery EXCEPT ![d] = "refused"]
        \/ accepted' = Append(accepted, d) /\ delivery' = [delivery EXCEPT ![d] = "queued"]
    BY <1>1 DEF Enqueue
  <2>3. Elements(Append(accepted, d)) = Elements(accepted) \union {d}
    BY <2>1, AppendedElements
  <2>4. delivery[d] = "observed" /\ Elements(accepted) \subseteq Runs
    BY <1>1, <2>1 DEF Enqueue, Elements
  <2> QED
    BY <2>1, <2>2, <2>3, <2>4 DEF Delivered
<1>2. ASSUME \A d \in Runs, mode \in Modes, drop \in DropPolicies : ~Enqueue(d, mode, drop)
      PROVE  Delivered'
  <2>1. Elements(accepted) \subseteq Runs
    BY DEF TypeOK, Elements
  <2> QED
    BY <1>2, <2>1, CountsKept DEF Delivered
<1> QED
  BY <1>1, <1>2

LEMMA CountedStep == ASSUME TypeOK, Counted, [Next]_vars PROVE Counted'
<1>0. /\ accepted \in Seq(Runs) /\ recent \subseteq Messages /\ forgotten \in [Messages -> Nat]
      /\ MessageOf \in [Runs -> Messages]
  BY FollowupAssumption DEF TypeOK
<1> SUFFICES ASSUME NEW m \in Messages
             PROVE  /\ IsFiniteSet(Copies(m)')
                    /\ Cardinality(Copies(m)') <= forgotten'[m] + (IF m \in recent' THEN 1 ELSE 0)
  BY DEF Counted
<1>1. /\ IsFiniteSet(Copies(m)) /\ Cardinality(Copies(m)) \in Nat /\ forgotten[m] \in Nat
      /\ Cardinality(Copies(m)) <= forgotten[m] + (IF m \in recent THEN 1 ELSE 0)
  BY <1>0, FS_CardinalityType DEF Counted
<1>2. ASSUME NEW d \in Runs, NEW mode \in Modes, NEW drop \in DropPolicies, Enqueue(d, mode, drop)
      PROVE  /\ IsFiniteSet(Copies(m)')
             /\ Cardinality(Copies(m)') <= forgotten'[m] + (IF m \in recent' THEN 1 ELSE 0)
  <2> DEFINE q == Got(mode, drop)
             refused == Duplicate(d, q) \/ Full(q)
  <2>1. /\ recent' = IF refused \/ d \in Anonymous THEN recent ELSE recent \union {MessageOf[d]}
        /\ accepted' = IF refused THEN accepted ELSE Append(accepted, d)
        /\ forgotten' = forgotten
    BY <1>2 DEF Enqueue
  <2>2. ~refused /\ d \notin Anonymous => MessageOf[d] \notin recent
    BY DEF Duplicate
  <2> HIDE DEF refused
  <2>3. Elements(Append(accepted, d)) = Elements(accepted) \union {d}
    BY <1>0, AppendedElements
  <2>4. CASE refused \/ d \in Anonymous \/ MessageOf[d] # m
    <3>1. Copies(m)' = Copies(m)
      BY <2>1, <2>3, <2>4 DEF Copies
    <3>2. m \in recent' <=> m \in recent
      BY <2>1, <2>4
    <3> QED
      BY <1>1, <2>1, <3>1, <3>2
  <2>5. CASE ~(refused \/ d \in Anonymous \/ MessageOf[d] # m)
    <3>1. Copies(m)' \subseteq Copies(m) \union {d}
      BY <2>1, <2>3, <2>5 DEF Copies
    <3>2. IsFiniteSet(Copies(m) \union {d}) /\ Cardinality(Copies(m) \union {d}) <= Cardinality(Copies(m)) + 1
      <4>1. Cardinality(Copies(m) \union {d}) = IF d \in Copies(m) THEN Cardinality(Copies(m))
                                               ELSE Cardinality(Copies(m)) + 1
        BY <1>1, FS_AddElement
      <4> QED
        BY <1>1, <4>1, FS_AddElement
    <3>3. IsFiniteSet(Copies(m)') /\ Cardinality(Copies(m)') <= Cardinality(Copies(m) \union {d})
      BY <3>1, <3>2, FS_Subset
    <3>4. Cardinality(Copies(m)') \in Nat /\ Cardinality(Copies(m) \union {d}) \in Nat
      BY <3>2, <3>3, FS_CardinalityType
    <3>5. m \notin recent /\ m \in recent'
      BY <2>1, <2>2, <2>5
    <3>6. Cardinality(Copies(m)) <= forgotten[m]
      BY <1>1, <3>5
    <3>7. Cardinality(Copies(m)') <= forgotten'[m] + 1
      BY <1>1, <2>1, <3>2, <3>3, <3>4, <3>6
    <3> QED
      BY <3>3, <3>5, <3>7
  <2> QED
    BY <2>4, <2>5
<1>3. ASSUME \A d \in Runs, mode \in Modes, drop \in DropPolicies : ~Enqueue(d, mode, drop)
      PROVE  /\ IsFiniteSet(Copies(m)')
             /\ Cardinality(Copies(m)') <= forgotten'[m] + (IF m \in recent' THEN 1 ELSE 0)
  <2>1. Copies(m)' = Copies(m)
    BY <1>3, CountsKept DEF Copies
  <2>2. CASE \A x \in Messages : ~Forget(x)
    BY <1>1, <1>3, <2>1, <2>2, CountsKept
  <2>3. ASSUME NEW x \in Messages, Forget(x)
        PROVE  Cardinality(Copies(m)) <= forgotten'[m] + (IF m \in recent' THEN 1 ELSE 0)
    <3>1. x \in recent /\ recent' = recent \ {x} /\ forgotten' = [forgotten EXCEPT ![x] = @ + 1]
      BY <2>3 DEF Forget
    <3>2. CASE m = x
      <4>1. m \in recent /\ m \notin recent' /\ forgotten'[m] = forgotten[m] + 1
        BY <1>0, <3>1, <3>2
      <4> QED
        BY <1>1, <4>1
    <3>3. CASE m # x
      <4>1. (m \in recent <=> m \in recent') /\ forgotten'[m] = forgotten[m]
        BY <1>0, <3>1, <3>3
      <4> QED
        BY <1>1, <4>1
    <3> QED
      BY <3>2, <3>3
  <2> QED
    BY <1>1, <2>1, <2>2, <2>3
<1> QED
  BY <1>2, <1>3

LEMMA InitCounted == ASSUME Init PROVE Delivered /\ Counted
<1>1. Elements(accepted) = {} /\ recent = {} /\ forgotten = [m \in Messages |-> 0]
  BY DEF Init, Elements
<1>2. \A m \in Messages : Copies(m) = {}
  BY <1>1 DEF Copies
<1>3. IsFiniteSet({}) /\ Cardinality({}) = 0
  BY FS_EmptySet
<1> QED
  BY <1>1, <1>2, <1>3 DEF Delivered, Counted

LEMMA Inductive == IInv /\ Delivered /\ [Next]_vars => IInv'
<1> SUFFICES ASSUME IInv, Delivered, [Next]_vars PROVE IInv'
  OBVIOUS
<1>1. ASSUME NEW i \in Instances, DrainStep(i) \/ Defer(i) PROVE IInv'
  BY <1>1, DropAbortedInv, DebouncedInv, AdmitInv, SkipInv, RunSucceedsInv, RunThrowsInv, DeferInv
     DEF DrainStep
<1>2. ASSUME NEW d \in Runs, Observe(d) \/ EnqueueAborted(d) \/ Abort(d) PROVE IInv'
  BY <1>2, ObserveInv, EnqueueAbortedInv, AbortInv
<1>3. ASSUME NEW d \in Runs, NEW mode \in Modes, NEW drop \in DropPolicies, Enqueue(d, mode, drop)
      PROVE  IInv'
  BY <1>3, EnqueueInv
<1>4. CASE BeginForeground \/ EndForeground \/ Clear
  BY <1>4, BeginForegroundInv, EndForegroundInv, ClearInv
<1>5. ASSUME NEW m \in Messages, Forget(m) PROVE IInv'
  BY <1>5, ForgetInv
<1>6. CASE UNCHANGED vars
  BY <1>6, StutterInv
<1> QED
  BY <1>1, <1>2, <1>3, <1>4, <1>5, <1>6 DEF Next

LEMMA Invariant == Spec => [](IInv /\ Delivered /\ Counted)
<1>1. Init => IInv /\ Delivered /\ Counted
  BY InitInv, InitCounted
<1>2. IInv /\ Delivered /\ Counted /\ [Next]_vars => (IInv /\ Delivered /\ Counted)'
  <2>1. IInv => TypeOK
    BY DEF IInv
  <2> QED
    BY <2>1, Inductive, DeliveredStep, CountedStep
<1> QED
  BY <1>1, <1>2, PTL DEF Spec

----------------------------------------------------------------------------
(* The order of the runs.                                                    *)

LEMMA OrderStep ==
    ASSUME IInv, NEW i \in Instances, RunSucceeds(i), NEW k \in DOMAIN accepted,
           ran[accepted[k]] < ran'[accepted[k]], NEW j \in 1 .. k - 1
    PROVE  Settled(accepted[j])
<1> DEFINE a == accepted[k]
           m == accepted[j]
           batch == drain[i].batch
<1>1. Types /\ Core /\ Advances(i, Elements(batch))
  BY TypeParts, RunSucceedsAdvances DEF IInv
<1>2. accepted \in Seq(Runs) /\ Injective(accepted) /\ ran \in [Runs -> Nat]
      /\ batch \in Seq(Runs) /\ drain[i].rest \in Seq(Runs)
  BY <1>1, PlanType DEF Types, Core, Accepted
<1>3. j \in DOMAIN accepted /\ j < k /\ a \in Runs /\ m \in Runs
  BY <1>2
<1>4. ran' = [x \in Runs |-> IF In(x, batch) THEN ran[x] + 1 ELSE ran[x]]
  BY DEF RunSucceeds
<1>5. Before(accepted, m, a) /\ ~Before(accepted, a, m)
  <2>1. Before(accepted, m, a)
    BY <1>3 DEF Before
  <2> QED
    BY <1>2, <2>1, BeforeOnce
<1>6. In(a, batch)
  BY <1>2, <1>3, <1>4
<1> HIDE DEF a, m, batch
<1>7. CASE ran[m] > 0
  <2>1. ran[m] \in Nat /\ ran'[m] \in {ran[m], ran[m] + 1}
    BY <1>2, <1>3, <1>4
  <2>2. ran'[m] > 0
    BY <1>7, <2>1
  <2> QED
    BY <2>2 DEF m, Settled
<1>8. CASE m \in gone \union shoved
  <2>1. shoved \subseteq shoved'
    BY <1>1 DEF Advances, Tells
  <2> QED
    BY <1>8, <2>1 DEF m, Settled
<1>9. ASSUME NEW c \in Instances, m \in Elements(queue[c].items) PROVE ran'[m] > 0
  <2>1. PICK y \in DOMAIN batch : batch[y] = a
    BY <1>6 DEF In
  <2>2. Plan(i) = batch \o drain[i].rest /\ Plan(i) \in Seq(Runs)
        /\ DOMAIN Plan(i) = 1 .. Len(batch) + Len(drain[i].rest)
    BY <1>2, Joined DEF Plan, batch
  <2>3. \A x \in DOMAIN Plan(i) : x <= Len(batch) => x \in DOMAIN batch /\ Plan(i)[x] = batch[x]
    BY <1>2, <2>2, JoinedAt
  <2>4. y \in DOMAIN Plan(i) /\ y <= Len(batch) /\ Plan(i)[y] = a
    <3>1. y \in 1 .. Len(batch) /\ Len(batch) \in Nat /\ Len(drain[i].rest) \in Nat
      BY <1>2, <2>1
    <3>2. y \in DOMAIN Plan(i) /\ y <= Len(batch)
      BY <2>2, <3>1
    <3> QED
      BY <2>1, <2>3, <3>2
  <2>5. a \in Elements(Plan(i))
    BY <2>4 DEF Elements
  <2>6. m \in Elements(Plan(i))
    BY <1>1, <1>5, <1>9, <2>5 DEF Core, Ordered
  <2>7. PICK x \in DOMAIN Plan(i) : Plan(i)[x] = m
    BY <2>6 DEF Elements
  <2>8. x <= Len(batch)
    <3> SUFFICES ASSUME ~(x <= Len(batch)) PROVE FALSE
      OBVIOUS
    <3>1. y < x
      BY <1>2, <2>2, <2>4
    <3>2. Before(accepted, a, m)
      BY <1>1, <2>4, <2>7, <3>1 DEF Core, Ordered, Sorted
    <3> QED
      BY <1>5, <3>2
  <2>9. In(m, batch)
    BY <2>3, <2>7, <2>8 DEF In
  <2> QED
    BY <1>2, <1>3, <1>4, <2>9
<1>10. ran[m] > 0 \/ m \in gone \union shoved \union Waiting
  BY <1>1, <1>3 DEF Core, NothingLost, m
<1>11. CASE m \in Waiting
  <2>1. PICK c \in Instances : m \in Elements(queue[c].items) \union queue[c].dropped
    BY <1>11 DEF Waiting
  <2> QED
    BY <1>9, <2>1 DEF m, Settled
<1> QED
  BY <1>7, <1>8, <1>10, <1>11

LEMMA RanKept ==
    ASSUME [Next]_vars, \A i \in Instances : ~RunSucceeds(i) PROVE ran' = ran
<1>1. ASSUME NEW i \in Instances, DrainStep(i) \/ Defer(i) PROVE ran' = ran
  BY <1>1 DEF DrainStep, DropAborted, Debounced, Admit, Skip, RunThrows, Defer, history
<1>2. ASSUME NEW d \in Runs, Observe(d) \/ EnqueueAborted(d) \/ Abort(d) PROVE ran' = ran
  BY <1>2 DEF Observe, EnqueueAborted, Abort, history
<1>3. ASSUME NEW d \in Runs, NEW mode \in Modes, NEW drop \in DropPolicies, Enqueue(d, mode, drop)
      PROVE  ran' = ran
  BY <1>3 DEF Enqueue
<1>4. CASE BeginForeground \/ EndForeground \/ Clear
  BY <1>4 DEF BeginForeground, EndForeground, Clear, history
<1>5. ASSUME NEW m \in Messages, Forget(m) PROVE ran' = ran
  BY <1>5 DEF Forget
<1>6. CASE UNCHANGED vars
  BY <1>6 DEF vars, history
<1> QED
  BY <1>1, <1>2, <1>3, <1>4, <1>5, <1>6 DEF Next

----------------------------------------------------------------------------
(* The types hold in every state, and a queue object is draining exactly     *)
(* while a drain loop runs on it: scheduleFollowupDrain never starts a       *)
(* second loop on a queue, and every loop's finally clause clears the flag.  *)
THEOREM TypeCorrect == Spec => []TypeOK
<1>1. IInv => TypeOK
  BY DEF IInv
<1> QED
  BY <1>1, Invariant, PTL

(* An accepted message waits, was run, was summarised or was cleared or      *)
(* aborted, but for the cases that the code gives away: whatever fails, is    *)
(* deferred, is skipped, is cleared under a drain or is dropped at the cap,   *)
(* the count taken off the front (drain.ts) is that of the messages the run   *)
(* was told.                                                                  *)
THEOREM NeverLost == Spec => []NothingLost
<1>1. IInv => NothingLost
  BY DEF IInv, Core
<1> QED
  BY <1>1, Invariant, PTL

(* A delivery is in the prompt of one run at most, whichever loops of         *)
(* replaced queues are still running; and of the deliveries of one message    *)
(* that have its id, one can run for each time that the cache of five minutes *)
(* and 10 000 ids (enqueue.ts) forgot it, and one more.                       *)
THEOREM NeverTwice == Spec => []RunsOnce
<1>1. ASSUME IInv, NEW d \in Runs PROVE ran[d] <= 1
  <2>1. ran[d] \in Nat /\ (ran[d] # 0 => ran[d] = 1)
    BY <1>1 DEF IInv, TypeOK, Core, Once
  <2> QED
    BY <2>1
<1>2. ASSUME IInv, Counted, NEW m \in Messages PROVE Cardinality(Runnings(m)) <= forgotten[m] + 1
  <2>1. Runnings(m) \subseteq Copies(m)
    BY <1>2 DEF IInv, Core, Accepted, Runnings, Copies
  <2>2. IsFiniteSet(Copies(m)) /\ Cardinality(Copies(m)) <= forgotten[m] + (IF m \in recent THEN 1 ELSE 0)
    BY <1>2 DEF Counted
  <2>3. IsFiniteSet(Runnings(m)) /\ Cardinality(Runnings(m)) <= Cardinality(Copies(m))
    BY <2>1, <2>2, FS_Subset
  <2>4. Cardinality(Runnings(m)) \in Nat /\ Cardinality(Copies(m)) \in Nat /\ forgotten[m] \in Nat
    BY <1>2, <2>2, <2>3, FS_CardinalityType DEF IInv, TypeOK
  <2> QED
    BY <2>2, <2>3, <2>4
<1>3. IInv /\ Counted => RunsOnce
  BY <1>1, <1>2 DEF RunsOnce
<1> QED
  BY <1>3, Invariant, PTL

(* Messages run in the order in which they were accepted, but for those that *)
(* are lost, cleared or summarised: batches, groups and what was left by a   *)
(* run that failed keep the order of enqueueFollowupRun.                     *)
THEOREM RunsInOrder == Spec => InOrder
<1>1. IInv /\ [Next]_vars =>
         [\A k \in DOMAIN accepted : ran[accepted[k]] < ran'[accepted[k]] =>
             \A j \in 1 .. k - 1 : Settled(accepted[j])]_vars
  <2> SUFFICES ASSUME IInv, [Next]_vars, NEW k \in DOMAIN accepted,
                      ran[accepted[k]] < ran'[accepted[k]], NEW j \in 1 .. k - 1
               PROVE  Settled(accepted[j])
    OBVIOUS
  <2>1. PICK i \in Instances : RunSucceeds(i)
    <3> SUFFICES ASSUME \A i \in Instances : ~RunSucceeds(i) PROVE FALSE
      OBVIOUS
    <3>1. ran' = ran
      BY RanKept
    <3>2. accepted[k] \in Runs /\ ran \in [Runs -> Nat]
      BY DEF IInv, TypeOK
    <3>3. ran[accepted[k]] \in Nat
      BY <3>2
    <3> QED
      BY <3>1, <3>3
  <2> QED
    BY <2>1, OrderStep
<1> QED
  BY <1>1, Invariant, PTL DEF Spec, InOrder
=============================================================================
