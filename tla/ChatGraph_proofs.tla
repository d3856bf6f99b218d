-------------------------- MODULE ChatGraph_proofs --------------------------
(***************************************************************************)
(* Proofs about the conversation graph, for any number of turns, any        *)
(* recursion limit and any set of nodes that raise; what more a theorem     *)
(* supposes of the limit and of the window it says.                         *)
(***************************************************************************)
EXTENDS ChatGraph, SequenceTheorems, TLAPS

(* The last d messages are replies of turn t, and its question is before     *)
(* them: the copies of the computer rounds keep this end of the list.        *)
Trail(ms, t, d) ==
    /\ d \in Nat /\ d < Len(ms)
    /\ ms[Len(ms) - d] = Human(t)
    /\ \A p \in 1 .. Len(ms) : p > Len(ms) - d => ms[p].role = "ai" /\ ms[p].turn = t

(* Where the turn is tells how many replies it has. *)
Pace(n, s, d) ==
    /\ n = "trigger" => s = 0 /\ d = 0
    /\ n = "retrieve" => s = 1 /\ d = 0
    /\ n = "chat" => s = 2 * d + 2
    /\ n \in {"computer", "remember"} => d > 0 /\ s = 2 * d + 1

InTurn ==
    node # "idle" =>
        /\ turn > 0
        /\ \E d \in Nat : Trail(messages, turn, d) /\ Pace(node, steps, d)
        /\ node = "remember" => ~messages[Len(messages)].tagged

IInv == TypeOK /\ InTurn /\ RememberedPairs

----------------------------------------------------------------------------
LEMMA MaxOfTwo ==
    ASSUME NEW a \in Int, NEW b \in Int
    PROVE  Max({a, b}) = IF a >= b THEN a ELSE b
<1> DEFINE m == IF a >= b THEN a ELSE b
<1>1. m \in {a, b} /\ \A y \in {a, b} : m >= y
  OBVIOUS
<1>2. \A x \in {a, b} : (\A y \in {a, b} : x >= y) => x = m
  OBVIOUS
<1> HIDE DEF m
<1>3. Max({a, b}) = m
  BY <1>1, <1>2 DEF Max
<1> QED
  BY <1>3 DEF m

LEMMA MessageTypes ==
    ASSUME NEW t \in 1 .. MaxTurns, NEW r \in Nat, NEW tagged \in BOOLEAN
    PROVE  /\ Human(t) \in Message /\ Human(t).role = "human" /\ Human(t).turn = t
           /\ Reply(t, r, tagged) \in Message /\ Reply(t, r, tagged).role = "ai"
           /\ Reply(t, r, tagged).turn = t /\ Reply(t, r, tagged).tagged = tagged
BY DEF Human, Reply, Message

(* A reply is added. *)
LEMMA TrailGrows ==
    ASSUME NEW ms \in Seq(Message), NEW t \in 1 .. MaxTurns, NEW d \in Nat, Trail(ms, t, d),
           NEW m \in Message, m.role = "ai", m.turn = t
    PROVE  /\ Append(ms, m) \in Seq(Message)
           /\ Append(ms, m)[Len(Append(ms, m))] = m
           /\ Trail(Append(ms, m), t, d + 1)
<1> DEFINE ns == Append(ms, m)
<1>1. /\ ns \in Seq(Message) /\ Len(ns) = Len(ms) + 1 /\ ns[Len(ms) + 1] = m
      /\ \A p \in 1 .. Len(ms) : ns[p] = ms[p]
  BY AppendProperties
<1>2. Len(ms) \in Nat /\ d < Len(ms) /\ ms[Len(ms) - d] = Human(t)
  BY DEF Trail
<1> HIDE DEF ns
<1>3. ns[Len(ns) - (d + 1)] = Human(t)
  <2>1. Len(ns) - (d + 1) = Len(ms) - d /\ Len(ms) - d \in 1 .. Len(ms)
    BY <1>1, <1>2
  <2> QED
    BY <1>1, <1>2, <2>1
<1>4. ASSUME NEW p \in 1 .. Len(ns), p > Len(ns) - (d + 1) PROVE ns[p].role = "ai" /\ ns[p].turn = t
  <2>1. CASE p = Len(ms) + 1
    BY <1>1, <2>1
  <2>2. CASE p # Len(ms) + 1
    <3>1. p \in 1 .. Len(ms) /\ p > Len(ms) - d
      BY <1>1, <1>2, <1>4, <2>2
    <3> QED
      BY <1>1, <3>1 DEF Trail
  <2> QED
    BY <2>1, <2>2
<1>5. d + 1 \in Nat /\ d + 1 < Len(ns)
  BY <1>1, <1>2
<1>6. Trail(ns, t, d + 1)
  BY <1>3, <1>4, <1>5 DEF Trail
<1> QED
  BY <1>1, <1>6 DEF ns

(* The computer round: the list with its last reply cleaned is appended to   *)
(* the list.                                                                 *)
Cleaned(ms) == [Last(ms) EXCEPT !.tagged = FALSE]
LEMMA TrailCopied ==
    ASSUME NEW ms \in Seq(Message), NEW t \in 1 .. MaxTurns, NEW d \in Nat, Trail(ms, t, d), d > 0
    PROVE  LET ns == ms \o Append(Front(ms), Cleaned(ms))
           IN  ns \in Seq(Message) /\ Trail(ns, t, d)
<1> DEFINE front == Front(ms)
           copy == Append(front, Cleaned(ms))
           ns == ms \o copy
           n == Len(ms)
<1>1. n \in Nat /\ d < n /\ ms[n - d] = Human(t)
  BY DEF Trail
<1>2. front \in Seq(Message) /\ Len(front) = n - 1 /\ \A p \in 1 .. n - 1 : front[p] = ms[p]
  BY <1>1 DEF Front
<1>3. Cleaned(ms) \in Message /\ Cleaned(ms).role = "ai" /\ Cleaned(ms).turn = t
  <2>1. ms[n] \in Message /\ ms[n].role = "ai" /\ ms[n].turn = t
    <3>1. n \in 1 .. Len(ms) /\ n > Len(ms) - d
      BY <1>1
    <3> QED
      BY <3>1 DEF Trail
  <2> QED
    BY <2>1 DEF Cleaned, Last, Message
<1> HIDE DEF front
<1>4. /\ copy \in Seq(Message) /\ Len(copy) = n /\ copy[n] = Cleaned(ms)
      /\ \A p \in 1 .. n - 1 : copy[p] = ms[p]
  <2>1. /\ copy \in Seq(Message) /\ Len(copy) = Len(front) + 1 /\ copy[Len(front) + 1] = Cleaned(ms)
        /\ \A p \in 1 .. Len(front) : copy[p] = front[p]
    BY <1>2, <1>3, AppendProperties
  <2>2. Len(front) + 1 = n
    BY <1>1, <1>2
  <2> QED
    BY <1>1, <1>2, <2>1, <2>2
<1> HIDE DEF copy
<1>5. /\ ns \in Seq(Message) /\ Len(ns) = n + n
      /\ \A p \in 1 .. n + n : p > n => ns[p] = copy[p - n]
  <2>1. ns \in Seq(Message) /\ Len(ns) = Len(ms) + Len(copy)
    BY <1>4, ConcatProperties
  <2>2. \A p \in 1 .. Len(ms) + Len(copy) : ns[p] = IF p <= Len(ms) THEN ms[p] ELSE copy[p - Len(ms)]
    BY <1>4, ConcatProperties
  <2> HIDE DEF ns
  <2>3. ASSUME NEW p \in 1 .. n + n, p > n PROVE ns[p] = copy[p - n]
    <3>1. p \in 1 .. Len(ms) + Len(copy) /\ ~(p <= Len(ms))
      BY <1>1, <1>4, <2>3
    <3> QED
      BY <2>2, <3>1
  <2> QED
    BY <1>4, <2>1, <2>3
<1> HIDE DEF ns
<1>6. ns[Len(ns) - d] = Human(t)
  <2>1. Len(ns) - d \in 1 .. n + n /\ Len(ns) - d > n /\ (Len(ns) - d) - n = n - d /\ n - d \in 1 .. n - 1
    BY <1>1, <1>5
  <2> QED
    BY <1>1, <1>4, <1>5, <2>1
<1>7. ASSUME NEW p \in 1 .. Len(ns), p > Len(ns) - d PROVE ns[p].role = "ai" /\ ns[p].turn = t
  <2>1. p > n /\ p - n \in 1 .. n /\ p - n > n - d /\ ns[p] = copy[p - n]
    BY <1>1, <1>5, <1>7
  <2>2. CASE p - n = n
    BY <1>3, <1>4, <2>1, <2>2
  <2>3. CASE p - n # n
    <3>1. p - n \in 1 .. n - 1
      BY <1>1, <2>1, <2>3
    <3> QED
      BY <1>4, <2>1, <3>1 DEF Trail
  <2> QED
    BY <2>2, <2>3
<1>8. d < Len(ns)
  BY <1>1, <1>5
<1>9. Trail(ns, t, d)
  BY <1>6, <1>7, <1>8 DEF Trail
<1> QED
  BY <1>5, <1>9 DEF ns, copy, front

(* graph.py:354: from the last question on. *)
LEMMA LastTurn ==
    ASSUME NEW ms \in Seq(Message), NEW t \in 1 .. MaxTurns, NEW d \in Nat, Trail(ms, t, d), d > 0
    PROVE  /\ Head(CurrentTurn(ms)) = Human(t)
           /\ Last(CurrentTurn(ms)) = ms[Len(ms)]
<1> DEFINE n == Len(ms)
           I == {i \in 1 .. n : ms[i].role = "human"}
           first == n - d
<1>1. n \in Nat /\ d < n /\ ms[first] = Human(t) /\ first \in 1 .. n - 1
  BY DEF Trail
<1>2. first \in I /\ \A y \in I : first >= y
  <2>1. first \in I
    BY <1>1 DEF Human
  <2>2. ASSUME NEW y \in I PROVE first >= y
    <3>1. ms[y].role # "ai"
      OBVIOUS
    <3>2. ~(y > Len(ms) - d)
      BY <3>1 DEF Trail
    <3> QED
      BY <1>1, <3>2
  <2> QED
    BY <2>1, <2>2
<1>3. SelectLastInSeq(ms, LAMBDA m : m.role = "human") = Max(I)
  BY <1>2 DEF SelectLastInSeq
<1> HIDE DEF I
<1>4. Max(I) = first
  <2>1. \A y \in I : y \in Nat
    BY DEF I
  <2>2. \A x \in I : (\A y \in I : x >= y) => x = first
    BY <1>1, <1>2, <2>1
  <2> QED
    BY <1>2, <2>2 DEF Max
<1>5. CurrentTurn(ms) = SubSeq(ms, first, n)
  BY <1>3, <1>4 DEF CurrentTurn
<1> DEFINE c == SubSeq(ms, first, n)
<1>6. c \in Seq(Message) /\ Len(c) = d + 1 /\ c[1] = ms[first] /\ c[d + 1] = ms[n]
  <2>1. c \in Seq(Message) /\ Len(c) = n - first + 1 /\ \A p \in 1 .. n - first + 1 : c[p] = ms[first + p - 1]
    BY <1>1
  <2>2. n - first + 1 = d + 1 /\ first + 1 - 1 = first /\ first + (d + 1) - 1 = n
        /\ 1 \in 1 .. d + 1 /\ d + 1 \in 1 .. d + 1
    BY <1>1
  <2> QED
    BY <2>1, <2>2
<1> HIDE DEF c
<1>7. Head(c) = c[1] /\ Last(c) = c[d + 1]
  BY <1>6 DEF Last
<1>8. CurrentTurn(ms) = c
  BY <1>5 DEF c
<1> QED
  BY <1>1, <1>6, <1>7, <1>8

----------------------------------------------------------------------------
(* The actions.                                                              *)

LEMMA InitInv == ASSUME Init PROVE IInv
<1>1. MaxTurns \in Nat /\ Limit \in Nat /\ <<>> \in Seq(Message)
  BY GraphAssumption
<1>2. TypeOK
  BY <1>1 DEF Init, TypeOK, NoResult, Nodes
<1>3. InTurn /\ RememberedPairs
  BY DEF Init, InTurn, RememberedPairs
<1> QED
  BY <1>2, <1>3 DEF IInv

(* What a step is to show: it is in the turn, and has not remembered.        *)
LEMMA InTurnNext ==
    ASSUME IInv, NEW d \in Nat, turn' \in 1 .. MaxTurns, result' \in 0 .. turn',
           node' \in Nodes, steps' \in 0 .. Limit, remembered' = remembered,
           unanswered' \subseteq 1 .. turn',
           messages' \in Seq(Message), Trail(messages', turn', d), Pace(node', steps', d),
           node' = "remember" => ~messages'[Len(messages')].tagged
    PROVE  IInv'
<1>1. TypeOK'
  BY DEF IInv, TypeOK
<1>2. InTurn'
  BY DEF InTurn
<1>3. RememberedPairs'
  BY DEF IInv, RememberedPairs
<1> QED
  BY <1>1, <1>2, <1>3 DEF IInv

LEMMA AskInv == ASSUME IInv, Ask PROVE IInv'
<1>1. TypeOK /\ MaxTurns \in Nat /\ Limit \in Nat
  BY GraphAssumption DEF IInv
<1>2. turn' = turn + 1 /\ turn' \in 1 .. MaxTurns /\ messages' = Append(messages, Human(turn'))
      /\ node' = "trigger" /\ steps' = 0 /\ result' = result /\ remembered' = remembered
      /\ unanswered' \subseteq 1 .. turn'
  BY <1>1 DEF Ask, TypeOK
<1>3. Human(turn') \in Message
  BY <1>2 DEF Human, Message
<1>4. /\ messages' \in Seq(Message) /\ Len(messages') = Len(messages) + 1 /\ Len(messages) \in Nat
      /\ messages'[Len(messages) + 1] = Human(turn')
  BY <1>1, <1>2, <1>3, AppendProperties DEF TypeOK
<1>5. Trail(messages', turn', 0)
  <2>1. Len(messages') - 0 = Len(messages) + 1 /\ 0 < Len(messages')
    BY <1>4
  <2>2. \A p \in 1 .. Len(messages') : ~(p > Len(messages') - 0)
    BY <1>4
  <2> QED
    BY <1>4, <2>1, <2>2 DEF Trail
<1>6. Pace(node', steps', 0)
  BY <1>2 DEF Pace
<1>7. result' \in 0 .. turn' /\ node' \in Nodes /\ steps' \in 0 .. Limit /\ node' # "remember"
  BY <1>1, <1>2 DEF TypeOK, Nodes
<1> QED
  BY <1>2, <1>4, <1>5, <1>6, <1>7, InTurnNext

(* Where a node finds the turn. *)
LEMMA Running ==
    ASSUME IInv, NEW n \in Nodes, NEW next, Run(n, next)
    PROVE  /\ turn \in 1 .. MaxTurns /\ result \in 0 .. turn /\ messages \in Seq(Message)
           /\ unanswered \subseteq 1 .. turn
           /\ node = n /\ node' = next /\ steps' = steps + 1 /\ steps' \in 0 .. Limit
           /\ steps \in Nat
           /\ \E d \in Nat : Trail(messages, turn, d) /\ Pace(n, steps, d)
<1>1. TypeOK /\ MaxTurns \in Nat /\ Limit \in Nat /\ n # "idle"
  BY GraphAssumption DEF IInv, Nodes
<1>2. node = n /\ node' = next /\ steps' = steps + 1 /\ steps < Limit
  BY DEF Run
<1>3. turn > 0 /\ \E d \in Nat : Trail(messages, turn, d) /\ Pace(node, steps, d)
  BY <1>1, <1>2 DEF IInv, InTurn
<1>4. turn \in 1 .. MaxTurns /\ result \in 0 .. turn /\ messages \in Seq(Message)
      /\ steps' \in 0 .. Limit /\ steps \in Nat /\ unanswered \subseteq 1 .. turn
  BY <1>1, <1>2, <1>3 DEF TypeOK
<1> QED
  BY <1>2, <1>3, <1>4

LEMMA TriggerInv == ASSUME IInv, TriggerNode PROVE IInv'
<1>1. Run("trigger", "retrieve") /\ turn' = turn /\ messages' = messages /\ result' = result
      /\ remembered' = remembered /\ unanswered' = unanswered
  BY DEF TriggerNode
<1>2. "trigger" \in Nodes /\ "retrieve" \in Nodes
  BY DEF Nodes
<1>3. PICK d \in Nat : Trail(messages, turn, d) /\ Pace("trigger", steps, d)
  BY <1>1, <1>2, Running
<1>4. turn \in 1 .. MaxTurns /\ result \in 0 .. turn /\ messages \in Seq(Message)
      /\ node' = "retrieve" /\ steps' = steps + 1 /\ steps' \in 0 .. Limit
      /\ unanswered \subseteq 1 .. turn
  BY <1>1, <1>2, Running
<1>5. Pace(node', steps', d)
  BY <1>3, <1>4 DEF Pace
<1> QED
  BY <1>1, <1>2, <1>3, <1>4, <1>5, InTurnNext

LEMMA RetrieveInv == ASSUME IInv, RetrieveNode PROVE IInv'
<1>1. Run("retrieve", "chat") /\ turn' = turn /\ messages' = messages /\ result' = result
      /\ remembered' = remembered /\ unanswered' = unanswered
  BY DEF RetrieveNode
<1>2. "retrieve" \in Nodes /\ "chat" \in Nodes
  BY DEF Nodes
<1>3. PICK d \in Nat : Trail(messages, turn, d) /\ Pace("retrieve", steps, d)
  BY <1>1, <1>2, Running
<1>4. turn \in 1 .. MaxTurns /\ result \in 0 .. turn /\ messages \in Seq(Message)
      /\ node' = "chat" /\ steps' = steps + 1 /\ steps' \in 0 .. Limit
      /\ unanswered \subseteq 1 .. turn
  BY <1>1, <1>2, Running
<1>5. Pace(node', steps', d)
  BY <1>3, <1>4 DEF Pace
<1> QED
  BY <1>1, <1>2, <1>3, <1>4, <1>5, InTurnNext

LEMMA ChatInv == ASSUME IInv, ChatNode PROVE IInv'
<1>1. PICK tagged \in BOOLEAN :
          /\ Run("chat", IF tagged THEN "computer" ELSE "remember")
          /\ messages' = Append(messages, Reply(turn, steps, tagged))
  BY DEF ChatNode
<1>2. turn' = turn /\ result' = NoResult /\ remembered' = remembered /\ unanswered' = {}
  BY DEF ChatNode
<1>3. "chat" \in Nodes /\ "computer" \in Nodes /\ "remember" \in Nodes
  BY DEF Nodes
<1>4. PICK d \in Nat : Trail(messages, turn, d) /\ Pace("chat", steps, d)
  BY <1>1, <1>3, Running
<1>5. turn \in 1 .. MaxTurns /\ messages \in Seq(Message) /\ steps \in Nat
      /\ node' = (IF tagged THEN "computer" ELSE "remember")
      /\ steps' = steps + 1 /\ steps' \in 0 .. Limit
  BY <1>1, <1>3, Running
<1> DEFINE m == Reply(turn, steps, tagged)
<1>6. m \in Message /\ m.role = "ai" /\ m.turn = turn /\ m.tagged = tagged
  BY <1>5, MessageTypes
<1>7. messages' = Append(messages, m)
  BY <1>1
<1> HIDE DEF m
<1>8. messages' \in Seq(Message) /\ messages'[Len(messages')] = m /\ Trail(messages', turn, d + 1)
  BY <1>4, <1>5, <1>6, <1>7, TrailGrows
<1>9. Pace(node', steps', d + 1)
  <2>1. steps = 2 * d + 2
    BY <1>4 DEF Pace
  <2>2. d + 1 > 0 /\ steps' = 2 * (d + 1) + 1
    BY <1>5, <2>1
  <2>3. node' = "computer" \/ node' = "remember"
    BY <1>5
  <2> QED
    BY <2>2, <2>3 DEF Pace
<1>10. node' = "remember" => ~messages'[Len(messages')].tagged
  BY <1>5, <1>6, <1>8
<1>11. d + 1 \in Nat /\ node' \in Nodes /\ result' \in 0 .. turn'
  BY <1>2, <1>3, <1>5 DEF NoResult
<1> QED
  BY <1>2, <1>5, <1>8, <1>9, <1>10, <1>11, InTurnNext

LEMMA ComputerInv == ASSUME IInv, ComputerNode \/ ComputerSilent PROVE IInv'
<1>1. Run("computer", "chat") /\ turn' = turn /\ remembered' = remembered
      /\ unanswered' = unanswered
      /\ result' \in {turn, NoResult}
      /\ (messages' = messages \/ messages' = messages \o Append(Front(messages), Cleaned(messages)))
  BY DEF ComputerNode, ComputerSilent, Cleaned
<1>2. "computer" \in Nodes /\ "chat" \in Nodes
  BY DEF Nodes
<1>3. PICK d \in Nat : Trail(messages, turn, d) /\ Pace("computer", steps, d)
  BY <1>1, <1>2, Running
<1>4. turn \in 1 .. MaxTurns /\ messages \in Seq(Message)
      /\ node' = "chat" /\ steps' = steps + 1 /\ steps' \in 0 .. Limit
      /\ unanswered \subseteq 1 .. turn
  BY <1>1, <1>2, Running
<1>5. d > 0 /\ steps = 2 * d + 1
  BY <1>3 DEF Pace
<1>6. messages' \in Seq(Message) /\ Trail(messages', turn, d)
  BY <1>1, <1>3, <1>4, <1>5, TrailCopied
<1>7. Pace(node', steps', d)
  <2>1. steps' = 2 * d + 2
    BY <1>4, <1>5
  <2> QED
    BY <1>4, <2>1 DEF Pace
<1>8. result' \in 0 .. turn'
  BY <1>1, <1>4 DEF NoResult
<1> QED
  BY <1>1, <1>2, <1>4, <1>6, <1>7, <1>8, InTurnNext

LEMMA RememberInv == ASSUME IInv, RememberNode PROVE IInv'
<1> DEFINE question == Head(CurrentTurn(messages))
           reply == Last(CurrentTurn(messages))
<1>1. Run("remember", "idle") /\ turn' = turn /\ messages' = messages /\ result' = result
      /\ remembered' = remembered \union {[question |-> question, reply |-> reply]}
      /\ unanswered' = unanswered
  BY DEF RememberNode
<1>2. "remember" \in Nodes
  BY DEF Nodes
<1>3. PICK d \in Nat : Trail(messages, turn, d) /\ Pace("remember", steps, d)
  BY <1>1, <1>2, Running
<1>4. turn \in 1 .. MaxTurns /\ result \in 0 .. turn /\ messages \in Seq(Message)
      /\ node = "remember" /\ node' = "idle" /\ steps' \in 0 .. Limit
      /\ unanswered \subseteq 1 .. turn
  BY <1>1, <1>2, Running
<1>5. d > 0
  BY <1>3 DEF Pace
<1>6. question = Human(turn) /\ reply = messages[Len(messages)]
  BY <1>3, <1>4, <1>5, LastTurn
<1>7. Len(messages) \in 1 .. Len(messages) /\ Len(messages) > Len(messages) - d
  BY <1>3, <1>4, <1>5 DEF Trail
<1> HIDE DEF question, reply
<1>8. /\ question \in Message /\ question.role = "human" /\ question.turn = turn
      /\ reply \in Message /\ reply.role = "ai" /\ reply.turn = turn
  <2>1. question \in Message /\ question.role = "human" /\ question.turn = turn
    BY <1>4, <1>6 DEF Human, Message
  <2>2. reply \in Message /\ reply.role = "ai" /\ reply.turn = turn
    BY <1>3, <1>4, <1>6, <1>7 DEF Trail
  <2> QED
    BY <2>1, <2>2
<1>9. ~reply.tagged
  BY <1>4, <1>6 DEF IInv, InTurn
<1>10. TypeOK'
  <2>1. TypeOK
    BY DEF IInv
  <2>2. [question |-> question, reply |-> reply] \in [question : Message, reply : Message]
    BY <1>8
  <2> QED
    BY <1>1, <1>4, <2>1, <2>2 DEF TypeOK
<1>11. RememberedPairs'
  <2> SUFFICES ASSUME NEW pair \in remembered'
               PROVE  /\ pair.question.role = "human" /\ pair.reply.role = "ai"
                      /\ pair.question.turn = pair.reply.turn
                      /\ ~ pair.reply.tagged
    BY DEF RememberedPairs
  <2>1. CASE pair \in remembered
    BY <2>1 DEF IInv, RememberedPairs
  <2>2. CASE pair = [question |-> question, reply |-> reply]
    <3>1. pair.question = question /\ pair.reply = reply
      BY <2>2
    <3> QED
      BY <1>8, <1>9, <3>1
  <2> QED
    BY <1>1, <2>1, <2>2
<1>12. InTurn'
  BY <1>4 DEF InTurn
<1> QED
  BY <1>10, <1>11, <1>12 DEF IInv

LEMMA EndsInv == ASSUME IInv, NodeRaises \/ LimitReached PROVE IInv'
<1>1. /\ node # "idle" /\ node' = "idle"
      /\ turn' = turn /\ messages' = messages /\ result' = result /\ steps' = steps
      /\ remembered' = remembered /\ unanswered' \subseteq unanswered \union {turn}
  <2>1. "idle" \notin Nodes
    BY DEF Nodes
  <2> QED
    BY <2>1, GraphAssumption DEF NodeRaises, LimitReached, Abandon
<1>2. unanswered' \subseteq 1 .. turn'
  BY <1>1 DEF IInv, TypeOK, InTurn
<1>3. TypeOK'
  BY <1>1, <1>2 DEF IInv, TypeOK
<1> QED
  BY <1>1, <1>3 DEF IInv, InTurn, RememberedPairs

LEMMA Inductive == IInv /\ [Next]_vars => IInv'
<1> SUFFICES ASSUME IInv, [Next]_vars PROVE IInv'
  OBVIOUS
<1>1. CASE UNCHANGED vars
  BY <1>1 DEF IInv, TypeOK, InTurn, RememberedPairs, vars
<1> QED
  BY <1>1, AskInv, TriggerInv, RetrieveInv, ChatInv, ComputerInv, RememberInv, EndsInv DEF Next

LEMMA Invariant == Spec => []IInv
BY InitInv, Inductive, PTL DEF Spec

----------------------------------------------------------------------------
(* The window and the computer result.                                       *)

LEMMA Shown ==
    ASSUME NEW ms \in Seq(Message), NEW t, NEW d \in Nat, Trail(ms, t, d), d < MaxHistory
    PROVE  Human(t) \in Range(Window(ms))
<1> DEFINE n == Len(ms)
           from == Max({1, n - MaxHistory + 1})
           w == SubSeq(ms, from, n)
<1>1. n \in Nat /\ MaxHistory \in Nat /\ MaxHistory # 0 /\ d < n /\ ms[n - d] = Human(t)
  BY GraphAssumption DEF Trail
<1>2. from = IF 1 >= n - MaxHistory + 1 THEN 1 ELSE n - MaxHistory + 1
  BY <1>1, MaxOfTwo
<1>3. from \in 1 .. n - d
  BY <1>1, <1>2
<1>4. w = Window(ms)
  BY DEF Window
<1> HIDE DEF from
<1>5. Len(w) = n - from + 1 /\ \A p \in 1 .. n - from + 1 : w[p] = ms[from + p - 1]
      /\ DOMAIN w = 1 .. n - from + 1
  BY <1>1, <1>3
<1> HIDE DEF w
<1> DEFINE p == n - d - from + 1
<1>6. p \in 1 .. n - from + 1 /\ from + p - 1 = n - d
  BY <1>1, <1>3
<1>7. p \in DOMAIN w /\ w[p] = Human(t)
  BY <1>1, <1>5, <1>6
<1> HIDE DEF p
<1>8. Human(t) \in Range(w)
  BY <1>7 DEF Range
<1> QED
  BY <1>4, <1>8

(* The limit leaves room for the question: with d replies and a reply to     *)
(* come, 2d + 2 nodes have run.                                              *)
LEMMA InWindow ==
    ASSUME Limit <= 2 * MaxHistory + 1, IInv PROVE QuestionInWindow
<1> SUFFICES ASSUME node = "chat" PROVE Human(turn) \in Range(Window(messages))
  BY DEF QuestionInWindow
<1>1. messages \in Seq(Message) /\ steps \in 0 .. Limit /\ Limit \in Nat /\ MaxHistory \in Nat
  BY GraphAssumption DEF IInv, TypeOK
<1>2. PICK d \in Nat : Trail(messages, turn, d) /\ Pace("chat", steps, d)
  BY DEF IInv, InTurn
<1>3. steps = 2 * d + 2
  BY <1>2 DEF Pace
<1>4. d < MaxHistory
  BY <1>1, <1>3
<1> QED
  BY <1>1, <1>2, <1>4, Shown

(* A result is on its way to the reply, or the turn ended on that way and    *)
(* nothing has been answered since.                                          *)
Fresh == result # NoResult => (node = "chat" /\ result = turn) \/ result \in unanswered

LEMMA FreshKept == Fresh /\ [Next]_vars => Fresh'
<1> SUFFICES ASSUME Fresh, [Next]_vars PROVE Fresh'
  OBVIOUS
<1>1. CASE Ask \/ TriggerNode \/ RetrieveNode \/ RememberNode
  BY <1>1 DEF Ask, TriggerNode, RetrieveNode, RememberNode, Run, Fresh
<1>2. CASE ChatNode
  BY <1>2 DEF ChatNode, Fresh
<1>3. CASE ComputerNode \/ ComputerSilent
  BY <1>3 DEF ComputerNode, ComputerSilent, Run, Fresh
<1>4. CASE NodeRaises \/ LimitReached
  <2>1. Abandon
    BY <1>4 DEF NodeRaises, LimitReached
  <2> QED
    BY <2>1 DEF Abandon, Fresh
<1>5. CASE UNCHANGED vars
  BY <1>5 DEF vars, Fresh
<1> QED
  BY <1>1, <1>2, <1>3, <1>4, <1>5 DEF Next

----------------------------------------------------------------------------
(* The types hold in every state; in particular no turn runs more nodes than *)
(* the recursion limit of LangGraph.                                         *)
THEOREM TypeCorrect == Spec => []TypeOK
<1>1. IInv => TypeOK
  BY DEF IInv
<1> QED
  BY <1>1, Invariant, PTL

(* remember_node (graph.py:347) hands the memory writers a question and a    *)
(* reply of one and the same turn, without an action tag, whatever the       *)
(* computer rounds copied and whichever turns were abandoned before.         *)
THEOREM PairsMatch == Spec => []RememberedPairs
<1>1. IInv => RememberedPairs
  BY DEF IInv
<1> QED
  BY <1>1, Invariant, PTL

(* chat_node (graph.py:296) always shows the model the question, when the    *)
(* window holds at least half as many messages as nodes may run: 20 and 25   *)
(* in the code.                                                              *)
THEOREM QuestionShown ==
    ASSUME Limit <= 2 * MaxHistory + 1
    PROVE  Spec => []QuestionInWindow
<1>1. IInv => QuestionInWindow
  BY InWindow
<1> QED
  BY <1>1, Invariant, PTL

(* A result of computer actions is answered once: a reply is made from the   *)
(* result of an earlier turn only when that turn ended in chat_node, whose   *)
(* model call (graph.py:299) nothing guards, or at the recursion limit       *)
(* before it, and no reply was made since.                                   *)
THEOREM ResultIsFresh == Spec => []ResultBelongsToTurn
<1>1. Init => Fresh
  BY DEF Init, Fresh
<1>2. Fresh => ResultBelongsToTurn
  BY DEF Fresh, ResultBelongsToTurn
<1> QED
  BY <1>1, <1>2, FreshKept, PTL DEF Spec
=============================================================================
