----------------------------- MODULE ChatGraph -----------------------------
(***************************************************************************)
(* One conversation thread of Parker (graph.py): ask (main.py) or the       *)
(* bridge invokes the graph trigger -> retrieve -> chat, which loops        *)
(* through computer while the reply holds an action tag, and ends in        *)
(* remember.  The checkpointer keeps the thread's state from node to node   *)
(* and from turn to turn: when a node raises, what the nodes before it      *)
(* stored stays, and the next turn starts from it.                          *)
(***************************************************************************)
EXTENDS Naturals, SequencesExt

CONSTANTS
    MaxTurns,     \* bound: turns spoken in the thread
    Limit,        \* LangGraph's recursion limit: nodes run per turn (25)
    MaxHistory,   \* messages of the thread that chat_node shows the model (20)
    Raises        \* the nodes that may raise, or during which the process may die

Nodes == {"trigger", "retrieve", "chat", "computer", "remember"}

ASSUME GraphAssumption == /\ MaxTurns \in Nat /\ Limit \in Nat /\ MaxHistory \in Nat \ {0}
                          /\ Raises \subseteq Nodes

VARIABLES
    turn,         \* number of the turn being processed, or processed last
    messages,     \* AppState.messages: a list with operator.add as reducer
    result,       \* AppState._computer_result: the turn it comes from, or NoResult
    node,         \* node to run next, or "idle"
    steps,        \* nodes run in this turn
    remembered,   \* the pairs handed to write_chat_turn_async
    unanswered    \* history: turns that ended in chat_node since the last reply

vars == <<turn, messages, result, node, steps, remembered, unanswered>>

NoResult == 0

(* A reply is tagged when it holds a computer action; round tells apart the  *)
(* replies of one turn.                                                      *)
Message == [role : {"human", "ai"}, turn : 1 .. MaxTurns, round : Nat, tagged : BOOLEAN]
Human(t) == [role |-> "human", turn |-> t, round |-> 0, tagged |-> FALSE]
Reply(t, r, tagged) == [role |-> "ai", turn |-> t, round |-> r, tagged |-> tagged]

Init ==
    /\ turn = 0
    /\ messages = <<>>
    /\ result = NoResult
    /\ node = "idle"
    /\ steps = 0
    /\ remembered = {}
    /\ unanswered = {}

(* graph.invoke: the question is added to the thread's messages.             *)
Ask ==
    /\ node = "idle"
    /\ turn < MaxTurns
    /\ turn' = turn + 1
    /\ messages' = Append(messages, Human(turn + 1))
    /\ node' = "trigger"
    /\ steps' = 0
    /\ UNCHANGED <<result, remembered, unanswered>>

(* Faulty variant, for the mutation runs only: one node too many.            *)
RunPastLimit(n, next) ==
    /\ node = n
    /\ steps <= Limit
    /\ steps' = steps + 1
    /\ node' = next

(* A node runs and names the one to run after it. *)
Run(n, next) ==
    /\ node = n
    /\ steps < Limit
    /\ steps' = steps + 1
    /\ node' = next

(* Classify the message; an error of the model means "retrieve and store".   *)
TriggerNode ==
    /\ Run("trigger", "retrieve")
    /\ UNCHANGED <<turn, messages, result, remembered, unanswered>>

(* Compile the context, in full or lightweight.                              *)
RetrieveNode ==
    /\ Run("retrieve", "chat")
    /\ UNCHANGED <<turn, messages, result, remembered, unanswered>>

(* Faulty variants, for the mutation runs only: the result is not cleared;   *)
(* the window is taken from the start; the first question is remembered      *)
(* instead of the last.                                                      *)
ChatKeepsResult ==
    /\ \E tagged \in BOOLEAN :
          /\ Run("chat", IF tagged THEN "computer" ELSE "remember")
          /\ messages' = Append(messages, Reply(turn, steps, tagged))
    /\ unanswered' = {}
    /\ UNCHANGED <<turn, result, remembered>>
WindowFromStart(ms) == SubSeq(ms, 1, Min({MaxHistory, Len(ms)}))
CurrentTurnFirst(ms) == SubSeq(ms, SelectInSeq(ms, LAMBDA m : m.role = "human"), Len(ms))

(* The messages shown to the model. *)
Window(ms) == SubSeq(ms, Max({1, Len(ms) - MaxHistory + 1}), Len(ms))

(* The model answers from the window and the computer result, which is       *)
(* cleared; a reply with an action tag is routed to the computer.            *)
ChatNode ==
    /\ \E tagged \in BOOLEAN :
          /\ Run("chat", IF tagged THEN "computer" ELSE "remember")
          /\ messages' = Append(messages, Reply(turn, steps, tagged))
    /\ result' = NoResult
    /\ unanswered' = {}
    /\ UNCHANGED <<turn, remembered>>

(* The actions of the last reply are executed.  The node returns the whole   *)
(* list with the last reply cleaned, and the reducer appends it.             *)
ComputerNode ==
    /\ Run("computer", "chat")
    /\ messages' = messages \o Append(Front(messages), [Last(messages) EXCEPT !.tagged = FALSE])
    /\ result' = turn
    /\ UNCHANGED <<turn, remembered, unanswered>>

(* The actions give an empty result. *)
ComputerSilent ==
    /\ Run("computer", "chat")
    /\ result' = NoResult
    /\ UNCHANGED <<turn, messages, remembered, unanswered>>

(* From the last question to the end of the list. *)
CurrentTurn(ms) == SubSeq(ms, SelectLastInSeq(ms, LAMBDA m : m.role = "human"), Len(ms))

(* The turn's question and final reply go to the memory writers.             *)
RememberNode ==
    LET current == CurrentTurn(messages) IN
    /\ Run("remember", "idle")
    /\ remembered' = remembered \union {[question |-> Head(current), reply |-> Last(current)]}
    /\ UNCHANGED <<turn, messages, result, unanswered>>

(* The turn ends where it is: its messages and its computer result stay in   *)
(* the checkpoint.                                                           *)
Abandon ==
    /\ node' = "idle"
    /\ unanswered' = IF node = "chat" THEN unanswered \union {turn} ELSE unanswered
    /\ UNCHANGED <<turn, messages, result, steps, remembered>>

(* A node raises, or the process dies in it: nothing of it is stored, ask    *)
(* reports an error, and the rest of the turn is not run.                    *)
NodeRaises ==
    /\ node \in Raises
    /\ Abandon

(* LangGraph raises when the limit is reached before the end.                *)
LimitReached ==
    /\ node # "idle"
    /\ steps = Limit
    /\ Abandon

Next == \/ Ask \/ TriggerNode \/ RetrieveNode \/ ChatNode \/ ComputerNode \/ ComputerSilent
        \/ RememberNode \/ NodeRaises \/ LimitReached

Spec == Init /\ [][Next]_vars

----------------------------------------------------------------------------
TypeOK ==
    /\ turn \in 0 .. MaxTurns
    /\ messages \in Seq(Message)
    /\ result \in 0 .. turn
    /\ node \in Nodes \union {"idle"}
    /\ steps \in 0 .. Limit
    /\ remembered \subseteq [question : Message, reply : Message]
    /\ unanswered \subseteq 1 .. turn

(***************************************************************************)
(* What is remembered of a turn is that turn's question with a reply to it  *)
(* that has no action tag left, although the computer rounds copy the       *)
(* history and other turns were abandoned half way.                         *)
(***************************************************************************)
RememberedPairs ==
    \A pair \in remembered :
        /\ pair.question.role = "human" /\ pair.reply.role = "ai"
        /\ pair.question.turn = pair.reply.turn
        /\ ~ pair.reply.tagged

(***************************************************************************)
(* However many computer rounds a turn takes, the question it has to answer *)
(* is in the window of messages the model sees.                             *)
(***************************************************************************)
QuestionInWindow ==
    node = "chat" => Human(turn) \in Range(Window(messages))

(***************************************************************************)
(* A computer result is answered once.  graph.py:317 clears it with the     *)
(* reply, but the model call above it (299) is in no try, and a result of   *)
(* the turn it failed in stays in the checkpoint: a reply is made from the  *)
(* result of an earlier turn only when that turn ended in chat_node and no  *)
(* reply has been made since.                                               *)
(***************************************************************************)
ResultBelongsToTurn ==
    node = "chat" /\ result # NoResult => result = turn \/ result \in unanswered
=============================================================================
