----------------------------- MODULE SerialTurns -----------------------------
(***************************************************************************)
(* What the nested lanes promise (src/gateway/docs/concepts/queue.md, "How  *)
(* it works"): the turns of a session take place one at a time.  The code   *)
(* keeps that for every turn whose session slot was not taken away from it  *)
(* by a timeout, a recovery or a restart: two turns of a session overlap    *)
(* only when one of them is loose.                                          *)
(***************************************************************************)
CONSTANTS Runs, SessionOf

VARIABLES
    turn,    \* life of each run: "new", "waiting", "running", "over"
    loose    \* the runs that lost their session slot before their end

Init == turn = [r \in Runs |-> "new"] /\ loose = {}

(* A run is accepted, or refused at once. *)
Accept(r) ==
    /\ turn[r] = "new"
    /\ \E next \in {"waiting", "over"} : turn' = [turn EXCEPT ![r] = next]
    /\ UNCHANGED loose

(* Its turn begins: the other turns under way in its session are over, or   *)
(* one of each two is loose.                                                *)
Begin(r) ==
    /\ turn[r] = "waiting"
    /\ \A q \in Runs : SessionOf[q] = SessionOf[r] /\ turn[q] = "running"
                          => q \in loose \/ r \in loose
    /\ turn' = [turn EXCEPT ![r] = "running"]
    /\ UNCHANGED loose

End(r) ==
    /\ turn[r] = "running"
    /\ turn' = [turn EXCEPT ![r] = "over"]
    /\ UNCHANGED loose

(* Runs that wait are answered without a turn. *)
Refuse(R) ==
    /\ \A r \in R : turn[r] = "waiting"
    /\ turn' = [r \in Runs |-> IF r \in R THEN "over" ELSE turn[r]]
    /\ UNCHANGED loose

(* Runs lose their slot: a timeout, a recovery, a restart. *)
Release(R) == loose' = loose \union R /\ UNCHANGED turn

Next ==
    \/ \E r \in Runs : Accept(r) \/ Begin(r) \/ End(r)
    \/ \E R \in SUBSET Runs : Refuse(R) \/ Release(R)

Spec == Init /\ [][Next]_<<turn, loose>>
=============================================================================
