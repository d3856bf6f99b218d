--------------------------- MODULE MCFollowupQueue ---------------------------
(* Instances of the followup queue for TLC. *)
EXTENDS FollowupQueue, TLC

CONSTANTS m1, m2, m3, d1, d2, d3, again

(* Three messages, the first of which is delivered twice; the second comes   *)
(* from another thread and may be aborted, the third from another sender and *)
(* without an id.                                                            *)
Delivered == (d1 :> m1) @@ (d2 :> m2) @@ (d3 :> m3) @@ (again :> m1)
TwoAuthors == [d \in Runs |-> IF d = d3 THEN "guest" ELSE "owner"]
TwoRoutes == [d \in Runs |-> IF d = d2 THEN "thread" ELSE "chat"]
=============================================================================
