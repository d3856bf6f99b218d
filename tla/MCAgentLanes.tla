---------------------------- MODULE MCAgentLanes ----------------------------
(* Instances of the agent lanes for TLC. *)
EXTENDS AgentLanes, TLC

CONSTANTS a1, a2, b1, c1, sa, sb

(* Two user runs and a cron run in one session, a user run in another. *)
OwnSession == [r \in Runs |-> IF r = b1 THEN sb ELSE sa]
ByTrigger == [r \in Runs |-> IF r \in CronRuns THEN 0 ELSE 2]
WidthOne == [l \in GlobalLanes |-> 1]
WidthTwo == [l \in GlobalLanes |-> 2]
=============================================================================
