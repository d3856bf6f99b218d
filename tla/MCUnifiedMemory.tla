-------------------------- MODULE MCUnifiedMemory --------------------------
(* Instances of the unified memory pipeline for TLC. *)
EXTENDS UnifiedMemory, TLC

CONSTANTS main, bridge, j1, j2, j3

OneProcess == [j \in Jobs |-> main]
TwoProcesses == [j \in Jobs |-> IF j = j1 THEN main ELSE bridge]

P(facts, profile, projects, tasks) == <<facts, profile, projects, tasks>>

(* The profile beside a task that is added and completed in one answer.      *)
AddAndComplete == {P(<<>>, <<"update">>, <<>>, <<"add", "complete">>)}
(* A fact that is put twice, after the profile.                              *)
OnePayload == {P(<<"add", "add">>, <<"update">>, <<>>, <<>>)}
============================================================================
