--------------------------- MODULE MemoryRecords ---------------------------
(***************************************************************************)
(* The records a unified memory save reads and writes (memory/unified.py).  *)
(* Each of the four namespaces is represented by one contested record: the  *)
(* profile document, one fact, one project and one task that several saves  *)
(* update.  A record is abstracted to what the saves can spoil: who created *)
(* it (created_at is carried from write to write) and whose contributions   *)
(* it still holds.                                                          *)
(***************************************************************************)
EXTENDS Naturals, Sequences

CONSTANTS
    Jobs,      \* the unified saves: one per remembered turn
    NoRecord   \* the key is absent from the namespace

(* The namespaces, numbered in the order in which their locks are taken.     *)
Facts    == 1
Profile  == 2
Projects == 3
Tasks    == 4
Namespaces == 1 .. 4

(* born is {j} when job j created the record; the profile has no created_at  *)
(* and its born stays {}.                                                    *)
Record == [born : SUBSET Jobs, holds : SUBSET Jobs]
Cell == Record \union {NoRecord}

ASSUME NoRecordAssumption == NoRecord \notin Record

(* What an item of the payload asks of the record; an item that says "skip"  *)
(* asks nothing and is left out.  Facts and tasks treat "update" as "add";   *)
(* only tasks can be completed.                                              *)
Verb == {"add", "update", "complete"}
Verbs(n) == CASE n = Facts    -> {"add"}
              [] n = Profile  -> {"update"}
              [] n = Projects -> {"add", "update"}
              [] n = Tasks    -> {"add", "complete"}

(* A payload lists, per namespace, its items that name the record, in order: *)
(* nothing keeps the model from naming one key twice, or two names that      *)
(* sanitize_key makes equal.  The profile's updates are one dictionary.      *)
Payload == {p \in [Namespaces -> Seq(Verb)] :
              /\ \A n \in Namespaces : p[n] \in Seq(Verbs(n))
              /\ Len(p[Profile]) <= 1}

Contributions(cell) == IF cell = NoRecord THEN {} ELSE cell.holds

(* A "complete" for a task that was not found writes nothing.                *)
Writes(verb, old) == verb = "complete" => old # NoRecord

(* The record that job j puts in namespace n, having read old there.  The    *)
(* profile, the decisions of an updated project and a completed task extend  *)
(* what was read; everything else replaces it.                               *)
Written(j, n, verb, old) ==
    [born  |-> IF n = Profile THEN {}
               ELSE IF old = NoRecord THEN {j} ELSE old.born,
     holds |-> IF verb \in {"update", "complete"}
               THEN Contributions(old) \union {j} ELSE {j}]
============================================================================
