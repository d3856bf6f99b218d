---------------------------- MODULE AtomicMemory ----------------------------
(***************************************************************************)
(* What the namespace locks promise (memory/unified.py:45, README.md:139):  *)
(* the saves write one after the other, and each writes what it computes    *)
(* from the store exactly as the saves before it left it, as if it had read *)
(* that store in the instant of its first write.  The items of one save are *)
(* all computed from that one reading (existing_facts, existing_projects,   *)
(* existing_tasks): a second item of a key replaces what the first one put. *)
(***************************************************************************)
EXTENDS MemoryRecords

CONSTANT Nobody   \* no save has written yet

VARIABLES
    store,    \* [Namespaces -> Cell]
    writer,   \* the save whose turn it is
    base,     \* the store as the writer found it
    over      \* the saves whose turn is over

Init ==
    /\ store = [n \in Namespaces |-> NoRecord]
    /\ writer = Nobody
    /\ base = store
    /\ over = {}

(* The store that the turn of save j starts from. *)
Found(j) == IF writer = j THEN base ELSE store

(* Save j writes an item of namespace n, its turn beginning if it has to.    *)
Put(j, n, verb) ==
    /\ j \notin over
    /\ Writes(verb, Found(j)[n])
    /\ store' = [store EXCEPT ![n] = Written(j, n, verb, Found(j)[n])]
    /\ base' = Found(j)
    /\ writer' = j
    /\ over' = over \union ({writer} \ {j, Nobody})

Next == \E j \in Jobs, n \in Namespaces : \E verb \in Verbs(n) : Put(j, n, verb)

Spec == Init /\ [][Next]_<<store, writer, base, over>>
=============================================================================
