---------------------------- MODULE KeyRotation ----------------------------
(***************************************************************************)
(* The pool of API keys of models.py: RotatedChatModel and, with the same   *)
(* code, RotatedStructuredModel.  A pool holds N model instances, one per   *)
(* key, and ONE rotation index shared by all the threads that call it       *)
(* (the background memory job, the episode writers, the rollup).  A call    *)
(* asks for the next instance under the pool's lock, up to N times; an      *)
(* instance that is rate limited sends the call to the next one, any other  *)
(* error ends the rotation, and what is left of the call goes to the        *)
(* fallback model.                                                          *)
(***************************************************************************)
EXTENDS Naturals

CONSTANTS
    N,             \* number of instances in the pool (unique keys, 1 to 4)
    Callers,       \* threads that call invoke() on this pool
    OtherErrors,   \* whether an instance can fail with a non rate-limit error
    MaxPicks       \* bound: no call begins once a key was handed out so often

ASSUME PoolAssumption == /\ N \in Nat \ {0}
                         /\ OtherErrors \in BOOLEAN
                         /\ MaxPicks \in Nat

Keys == 0 .. N - 1

VARIABLES
    index,     \* self._index
    limited,   \* keys whose provider answers 429 at the moment
    pc,        \* where each caller is in invoke()
    inst,      \* the instance a caller has in hand
    attempts,  \* passes of a caller's loop that have picked an instance
    gaveUp,    \* the caller's loop was left by break
    tried,     \* history: keys this invoke() has called
    seen,      \* history: keys handed out, to anybody, since it began
    disturbed, \* history: another caller took an instance since it began
    picks      \* history: how often each key has been handed out

vars == <<index, limited, pc, inst, attempts, gaveUp, tried, seen, disturbed, picks>>

Init ==
    /\ index = 0
    /\ limited \in SUBSET Keys
    /\ pc = [c \in Callers |-> "idle"]
    /\ inst = [c \in Callers |-> 0]
    /\ attempts = [c \in Callers |-> 0]
    /\ gaveUp = [c \in Callers |-> FALSE]
    /\ tried = [c \in Callers |-> {}]
    /\ seen = [c \in Callers |-> {}]
    /\ disturbed = [c \in Callers |-> FALSE]
    /\ picks = [k \in Keys |-> 0]

(* A thread enters invoke(). *)
Invoke(c) ==
    /\ pc[c] = "idle"
    /\ \A k \in Keys : picks[k] < MaxPicks
    /\ pc' = [pc EXCEPT ![c] = "loop"]
    /\ attempts' = [attempts EXCEPT ![c] = 0]
    /\ gaveUp' = [gaveUp EXCEPT ![c] = FALSE]
    /\ tried' = [tried EXCEPT ![c] = {}]
    /\ seen' = [seen EXCEPT ![c] = {}]
    /\ disturbed' = [disturbed EXCEPT ![c] = FALSE]
    /\ UNCHANGED <<index, limited, inst, picks>>

(* A pass of the loop takes the instance at index and leaves the index and   *)
(* the pass counter at the given values.                                    *)
TakeInstance(c, newIndex, newAttempts) ==
    /\ pc[c] = "loop"
    /\ attempts[c] < N
    /\ inst' = [inst EXCEPT ![c] = index]
    /\ index' = newIndex
    /\ attempts' = [attempts EXCEPT ![c] = newAttempts]
    /\ pc' = [pc EXCEPT ![c] = "call"]
    /\ seen' = [d \in Callers |->
                  IF pc[d] \in {"loop", "call"}
                  THEN seen[d] \union {index} ELSE seen[d]]
    /\ disturbed' = [d \in Callers |->
                       disturbed[d] \/ (pc[d] \in {"loop", "call"} /\ d # c)]
    /\ picks' = [picks EXCEPT ![index] = @ + 1]
    /\ UNCHANGED <<limited, gaveUp, tried>>

(* Faulty variants, for the mutation runs only: the index never moves;       *)
(* it is advanced from a copy read without the lock; a limited key is passed *)
(* over, not called; it is called again, and again.                          *)
StuckInstance(c) == TakeInstance(c, index, attempts[c] + 1)
UnlockedInstance(c) == TakeInstance(c, (inst[c] + 1) % N, attempts[c] + 1)
LimitedSkipped(c) ==
    /\ pc[c] = "call"
    /\ inst[c] \in limited
    /\ pc' = [pc EXCEPT ![c] = "loop"]
    /\ UNCHANGED <<index, limited, inst, attempts, gaveUp, tried, seen, disturbed, picks>>
RetrySameKey(c) ==
    /\ pc[c] = "call"
    /\ inst[c] \in limited
    /\ tried' = [tried EXCEPT ![c] = @ \union {inst[c]}]
    /\ UNCHANGED <<index, limited, pc, inst, attempts, gaveUp, seen, disturbed, picks>>

(* _get_next_instance: read the index and advance it under the lock. *)
GetNextInstance(c) == TakeInstance(c, (index + 1) % N, attempts[c] + 1)

(* inst.invoke() returns; the loop's result is the call's. *)
Answered(c) ==
    /\ pc[c] = "call"
    /\ inst[c] \notin limited
    /\ tried' = [tried EXCEPT ![c] = @ \union {inst[c]}]
    /\ pc' = [pc EXCEPT ![c] = "idle"]
    /\ UNCHANGED <<index, limited, inst, attempts, gaveUp, seen, disturbed, picks>>

(* inst.invoke() raises a rate-limit error: continue with the next pass. *)
RateLimited(c) ==
    /\ pc[c] = "call"
    /\ inst[c] \in limited
    /\ tried' = [tried EXCEPT ![c] = @ \union {inst[c]}]
    /\ pc' = [pc EXCEPT ![c] = "loop"]
    /\ UNCHANGED <<index, limited, inst, attempts, gaveUp, seen, disturbed, picks>>

(* inst.invoke() raises anything else: break out of the loop. *)
OtherError(c) ==
    /\ OtherErrors
    /\ pc[c] = "call"
    /\ inst[c] \notin limited
    /\ tried' = [tried EXCEPT ![c] = @ \union {inst[c]}]
    /\ gaveUp' = [gaveUp EXCEPT ![c] = TRUE]
    /\ pc' = [pc EXCEPT ![c] = "fallback"]
    /\ UNCHANGED <<index, limited, inst, attempts, seen, disturbed, picks>>

(* The for loop is exhausted: warn, and turn to the fallback model. *)
RotationExhausted(c) ==
    /\ pc[c] = "loop"
    /\ attempts[c] = N
    /\ pc' = [pc EXCEPT ![c] = "fallback"]
    /\ UNCHANGED <<index, limited, inst, attempts, gaveUp, tried, seen, disturbed, picks>>

(* The fallback model answers, or raises to the caller of invoke(). *)
Fallback(c) ==
    /\ pc[c] = "fallback"
    /\ pc' = [pc EXCEPT ![c] = "idle"]
    /\ UNCHANGED <<index, limited, inst, attempts, gaveUp, tried, seen, disturbed, picks>>

(* The provider's quota windows: a key becomes limited or usable again. *)
QuotaChange ==
    /\ \E k \in Keys :
          limited' = IF k \in limited THEN limited \ {k} ELSE limited \union {k}
    /\ UNCHANGED <<index, pc, inst, attempts, gaveUp, tried, seen, disturbed, picks>>

Step(c) == \/ GetNextInstance(c) \/ Answered(c) \/ RateLimited(c)
           \/ OtherError(c) \/ RotationExhausted(c) \/ Fallback(c)

Next == QuotaChange \/ \E c \in Callers : Invoke(c) \/ Step(c)

(***************************************************************************)
(* A thread inside invoke() keeps running: the operating system schedules   *)
(* it and every client call returns or raises.  Nobody has to call invoke().*)
(***************************************************************************)
Spec == Init /\ [][Next]_vars

FairSpec == Spec /\ \A c \in Callers : WF_vars(Step(c))

----------------------------------------------------------------------------
TypeOK ==
    /\ index \in Keys
    /\ limited \in SUBSET Keys
    /\ pc \in [Callers -> {"idle", "loop", "call", "fallback"}]
    /\ inst \in [Callers -> Keys]
    /\ attempts \in [Callers -> 0 .. N]
    /\ gaveUp \in [Callers -> BOOLEAN]
    /\ tried \in [Callers -> SUBSET Keys]
    /\ seen \in [Callers -> SUBSET Keys]
    /\ disturbed \in [Callers -> BOOLEAN]
    /\ picks \in [Keys -> Nat]

(***************************************************************************)
(* A call that exhausts its rotation has seen every key of the pool handed  *)
(* out since it began, to itself or to another caller: between two threads  *)
(* the rotation skips nobody, so a key a call did not try was in another    *)
(* call's hands meanwhile.                                                  *)
(***************************************************************************)
FullTurnBeforeFallback ==
    \A c \in Callers : pc[c] = "fallback" /\ ~gaveUp[c] => seen[c] = Keys

(***************************************************************************)
(* The fallback's warning ("All rotated keys rate limited") is true of a    *)
(* call that had the pool to itself: it tried every key, wherever the index *)
(* stood and whatever happened to the limits meanwhile.                     *)
(***************************************************************************)
UndisturbedTriesAllKeys ==
    \A c \in Callers : pc[c] = "fallback" /\ ~gaveUp[c] /\ ~disturbed[c]
                        => tried[c] = Keys

(***************************************************************************)
(* The pool balances its load: however the callers interleave, no key has   *)
(* been handed out two times more than another.                             *)
(***************************************************************************)
Balanced == \A k, l \in Keys : picks[k] <= picks[l] + 1

(***************************************************************************)
(* No call rotates for ever: invoke() returns or raises, even when every    *)
(* key is limited and the other threads keep taking instances.              *)
(***************************************************************************)
InvokeReturns == \A c \in Callers : pc[c] = "loop" ~> pc[c] = "idle"
============================================================================
