------------------------- MODULE KeyRotation_proofs -------------------------
(***************************************************************************)
(* Proofs about the key rotation pool, for every pool size and every set of *)
(* callers.                                                                 *)
(***************************************************************************)
EXTENDS KeyRotation, Integers, TLAPS

(* How many hand-outs ago key k was handed out, if the pool has been around  *)
(* once: 1 for the last one, N for the one that is next.                     *)
Back(k) == IF k < index THEN index - k ELSE index + N - k

(* The keys handed out in the last attempts[c] passes are among those that   *)
(* the call of c has seen.                                                   *)
WindowInv ==
    \A c \in Callers : pc[c] \in {"loop", "call"} =>
        \A k \in Keys : Back(k) <= attempts[c] => k \in seen[c]

(* The rotation has completed some r rounds and is at index in the next.     *)
RoundInv ==
    \E r \in Nat : \A k \in Keys : picks[k] = IF k < index THEN r + 1 ELSE r

(* An undisturbed call has tried what it has seen. *)
UndisturbedInv ==
    \A c \in Callers : ~disturbed[c] =>
        /\ pc[c] = "loop" => seen[c] = tried[c]
        /\ pc[c] = "call" => seen[c] = tried[c] \union {inst[c]}
        /\ pc[c] = "fallback" /\ ~gaveUp[c] => seen[c] = tried[c]

----------------------------------------------------------------------------
(* The index arithmetic of _get_next_instance: the successor wraps at N.     *)
LEMMA NextIndex ==
    ASSUME NEW i \in Keys
    PROVE  (i + 1) % N = IF i + 1 = N THEN 0 ELSE i + 1
<1>1. N \in Nat /\ N > 0 /\ i \in Nat /\ i + 1 <= N
  BY PoolAssumption DEF Keys
<1>2. CASE i + 1 = N
  <2>1. N % N = 0
    BY <1>1, SMT
  <2> QED
    BY <1>2, <2>1
<1>3. CASE i + 1 < N
  BY <1>1, <1>3, SMT
<1> QED
  BY <1>1, <1>2, <1>3

(* Every reachable state of a pool is well typed: in particular the index    *)
(* never leaves the list of instances, whatever the threads interleave.      *)
THEOREM TypeCorrect == Spec => []TypeOK
<1>1. Init => TypeOK
  BY PoolAssumption DEF Init, TypeOK, Keys
<1>2. TypeOK /\ [Next]_vars => TypeOK'
  <2> SUFFICES ASSUME TypeOK, [Next]_vars PROVE TypeOK'
    OBVIOUS
  <2> USE PoolAssumption DEF TypeOK
  <2>1. ASSUME NEW c \in Callers, Invoke(c) PROVE TypeOK'
    BY <2>1 DEF Invoke
  <2>2. ASSUME NEW c \in Callers, GetNextInstance(c) PROVE TypeOK'
    <3>1. (index + 1) % N \in Keys
      BY NextIndex DEF Keys
    <3>2. attempts[c] + 1 \in 0 .. N
      BY <2>2 DEF GetNextInstance, TakeInstance
    <3>3. picks[index] + 1 \in Nat
      OBVIOUS
    <3> QED
      BY <2>2, <3>1, <3>2, <3>3 DEF GetNextInstance, TakeInstance
  <2>3. ASSUME NEW c \in Callers, Answered(c) PROVE TypeOK'
    BY <2>3 DEF Answered
  <2>4. ASSUME NEW c \in Callers, RateLimited(c) PROVE TypeOK'
    BY <2>4 DEF RateLimited
  <2>5. ASSUME NEW c \in Callers, OtherError(c) PROVE TypeOK'
    BY <2>5 DEF OtherError
  <2>6. ASSUME NEW c \in Callers, RotationExhausted(c) PROVE TypeOK'
    BY <2>6 DEF RotationExhausted
  <2>7. ASSUME NEW c \in Callers, Fallback(c) PROVE TypeOK'
    BY <2>7 DEF Fallback
  <2>8. CASE QuotaChange
    BY <2>8 DEF QuotaChange
  <2>9. CASE UNCHANGED vars
    BY <2>9 DEF vars
  <2> QED
    BY <2>1, <2>2, <2>3, <2>4, <2>5, <2>6, <2>7, <2>8, <2>9 DEF Next, Step
<1> QED
  BY <1>1, <1>2, PTL DEF Spec

(* The pool hands its keys out in turn, so that no key is ever two hand-outs *)
(* ahead of another.                                                         *)
THEOREM LoadBalanced == Spec => []Balanced
<1>1. Init => RoundInv
  <2> SUFFICES ASSUME Init PROVE RoundInv
    OBVIOUS
  <2>1. \A k \in Keys : picks[k] = IF k < index THEN 0 + 1 ELSE 0
    BY DEF Init, Keys
  <2> QED
    BY <2>1 DEF RoundInv
<1>2. TypeOK /\ RoundInv /\ [Next]_vars => RoundInv'
  <2> SUFFICES ASSUME TypeOK, RoundInv, [Next]_vars PROVE RoundInv'
    OBVIOUS
  <2>1. CASE UNCHANGED <<index, picks>>
    BY <2>1 DEF RoundInv
  <2>2. ASSUME NEW c \in Callers, GetNextInstance(c) PROVE RoundInv'
    <3> PICK r \in Nat : \A k \in Keys : picks[k] = IF k < index THEN r + 1 ELSE r
      BY DEF RoundInv
    <3>1. index \in Keys /\ N \in Nat \ {0} /\ Keys \subseteq Nat
      BY PoolAssumption DEF TypeOK, Keys
    <3>2. index' = IF index + 1 = N THEN 0 ELSE index + 1
      BY <2>2, <3>1, NextIndex DEF GetNextInstance, TakeInstance
    <3>3. \A k \in Keys : picks'[k] = IF k = index THEN picks[k] + 1 ELSE picks[k]
      BY <2>2 DEF GetNextInstance, TakeInstance, TypeOK
    <3>4. CASE index + 1 = N
      <4>1. \A k \in Keys : k <= index
        BY <3>1, <3>4 DEF Keys
      <4>2. \A k \in Keys : picks'[k] = r + 1
        BY <3>1, <3>3, <4>1
      <4>3. \A k \in Keys : ~ (k < index')
        BY <3>1, <3>2, <3>4
      <4> QED
        BY <4>2, <4>3 DEF RoundInv
    <3>5. CASE index + 1 # N
      <4>1. \A k \in Keys : picks'[k] = IF k < index' THEN r + 1 ELSE r
        BY <3>1, <3>2, <3>3, <3>5
      <4> QED
        BY <4>1 DEF RoundInv
    <3> QED
      BY <3>4, <3>5
  <2>3. ASSUME NEW c \in Callers,
               Invoke(c) \/ Answered(c) \/ RateLimited(c) \/ OtherError(c)
                 \/ RotationExhausted(c) \/ Fallback(c)
        PROVE  UNCHANGED <<index, picks>>
    BY <2>3 DEF Invoke, Answered, RateLimited, OtherError, RotationExhausted, Fallback
  <2>4. CASE QuotaChange
    BY <2>1, <2>4 DEF QuotaChange
  <2>5. CASE UNCHANGED vars
    BY <2>1, <2>5 DEF vars
  <2> QED
    BY <2>1, <2>2, <2>3, <2>4, <2>5 DEF Next, Step
<1>3. RoundInv => Balanced
  <2> SUFFICES ASSUME RoundInv, NEW k \in Keys, NEW l \in Keys
               PROVE  picks[k] <= picks[l] + 1
    BY DEF Balanced
  <2> PICK r \in Nat : \A m \in Keys : picks[m] = IF m < index THEN r + 1 ELSE r
    BY DEF RoundInv
  <2>1. picks[k] \in {r, r + 1} /\ picks[l] \in {r, r + 1}
    OBVIOUS
  <2> QED
    BY <2>1
<1> QED
  BY <1>1, <1>2, <1>3, TypeCorrect, PTL DEF Spec

----------------------------------------------------------------------------
(* The inductive invariant of the full turn. *)
TurnInv == WindowInv /\ FullTurnBeforeFallback

LEMMA TurnStep == TypeOK /\ TurnInv /\ [Next]_vars => TurnInv'
<1> SUFFICES ASSUME TypeOK, TurnInv, [Next]_vars PROVE TurnInv'
  OBVIOUS
<1> USE PoolAssumption DEF TypeOK, TurnInv, WindowInv, FullTurnBeforeFallback
<1>1. ASSUME NEW c \in Callers, Invoke(c) PROVE TurnInv'
  <2>1. \A k \in Keys : Back(k)' = Back(k) /\ ~ (Back(k) <= 0)
    BY <1>1 DEF Invoke, Back, Keys
  <2>2. WindowInv'
    <3> SUFFICES ASSUME NEW d \in Callers, pc'[d] \in {"loop", "call"},
                        NEW k \in Keys, Back(k)' <= attempts'[d]
                 PROVE  k \in seen'[d]
      OBVIOUS
    <3>1. CASE d = c
      BY <1>1, <2>1, <3>1 DEF Invoke
    <3>2. CASE d # c
      BY <1>1, <2>1, <3>2 DEF Invoke
    <3> QED
      BY <3>1, <3>2
  <2>3. FullTurnBeforeFallback'
    BY <1>1 DEF Invoke
  <2> QED
    BY <2>2, <2>3
<1>2. ASSUME NEW c \in Callers, GetNextInstance(c) PROVE TurnInv'
  <2>1. index' = IF index + 1 = N THEN 0 ELSE index + 1
    BY <1>2, NextIndex DEF GetNextInstance, TakeInstance
  <2>2. \A k \in Keys : k # index => Back(k)' = Back(k) + 1
    BY <2>1 DEF Back, Keys
  <2>3. \A d \in Callers : pc'[d] \in {"loop", "call"} =>
           /\ pc[d] \in {"loop", "call"}
           /\ attempts'[d] <= attempts[d] + 1
           /\ seen'[d] = seen[d] \union {index}
    BY <1>2 DEF GetNextInstance, TakeInstance
  <2>4. WindowInv'
    <3> SUFFICES ASSUME NEW d \in Callers, pc'[d] \in {"loop", "call"},
                        NEW k \in Keys, Back(k)' <= attempts'[d]
                 PROVE  k \in seen'[d]
      OBVIOUS
    <3>1. CASE k = index
      BY <2>3, <3>1
    <3>2. CASE k # index
      <4>1. Back(k) \in Int /\ attempts[d] \in Int /\ attempts'[d] \in Int
        BY <1>2 DEF Back, Keys, GetNextInstance, TakeInstance
      <4>2. Back(k) <= attempts[d]
        BY <2>2, <2>3, <3>2, <4>1
      <4> QED
        BY <2>3, <4>2
    <3> QED
      BY <3>1, <3>2
  <2>5. FullTurnBeforeFallback'
    BY <1>2 DEF GetNextInstance, TakeInstance
  <2> QED
    BY <2>4, <2>5
<1>3. ASSUME NEW c \in Callers, RotationExhausted(c) PROVE TurnInv'
  <2>1. \A k \in Keys : Back(k)' = Back(k) /\ Back(k) <= N
    BY <1>3 DEF RotationExhausted, Back, Keys
  <2>2. seen[c] = Keys
    BY <1>3, <2>1 DEF RotationExhausted
  <2> QED
    BY <1>3, <2>1, <2>2 DEF RotationExhausted
<1>4. ASSUME NEW c \in Callers,
             Answered(c) \/ RateLimited(c) \/ OtherError(c) \/ Fallback(c)
      PROVE  TurnInv'
  <2>1. \A k \in Keys : Back(k)' = Back(k)
    BY <1>4 DEF Answered, RateLimited, OtherError, Fallback, Back
  <2> QED
    BY <1>4, <2>1 DEF Answered, RateLimited, OtherError, Fallback
<1>5. CASE QuotaChange
  BY <1>5 DEF QuotaChange, Back
<1>6. CASE UNCHANGED vars
  BY <1>6 DEF vars, Back
<1> QED
  BY <1>1, <1>2, <1>3, <1>4, <1>5, <1>6 DEF Next, Step

(* Between two threads the rotation skips no key: a call that falls back     *)
(* after a complete loop has seen every key handed out meanwhile.            *)
THEOREM FullTurn == Spec => []FullTurnBeforeFallback
<1>1. Init => TurnInv
  BY DEF Init, TurnInv, WindowInv, FullTurnBeforeFallback
<1>2. TurnInv => FullTurnBeforeFallback
  BY DEF TurnInv
<1> QED
  BY <1>1, <1>2, TurnStep, TypeCorrect, PTL DEF Spec

(* The warning is true of a call that no other thread disturbed: the         *)
(* fallback model is only asked after every key was tried, or after an error *)
(* of another kind.                                                          *)
THEOREM UndisturbedCall == Spec => []UndisturbedTriesAllKeys
<1>1. Init => UndisturbedInv
  BY DEF Init, UndisturbedInv
<1>2. TypeOK /\ UndisturbedInv /\ [Next]_vars => UndisturbedInv'
  <2> SUFFICES ASSUME TypeOK, UndisturbedInv, [Next]_vars PROVE UndisturbedInv'
    OBVIOUS
  <2> USE DEF TypeOK, UndisturbedInv
  <2>1. ASSUME NEW c \in Callers, Invoke(c) PROVE UndisturbedInv'
    BY <2>1 DEF Invoke
  <2>2. ASSUME NEW c \in Callers, GetNextInstance(c) PROVE UndisturbedInv'
    <3> SUFFICES ASSUME NEW d \in Callers, ~disturbed'[d]
                 PROVE  /\ pc'[d] = "loop" => seen'[d] = tried'[d]
                        /\ pc'[d] = "call" => seen'[d] = tried'[d] \union {inst'[d]}
                        /\ pc'[d] = "fallback" /\ ~gaveUp'[d] => seen'[d] = tried'[d]
      OBVIOUS
    <3>1. CASE d = c
      BY <2>2, <3>1 DEF GetNextInstance, TakeInstance
    <3>2. CASE d # c
      <4>1. ~disturbed[d] /\ pc[d] \notin {"loop", "call"}
        BY <2>2, <3>2 DEF GetNextInstance, TakeInstance
      <4> QED
        BY <2>2, <3>2, <4>1 DEF GetNextInstance, TakeInstance
    <3> QED
      BY <3>1, <3>2
  <2>3. ASSUME NEW c \in Callers,
               \/ Answered(c) \/ RateLimited(c) \/ OtherError(c)
               \/ RotationExhausted(c) \/ Fallback(c)
        PROVE  UndisturbedInv'
    BY <2>3 DEF Answered, RateLimited, OtherError, RotationExhausted, Fallback
  <2>4. CASE QuotaChange \/ UNCHANGED vars
    BY <2>4 DEF QuotaChange, vars
  <2> QED
    BY <2>1, <2>2, <2>3, <2>4 DEF Next, Step
<1>3. UndisturbedInv /\ FullTurnBeforeFallback => UndisturbedTriesAllKeys
  BY DEF UndisturbedInv, FullTurnBeforeFallback, UndisturbedTriesAllKeys
<1> QED
  BY <1>1, <1>2, <1>3, FullTurn, TypeCorrect, PTL DEF Spec
============================================================================
