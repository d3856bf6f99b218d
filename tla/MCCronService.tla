--------------------------- MODULE MCCronService ---------------------------
(* Small instances of CronService: a recurring agent turn, a one-shot that  *)
(* is deleted when it succeeds, and recurring jobs of the main session.     *)
EXTENDS CronService, TLC

CONSTANTS digest, poll, reminder, m

Kinds == (digest :> "cron") @@ (poll :> "cron") @@ (reminder :> "at")
Positions == (digest :> 1) @@ (poll :> 2) @@ (reminder :> 3)
OfDigest == [n \in Manuals |-> digest]
=============================================================================
