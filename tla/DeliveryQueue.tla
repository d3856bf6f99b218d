---------------------------- MODULE DeliveryQueue ----------------------------
(***************************************************************************)
(* The write-ahead queue of outbound messages                               *)
(* (src/gateway/src/infra/outbound): a message is a file before it is sent, *)
(* the file records how far the send came, and is renamed away when the     *)
(* platform has the message.  A scan takes the entries that are left and     *)
(* sends them again, unless the file says that a send was begun: then the   *)
(* channel's adapter is asked whether the message arrived.  There is such a *)
(* scan after every restart, and for the channels whose monitor asks for it *)
(* also while they are connected.  In-process claims keep the live send and *)
(* the scans apart.                                                         *)
(***************************************************************************)
EXTENDS Naturals, FiniteSets

CONSTANTS
    Deliveries,
    Notices,        \* those sent by deliverRestartSentinelNotice
    Drained,        \* those of the account whose monitor drains its entries
    MaxRetries,     \* MAX_RETRIES
    MaxFaults,      \* bound: sends and file operations that fail
    MaxCrashes      \* bound: restarts of the gateway

ASSUME DeliveryAssumption ==
    /\ Notices \subseteq Deliveries /\ Drained \subseteq Deliveries
    /\ MaxRetries \in Nat \ {0}
    /\ {MaxFaults, MaxCrashes} \subseteq Nat

Scans == {"startup", "drain"}
Selects(s) == IF s = "drain" THEN Drained ELSE Deliveries

(* Who calls failDelivery without a claim.                                    *)
Writers == {"budget", "notice"}

VARIABLES
    required,  \* deliveries with queuePolicy "required" (else "best_effort")
    reconciles,\* the channel's adapter declares reconcileUnknownSend
    disk,      \* the file of each delivery
    claims,    \* entriesInProgress
    live,      \* the call of deliverOutboundPayloads for each delivery
    scan,      \* recoverPendingDeliveries and drainPendingDeliveries
    rewrite,   \* the files read, and not yet written, by each of the Writers
    booted,    \* the start-up recovery of this process has begun
    faults, crashes,
    sent,      \* history: how often the platform got the message
    arrived,   \* history: the live send, having written its mark, arrived
    aborted,   \* history: the caller aborted the send
    withheld,  \* history: a send came back with nothing sent and no error
    raced      \* history: one of the Writers wrote over a file that had changed

vars == <<required, reconciles, disk, claims, live, scan, rewrite, booted, faults, crashes,
          sent, arrived, aborted, withheld, raced>>
setup == <<required, reconciles>>
history == <<arrived, aborted, withheld, raced>>

NoFile == [at |-> "none", retry |-> 0, mark |-> "none", tried |-> FALSE]
NoScan == [pc |-> "idle", todo |-> {}, on |-> {}]
NoRewrite == [w \in Writers |-> [d \in Deliveries |-> NoFile]]

Init ==
    /\ required \in SUBSET (Deliveries \ Notices)
    /\ reconciles \in BOOLEAN
    /\ disk = [d \in Deliveries |-> NoFile]
    /\ claims = {}
    /\ live = [d \in Deliveries |-> "new"]
    /\ scan = [s \in Scans |-> NoScan]
    /\ rewrite = NoRewrite
    /\ booted = FALSE
    /\ faults = 0 /\ crashes = 0
    /\ sent = [d \in Deliveries |-> 0]
    /\ arrived = {} /\ aborted = {} /\ withheld = {} /\ raced = {}

----------------------------------------------------------------------------
(* delivery-queue-storage.ts.  An operation on a file that is gone does      *)
(* nothing: its caller ignores ENOENT.                                       *)

Queued(d) == disk[d].at = "queue"
Written(d, file) == IF Queued(d) THEN [disk EXCEPT ![d] = file] ELSE disk

FailedOnce(file) == [file EXCEPT !.retry = @ + 1, !.tried = TRUE]

ackDelivery(d) == Written(d, [disk[d] EXCEPT !.at = "acked"])
failDelivery(d) == Written(d, FailedOnce(disk[d]))
moveToFailed(d) == Written(d, [disk[d] EXCEPT !.at = "failed"])
markDelivery(d, mark) == Written(d, [disk[d] EXCEPT !.mark = mark])

Fault == faults < MaxFaults /\ faults' = faults + 1
NoFault == faults' = faults

(* What a send may come to: the platform has the message; the call comes     *)
(* back with nothing sent, as a hook cancelled the payloads, or they were    *)
(* empty, or the adapter gave no identity; the call fails, and the platform  *)
(* has not, or has (all of it or the first payloads), the message.           *)
Sends(d, ok, none, threw) ==
    \/ NoFault /\ sent' = [sent EXCEPT ![d] = @ + 1] /\ withheld' = withheld /\ ok
    \/ NoFault /\ sent' = sent /\ withheld' = withheld \union {d} /\ none
    \/ Fault /\ sent' = sent /\ withheld' = withheld /\ threw
    \/ Fault /\ sent' = [sent EXCEPT ![d] = @ + 1] /\ withheld' = withheld /\ threw

----------------------------------------------------------------------------
(* The live send.                                                            *)

At(d, pc) == live' = [live EXCEPT ![d] = pc]

(* enqueueDelivery; when the write fails, a best-effort send goes on without *)
(* an entry, and a required one is refused.                                  *)
Enqueue(d) ==
    /\ live[d] = "new"
    /\ \/ /\ NoFault /\ At(d, "queued")
          /\ disk' = [disk EXCEPT ![d].at = "queue"]
       \/ /\ Fault
          /\ At(d, IF d \in required THEN "refused" ELSE "bare")
          /\ disk' = disk
    /\ UNCHANGED <<setup, claims, scan, rewrite, booted, crashes, sent, history>>

(* withActiveDeliveryClaim: a scan that was faster owns the entry.           *)
Claim(d) ==
    /\ live[d] = "queued" /\ d \notin Notices
    /\ IF d \in claims THEN At(d, "done") /\ claims' = claims
       ELSE At(d, "claimed") /\ claims' = claims \union {d}
    /\ NoFault
    /\ UNCHANGED <<setup, disk, scan, rewrite, booted, crashes, sent, history>>

(* The notice of a restart is queued, and sent with skipQueue: no claim.     *)
NoticeStarts(d) ==
    /\ live[d] = "queued" /\ d \in Notices
    /\ At(d, "noticing")
    /\ NoFault
    /\ UNCHANGED <<setup, disk, claims, scan, rewrite, booted, crashes, sent, history>>

(* Faulty variant, for the mutation runs only: the send begins unmarked.     *)
StartUnmarked(d) ==
    /\ live[d] = "claimed"
    /\ NoFault /\ At(d, "marked") /\ disk' = disk
    /\ UNCHANGED <<setup, claims, scan, rewrite, booted, crashes, sent, history>>

(* onPlatformSendStart.  A mark that cannot be written (the file is gone if  *)
(* a scan was done with it before the claim) stops a required send only.     *)
Start(d) ==
    /\ live[d] = "claimed"
    /\ \/ /\ NoFault /\ Queued(d) /\ At(d, "marked")
          /\ disk' = markDelivery(d, "started")
       \/ /\ (NoFault /\ ~Queued(d)) \/ Fault
          /\ At(d, IF d \in required THEN "threw" ELSE "unmarked")
          /\ disk' = disk
    /\ UNCHANGED <<setup, claims, scan, rewrite, booted, crashes, sent, history>>

(* Every payload is cancelled by a message_sending hook, or is empty after   *)
(* it: no platform call, so no mark, and the empty results are acked.        *)
Suppress(d) ==
    /\ live[d] = "claimed"
    /\ At(d, "unknown") /\ withheld' = withheld \union {d}
    /\ NoFault
    /\ UNCHANGED <<setup, disk, claims, scan, rewrite, booted, crashes, sent, arrived, aborted,
                   raced>>

(* The platform call of the live send.  A notice takes empty results for a   *)
(* failure.                                                                  *)
LiveSends(d) ==
    /\ \/ /\ live[d] = "marked"
          /\ Sends(d, At(d, "returned"), At(d, "returned"), At(d, "threw"))
       \/ /\ live[d] = "unmarked"
          /\ Sends(d, At(d, "unknown"), At(d, "unknown"), At(d, "threw"))
       \/ live[d] = "bare" /\ Sends(d, At(d, "done"), At(d, "done"), At(d, "refused"))
       \/ live[d] = "noticing" /\ Sends(d, At(d, "noticed"), FALSE, At(d, "retrying"))
       \/ /\ live[d] = "noticing" /\ At(d, "retrying")
          /\ NoFault /\ sent' = sent /\ withheld' = withheld
    /\ arrived' = IF live[d] = "marked" /\ sent' # sent THEN arrived \union {d} ELSE arrived
    /\ UNCHANGED <<setup, disk, claims, scan, rewrite, booted, crashes, aborted, raced>>

(* Faulty variant, for the mutation runs only: a failed send is acked.       *)
LiveEndsAcked(d) ==
    /\ live[d] \in {"unknown", "threw"}
    /\ At(d, "done") /\ claims' = claims \ {d} /\ NoFault /\ disk' = ackDelivery(d)
    /\ UNCHANGED <<setup, scan, rewrite, booted, crashes, sent, history>>

(* The results are back: the outcome is unknown until the entry is acked.    *)
OutcomeUnknown(d) ==
    /\ live[d] = "returned"
    /\ \/ NoFault /\ disk' = markDelivery(d, "unknown") /\ At(d, "unknown")
       \/ Fault /\ disk' = disk /\ At(d, IF d \in required THEN "leaves" ELSE "unknown")
    /\ UNCHANGED <<setup, claims, scan, rewrite, booted, crashes, sent, history>>

(* The end of the live send: acked, or failed when it threw before results   *)
(* were returned; an ack that fails leaves the entry as it is.               *)
LiveEnds(d) ==
    /\ \/ live[d] = "unknown" /\ NoFault /\ disk' = ackDelivery(d)
       \/ live[d] = "unknown" /\ Fault /\ disk' = disk
       \/ live[d] = "leaves" /\ NoFault /\ disk' = disk
       \/ live[d] = "threw" /\ NoFault /\ disk' = failDelivery(d)
    /\ At(d, "done")
    /\ claims' = claims \ {d}
    /\ UNCHANGED <<setup, scan, rewrite, booted, crashes, sent, history>>

(* The caller aborts before the platform call: the entry is acked.           *)
Abort(d) ==
    /\ live[d] \in {"claimed", "marked", "unmarked"}
    /\ disk' = ackDelivery(d)
    /\ aborted' = aborted \union {d}
    /\ At(d, "done")
    /\ claims' = claims \ {d}
    /\ NoFault
    /\ UNCHANGED <<setup, scan, rewrite, booted, crashes, sent, arrived, withheld, raced>>

(* The notice is acked, or tried again after a delay.  After its last        *)
(* attempt failDelivery reads the file, which it writes later: Rewrites.     *)
(* That these file operations fail is ignored.                               *)
NoticeEnds(d) ==
    /\ \/ live[d] = "noticed" /\ NoFault /\ disk' = ackDelivery(d) /\ At(d, "done")
       \/ live[d] \in {"noticed", "retrying"} /\ Fault /\ disk' = disk /\ At(d, "done")
       \/ live[d] = "retrying" /\ NoFault /\ disk' = disk /\ At(d, "noticing")
    /\ UNCHANGED <<setup, claims, scan, rewrite, booted, crashes, sent, history>>

NoticeFails(d) ==
    /\ live[d] = "retrying"
    /\ rewrite' = IF Queued(d) THEN [rewrite EXCEPT !["notice"][d] = disk[d]] ELSE rewrite
    /\ At(d, "done")
    /\ NoFault
    /\ UNCHANGED <<setup, disk, claims, scan, booted, crashes, sent, history>>

LiveStep(d) ==
    Claim(d) \/ NoticeStarts(d) \/ Start(d) \/ Suppress(d) \/ LiveSends(d)
        \/ OutcomeUnknown(d) \/ LiveEnds(d) \/ NoticeEnds(d) \/ NoticeFails(d)

----------------------------------------------------------------------------
(* delivery-queue-recovery.ts                                                *)

(* loadPendingDeliveries: once after the start of the process, of all        *)
(* entries; by a drain, of which one runs at a time, of those of its account.*)
Load(s) ==
    /\ scan[s].pc = "idle"
    /\ s = "startup" => ~booted
    /\ s = "drain" => \E d \in Drained : Queued(d)
    /\ booted' = (booted \/ s = "startup")
    /\ scan' = [scan EXCEPT ![s] = [NoScan EXCEPT !.pc = "next",
                                                  !.todo = {d \in Selects(s) : Queued(d)}]]
    /\ UNCHANGED <<setup, disk, claims, live, rewrite, faults, crashes, sent, history>>

LoadEnds(s) ==
    /\ scan[s].pc = "next" /\ scan[s].todo = {}
    /\ scan' = [scan EXCEPT ![s] = NoScan]
    /\ UNCHANGED <<setup, disk, claims, live, rewrite, booted, faults, crashes, sent, history>>

Goto(s, pc, d) ==
    scan' = [scan EXCEPT ![s] = [pc |-> pc, todo |-> @.todo \ {d}, on |-> {d}]]

(* The entry is not touched: it is claimed, gone, or backing off.            *)
Skip(s, d) ==
    /\ scan[s].pc = "next" /\ d \in scan[s].todo
    /\ d \in claims \/ ~Queued(d) \/ disk[d].tried
    /\ scan' = [scan EXCEPT ![s].todo = @ \ {d}]
    /\ UNCHANGED <<setup, disk, claims, live, rewrite, booted, faults, crashes, sent, history>>

Exhausted(s, d) ==
    /\ scan[s].pc = "next" /\ d \in scan[s].todo
    /\ d \notin claims /\ Queued(d) /\ disk[d].retry >= MaxRetries
    /\ disk' = moveToFailed(d)
    /\ scan' = [scan EXCEPT ![s].todo = @ \ {d}]
    /\ UNCHANGED <<setup, claims, live, rewrite, booted, faults, crashes, sent, history>>

Doing(d) == IF disk[d].mark = "none" THEN "send" ELSE "reconcile"
Is(s, pc, d) == scan[s].pc = pc /\ scan[s].on = {d}

(* Faulty variant, for the mutation runs only: the claim is not looked at.   *)
TakeUnclaimed(s, d) ==
    /\ scan[s].pc = "next" /\ d \in scan[s].todo
    /\ Queued(d) /\ disk[d].retry < MaxRetries
    /\ claims' = claims \union {d}
    /\ Goto(s, Doing(d), d)
    /\ UNCHANGED <<setup, disk, live, rewrite, booted, faults, crashes, sent, history>>

(* Faulty variant, for the mutation runs only: no limit of retries.          *)
TakeUnlimited(s, d) ==
    /\ scan[s].pc = "next" /\ d \in scan[s].todo
    /\ d \notin claims /\ Queued(d)
    /\ claims' = claims \union {d}
    /\ Goto(s, Doing(d), d)
    /\ UNCHANGED <<setup, disk, live, rewrite, booted, faults, crashes, sent, history>>

(* claimRecoveryEntry, and the entry read again under the claim.             *)
Take(s, d) ==
    /\ scan[s].pc = "next" /\ d \in scan[s].todo
    /\ d \notin claims /\ Queued(d) /\ disk[d].retry < MaxRetries
    /\ claims' = claims \union {d}
    /\ Goto(s, Doing(d), d)
    /\ UNCHANGED <<setup, disk, live, rewrite, booted, faults, crashes, sent, history>>

Next1(s, d) == /\ scan' = [scan EXCEPT ![s].pc = "next", ![s].on = {}]
               /\ claims' = claims \ {d}
To(s, pc, d) == scan' = [scan EXCEPT ![s].pc = pc] /\ claims' = claims

(* Faulty variant, for the mutation runs only: unresolved is tried for ever. *)
ReconcileForever(s, d) ==
    /\ Is(s, "reconcile", d)
    /\ IF reconciles /\ sent[d] = 0 THEN disk' = disk /\ To(s, "send", d)
       ELSE disk' = disk /\ Next1(s, d)
    /\ UNCHANGED <<setup, live, rewrite, booted, faults, crashes, sent, history>>

(* reconcileUnknownQueuedDelivery: an adapter does not say that a message    *)
(* arrived, or did not, when the contrary is true; it may not know.          *)
Reconcile(s, d) ==
    /\ Is(s, "reconcile", d)
    /\ \/ ~reconciles /\ disk' = moveToFailed(d) /\ Next1(s, d)
       \/ reconciles /\ sent[d] > 0 /\ disk' = ackDelivery(d) /\ Next1(s, d)
       \/ reconciles /\ sent[d] = 0 /\ disk' = disk /\ To(s, "send", d)
       \/ reconciles /\ disk' \in {failDelivery(d), moveToFailed(d)} /\ Next1(s, d)
    /\ UNCHANGED <<setup, live, rewrite, booted, faults, crashes, sent, history>>

(* deliver with skipQueue: no mark is written.                               *)
SendAgain(s, d) ==
    /\ Is(s, "send", d)
    /\ Sends(d, To(s, "returned", d), To(s, "returned", d), To(s, "threw", d))
    /\ UNCHANGED <<setup, disk, live, rewrite, booted, crashes, arrived, aborted, raced>>

(* The entry is acked; a send (or an ack) that throws is counted, a          *)
(* permanent error ends the entry.                                           *)
Settle(s, d) ==
    /\ \/ Is(s, "returned", d) /\ NoFault /\ disk' = ackDelivery(d)
       \/ Is(s, "returned", d) /\ Fault /\ disk' = failDelivery(d)
       \/ Is(s, "threw", d) /\ NoFault /\ disk' \in {failDelivery(d), moveToFailed(d)}
    /\ Next1(s, d)
    /\ UNCHANGED <<setup, live, rewrite, booted, crashes, sent, history>>

(* The time budget of the start-up recovery is used up: failDelivery is      *)
(* called for all that is left, claimed or not, at once.                     *)
BudgetExceeded ==
    /\ scan["startup"].pc = "next" /\ scan["startup"].todo # {}
    /\ rewrite' = [rewrite EXCEPT !["budget"] =
                       [d \in Deliveries |-> IF d \in scan["startup"].todo /\ Queued(d)
                                             THEN disk[d] ELSE NoFile]]
    /\ scan' = [scan EXCEPT !["startup"] = NoScan]
    /\ UNCHANGED <<setup, disk, claims, live, booted, faults, crashes, sent, history>>

(* failDelivery writes what it read, whatever became of the file since.      *)
Rewrites(w, d) ==
    /\ rewrite[w][d] # NoFile
    /\ disk' = [disk EXCEPT ![d] = FailedOnce(rewrite[w][d])]
    /\ rewrite' = [rewrite EXCEPT ![w][d] = NoFile]
    /\ raced' = IF disk[d] # rewrite[w][d] THEN raced \union {d} ELSE raced
    /\ UNCHANGED <<setup, claims, live, scan, booted, faults, crashes, sent, arrived, aborted,
                   withheld>>

(* The process dies; a delivery that was under way has only its file.        *)
Crash ==
    /\ crashes < MaxCrashes
    /\ crashes' = crashes + 1
    /\ claims' = {}
    /\ live' = [d \in Deliveries |-> IF live[d] = "bare" THEN "refused"
                                     ELSE IF live[d] \in {"new", "refused"} THEN live[d]
                                     ELSE "done"]
    /\ scan' = [s \in Scans |-> NoScan]
    /\ rewrite' = NoRewrite
    /\ booted' = FALSE
    /\ UNCHANGED <<setup, disk, faults, sent, history>>

Handle(s) == \E d \in Deliveries : Reconcile(s, d) \/ SendAgain(s, d) \/ Settle(s, d)

Next ==
    \/ \E d \in Deliveries : Enqueue(d) \/ LiveStep(d) \/ Abort(d)
    \/ \E w \in Writers, d \in Deliveries : Rewrites(w, d)
    \/ \E s \in Scans : Load(s) \/ LoadEnds(s) \/ Handle(s)
    \/ \E s \in Scans, d \in Deliveries : Skip(s, d) \/ Exhausted(s, d) \/ Take(s, d)
    \/ BudgetExceeded \/ Crash

Spec == Init /\ [][Next]_vars

(***************************************************************************)
(* Calls return.  The monitors of WhatsApp (every 30 s) and of Telegram     *)
(* (after every poll that succeeded) repeat the drain of their account, and *)
(* the backoff of an entry passes: a drain that meets an entry again and    *)
(* again takes it at some time.  Nobody repeats the recovery of the start,  *)
(* and nobody owes a restart.                                               *)
(***************************************************************************)
FairSpec ==
    /\ Spec
    /\ \A d \in Deliveries : WF_vars(LiveStep(d))
    /\ \A w \in Writers, d \in Deliveries : WF_vars(Rewrites(w, d))
    /\ \A s \in Scans : WF_vars(Load(s)) /\ WF_vars(LoadEnds(s)) /\ WF_vars(Handle(s))
    /\ \A s \in Scans, d \in Deliveries : WF_vars(Skip(s, d))
    /\ \A d \in Drained : SF_vars(Take("drain", d) \/ Exhausted("drain", d))

----------------------------------------------------------------------------
File == [at : {"none", "queue", "acked", "failed"}, retry : 0 .. MaxRetries + MaxCrashes + 2,
         mark : {"none", "started", "unknown"}, tried : BOOLEAN]
LivePc == {"new", "queued", "claimed", "marked", "unmarked", "bare", "returned", "unknown",
           "leaves", "threw", "noticing", "noticed", "retrying", "refused", "done"}
ScanPc == {"idle", "next", "send", "reconcile", "returned", "threw"}

TypeOK ==
    /\ required \subseteq Deliveries /\ reconciles \in BOOLEAN
    /\ disk \in [Deliveries -> File]
    /\ claims \subseteq Deliveries
    /\ live \in [Deliveries -> LivePc]
    /\ scan \in [Scans -> [pc : ScanPc, todo : SUBSET Deliveries, on : SUBSET Deliveries]]
    /\ rewrite \in [Writers -> [Deliveries -> File]]
    /\ booted \in BOOLEAN
    /\ faults \in 0 .. MaxFaults /\ crashes \in 0 .. MaxCrashes
    /\ sent \in [Deliveries -> Nat]
    /\ {arrived, aborted, withheld, raced} \subseteq SUBSET Deliveries

(***************************************************************************)
(* "Hold the same in-process claim used by recovery/drain while the live    *)
(* send owns this queue entry" (deliver.ts): two of the live send and the   *)
(* scans never work on one entry, and who does holds its claim.             *)
(***************************************************************************)
HasClaim(d) == live[d] \in {"claimed", "marked", "unmarked", "returned", "unknown", "leaves", "threw"}
ScansAt(d) == {s \in Scans : d \in scan[s].on}
OneOwner ==
    \A d \in Deliveries :
        /\ \A s, t \in ScansAt(d) : s = t
        /\ ~(HasClaim(d) /\ ScansAt(d) # {})
        /\ HasClaim(d) \/ ScansAt(d) # {} => d \in claims

(***************************************************************************)
(* The queue's promise: a message it accepted was sent, or its file is      *)
(* still there, in the queue or in failed/, through every crash, failed     *)
(* send and scan; what takes the file of a message not sent is an abort, or *)
(* a send that came back without an error with nothing to show for it.      *)
(***************************************************************************)
NothingLost ==
    \A d \in Deliveries :
        \/ sent[d] > 0 \/ disk[d].at \in {"queue", "failed"}
        \/ d \in aborted \union withheld
        \/ live[d] \in {"new", "bare", "refused"}

(***************************************************************************)
(* "replay only after the adapter proves the original send did not happen"  *)
(* (docs/plugins/sdk-channel-message.md): a message that arrived by a live  *)
(* send which had written its mark is not sent again, by either scan, after *)
(* crashes and failures; excepted where an unclaimed failDelivery wrote     *)
(* back a file that had changed.                                            *)
(***************************************************************************)
NoBlindReplay ==
    [][\A d \in Deliveries : d \in arrived \ raced => sent'[d] = sent[d]]_vars

(***************************************************************************)
(* No entry of an account whose monitor drains stays in the queue for ever: *)
(* it is delivered, or it ends in failed/ after MaxRetries, also when every *)
(* answer is "unresolved".                                                  *)
(***************************************************************************)
QueueEmpties == <>[](\A d \in Drained : ~Queued(d))
=============================================================================
