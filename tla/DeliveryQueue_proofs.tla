------------------------ MODULE DeliveryQueue_proofs ------------------------
(***************************************************************************)
(* Proofs about the outbound delivery queue, for every set of deliveries    *)
(* and notices and every number of retries, faults and crashes.             *)
(***************************************************************************)
EXTENDS DeliveryQueue, TLAPS

(* The types, with no bound on the retries. *)
AnyFile == [at : {"none", "queue", "acked", "failed"}, retry : Nat,
            mark : {"none", "started", "unknown"}, tried : BOOLEAN]
Types ==
    /\ disk \in [Deliveries -> AnyFile]
    /\ claims \subseteq Deliveries
    /\ live \in [Deliveries -> LivePc]
    /\ scan \in [Scans -> [pc : ScanPc, todo : SUBSET Deliveries, on : SUBSET Deliveries]]
    /\ rewrite \in [Writers -> [Deliveries -> AnyFile]]
    /\ sent \in [Deliveries -> Nat]
    /\ {arrived, aborted, withheld, raced} \subseteq SUBSET Deliveries

(* Who works on an entry holds its claim, alone. *)
Owners ==
    /\ \A d \in Deliveries : HasClaim(d) => d \in claims
    /\ \A s \in Scans : scan[s].on \subseteq claims
    /\ \A s \in Scans, d \in Deliveries : HasClaim(d) => d \notin scan[s].on
    /\ \A s, t \in Scans : s # t => scan[s].on \cap scan[t].on = {}
    /\ \A s \in Scans : scan[s].pc \in {"idle", "next"} => scan[s].on = {}

(* A step that acks an entry knows that a send of the message came back.     *)
Back(d) == sent[d] > 0 \/ d \in withheld
Results ==
    /\ \A d \in Deliveries : live[d] \in {"returned", "unknown", "leaves"} => Back(d)
    /\ \A d \in Deliveries : live[d] = "noticed" => sent[d] > 0
    /\ \A s \in Scans, d \in Deliveries : Is(s, "returned", d) => Back(d)
    /\ \A w \in Writers, d \in Deliveries :
           rewrite[w][d] # NoFile => rewrite[w][d].at = "queue"

(* The mark of a live send that arrived stays in the file, and no step that  *)
(* would send the message again is under way.                                *)
Held(d) == d \notin raced
Marks ==
    /\ \A d \in Deliveries : (live[d] = "marked" /\ Held(d)) =>
           disk[d].at = "queue" /\ disk[d].mark # "none"
    /\ \A d \in arrived : sent[d] > 0 /\ live[d] \in {"returned", "unknown", "leaves", "threw", "done"}
    /\ \A d \in arrived : Held(d) => disk[d].at # "queue" \/ disk[d].mark # "none"
    /\ \A d \in arrived, s \in Scans : Held(d) => ~Is(s, "send", d)

IInv == Types /\ Owners /\ Results /\ NothingLost /\ Marks

----------------------------------------------------------------------------
(* What an operation on a file leaves. *)
LEMMA WrittenFile ==
    ASSUME Types, NEW d \in Deliveries, NEW file \in AnyFile, disk' = Written(d, file)
    PROVE  /\ disk' \in [Deliveries -> AnyFile]
           /\ \A e \in Deliveries : e # d => disk'[e] = disk[e]
           /\ disk[d].at = "queue" => disk'[d] = file
           /\ disk[d].at # "queue" => disk'[d] = disk[d]
BY DEF Types, Written, Queued

LEMMA FileTypes ==
    ASSUME NEW f \in AnyFile
    PROVE  /\ \A a \in {"queue", "acked", "failed"} :
                /\ [f EXCEPT !.at = a] \in AnyFile
                /\ [f EXCEPT !.at = a].at = a /\ [f EXCEPT !.at = a].mark = f.mark
           /\ \A m \in {"started", "unknown"} :
                /\ [f EXCEPT !.mark = m] \in AnyFile
                /\ [f EXCEPT !.mark = m].at = f.at /\ [f EXCEPT !.mark = m].mark = m
           /\ FailedOnce(f) \in AnyFile
           /\ FailedOnce(f).at = f.at /\ FailedOnce(f).mark = f.mark
<1>1. \A a \in {"queue", "acked", "failed"} :
         /\ [f EXCEPT !.at = a] \in AnyFile
         /\ [f EXCEPT !.at = a].at = a /\ [f EXCEPT !.at = a].mark = f.mark
  BY DEF AnyFile
<1>2. \A m \in {"started", "unknown"} :
         /\ [f EXCEPT !.mark = m] \in AnyFile
         /\ [f EXCEPT !.mark = m].at = f.at /\ [f EXCEPT !.mark = m].mark = m
  BY DEF AnyFile
<1>3. /\ FailedOnce(f) \in AnyFile
      /\ FailedOnce(f).at = f.at /\ FailedOnce(f).mark = f.mark
  <2> DEFINE g == [f EXCEPT !.retry = @ + 1]
  <2>1. g \in AnyFile /\ g.at = f.at /\ g.mark = f.mark
    BY DEF AnyFile
  <2>2. FailedOnce(f) = [g EXCEPT !.tried = TRUE]
    BY DEF FailedOnce, AnyFile
  <2> HIDE DEF g
  <2> QED
    BY <2>1, <2>2 DEF AnyFile
<1> QED
  BY <1>1, <1>2, <1>3

LEMMA Empty == /\ NoFile \in AnyFile
               /\ NoRewrite \in [Writers -> [Deliveries -> AnyFile]]
               /\ NoScan \in [pc : ScanPc, todo : SUBSET Deliveries, on : SUBSET Deliveries]
BY DEF NoFile, AnyFile, NoRewrite, NoScan, ScanPc

(* The four operations, by what they leave in the fields that matter. *)
Same(d) == \A e \in Deliveries : e # d => disk'[e] = disk[e]
LEMMA Operations ==
    ASSUME Types, NEW d \in Deliveries
    PROVE  /\ disk' = ackDelivery(d) =>
                /\ disk' \in [Deliveries -> AnyFile] /\ Same(d)
                /\ disk'[d].at = IF disk[d].at = "queue" THEN "acked" ELSE disk[d].at
                /\ disk'[d].mark = disk[d].mark
           /\ disk' = moveToFailed(d) =>
                /\ disk' \in [Deliveries -> AnyFile] /\ Same(d)
                /\ disk'[d].at = IF disk[d].at = "queue" THEN "failed" ELSE disk[d].at
                /\ disk'[d].mark = disk[d].mark
           /\ disk' = failDelivery(d) =>
                /\ disk' \in [Deliveries -> AnyFile] /\ Same(d)
                /\ disk'[d].at = disk[d].at /\ disk'[d].mark = disk[d].mark
           /\ \A m \in {"started", "unknown"} : disk' = markDelivery(d, m) =>
                /\ disk' \in [Deliveries -> AnyFile] /\ Same(d)
                /\ disk'[d].at = disk[d].at
                /\ disk[d].at = "queue" => disk'[d].mark = m
                /\ disk[d].at # "queue" => disk'[d].mark = disk[d].mark
<1>0. disk[d] \in AnyFile
  BY DEF Types
<1>1. ASSUME NEW a \in {"acked", "failed"},
             disk' = Written(d, [disk[d] EXCEPT !.at = a])
      PROVE  /\ disk' \in [Deliveries -> AnyFile] /\ Same(d)
             /\ disk'[d].at = IF disk[d].at = "queue" THEN a ELSE disk[d].at
             /\ disk'[d].mark = disk[d].mark
  <2> DEFINE file == [disk[d] EXCEPT !.at = a]
  <2>0. \A b \in {"queue", "acked", "failed"} :
           /\ [disk[d] EXCEPT !.at = b] \in AnyFile
           /\ [disk[d] EXCEPT !.at = b].at = b
           /\ [disk[d] EXCEPT !.at = b].mark = disk[d].mark
    BY <1>0, FileTypes
  <2>1. file \in AnyFile /\ file.at = a /\ file.mark = disk[d].mark
    BY <2>0
  <2>2. disk' = Written(d, file)
    BY <1>1
  <2> HIDE DEF file
  <2> QED
    BY <2>1, <2>2, WrittenFile DEF Same
<1>2. ASSUME disk' = failDelivery(d)
      PROVE  /\ disk' \in [Deliveries -> AnyFile] /\ Same(d)
             /\ disk'[d].at = disk[d].at /\ disk'[d].mark = disk[d].mark
  <2> DEFINE file == FailedOnce(disk[d])
  <2>1. file \in AnyFile /\ file.at = disk[d].at /\ file.mark = disk[d].mark
    BY <1>0, FileTypes
  <2>2. disk' = Written(d, file)
    BY <1>2 DEF failDelivery
  <2> HIDE DEF file
  <2> QED
    BY <2>1, <2>2, WrittenFile DEF Same
<1>3. ASSUME NEW m \in {"started", "unknown"}, disk' = markDelivery(d, m)
      PROVE  /\ disk' \in [Deliveries -> AnyFile] /\ Same(d)
             /\ disk'[d].at = disk[d].at
             /\ disk[d].at = "queue" => disk'[d].mark = m
             /\ disk[d].at # "queue" => disk'[d].mark = disk[d].mark
  <2> DEFINE file == [disk[d] EXCEPT !.mark = m]
  <2>1. file \in AnyFile /\ file.at = disk[d].at /\ file.mark = m
    BY <1>0, FileTypes
  <2>2. disk' = Written(d, file)
    BY <1>3 DEF markDelivery
  <2> HIDE DEF file
  <2> QED
    BY <2>1, <2>2, WrittenFile DEF Same
<1> QED
  BY <1>1, <1>2, <1>3 DEF ackDelivery, moveToFailed

(* A step on an entry that no live send holds keeps the marks, if it begins  *)
(* no send.                                                                  *)
LEMMA MarksStay ==
    ASSUME Marks, arrived \subseteq Deliveries, UNCHANGED <<live, arrived, raced>>,
           \A e \in Deliveries : sent[e] > 0 => sent'[e] > 0,
           \A e \in Deliveries : live[e] = "marked" => disk'[e].at = disk[e].at,
           \A e \in Deliveries : disk'[e].at = "queue" => disk[e].at = "queue",
           \A e \in Deliveries : disk'[e].mark = disk[e].mark,
           \A s \in Scans, e \in Deliveries : Is(s, "send", e)' => Is(s, "send", e)
    PROVE  Marks'
<1>1. \A e \in Deliveries : (live[e] = "marked" /\ Held(e)) =>
          disk'[e].at = "queue" /\ disk'[e].mark # "none"
  BY DEF Marks, Held
<1>2. \A e \in arrived : sent'[e] > 0 /\ live[e] \in {"returned", "unknown", "leaves", "threw", "done"}
  BY DEF Marks
<1>3. \A e \in arrived : Held(e) => disk'[e].at # "queue" \/ disk'[e].mark # "none"
  BY DEF Marks, Held
<1>4. \A e \in arrived, s \in Scans : Held(e) => ~Is(s, "send", e)'
  BY DEF Marks
<1> QED
  BY <1>1, <1>2, <1>3, <1>4 DEF Marks, Held

(* A step of a live send that is not about to call the platform afterwards.  *)
LEMMA MarksOfLive ==
    ASSUME Marks, arrived \subseteq Deliveries, NEW d \in Deliveries,
           UNCHANGED <<scan, sent, arrived, raced>>,
           \A e \in Deliveries \ {d} : live'[e] = live[e] /\ disk'[e] = disk[e],
           live'[d] # "marked",
           d \in arrived => /\ live'[d] \in {"returned", "unknown", "leaves", "threw", "done"}
                            /\ Held(d) => disk'[d].at # "queue" \/ disk'[d].mark # "none"
    PROVE  Marks'
<1>1. \A e \in Deliveries : (live'[e] = "marked" /\ Held(e)) =>
          disk'[e].at = "queue" /\ disk'[e].mark # "none"
  BY DEF Marks, Held
<1>2. \A e \in arrived : sent[e] > 0 /\ live'[e] \in {"returned", "unknown", "leaves", "threw", "done"}
  BY DEF Marks
<1>3. \A e \in arrived : Held(e) => disk'[e].at # "queue" \/ disk'[e].mark # "none"
  BY DEF Marks, Held
<1>4. \A e \in arrived, s \in Scans : Held(e) => ~Is(s, "send", e)'
  BY DEF Marks, Is
<1> QED
  BY <1>1, <1>2, <1>3, <1>4 DEF Marks, Held

----------------------------------------------------------------------------
(* One lemma per action: it preserves the inductive invariant.               *)
LEMMA EnqueueKeeps ==
    ASSUME IInv, NEW d \in Deliveries, Enqueue(d)
    PROVE  IInv'
<1>0. ASSUME disk' = [disk EXCEPT ![d].at = "queue"]
      PROVE  /\ disk' \in [Deliveries -> AnyFile] /\ disk'[d].at = "queue"
             /\ \A e \in Deliveries : e # d => disk'[e] = disk[e]
  <2> DEFINE file == [disk[d] EXCEPT !.at = "queue"]
  <2>1. file \in AnyFile /\ file.at = "queue"
    BY FileTypes DEF IInv, Types
  <2>2. disk' = [disk EXCEPT ![d] = file]
    BY <1>0
  <2> HIDE DEF file
  <2> QED
    BY <2>1, <2>2 DEF IInv, Types
<1>1. Types'
  BY <1>0 DEF IInv, Types, LivePc, Enqueue, At, history
<1>2. Owners'
  BY DEF IInv, Types, Owners, HasClaim, Scans, Enqueue, At, history
<1>3. Results'
  BY <1>1 DEF IInv, Types, Results, Back, Owners, HasClaim, Is, Scans, Enqueue, At, history
<1>4. NothingLost'
  BY <1>0, <1>1 DEF IInv, Types, NothingLost, Back, Enqueue, At, history
<1>5. Marks'
  <2>1. d \notin arrived /\ arrived \subseteq Deliveries /\ Marks
    BY DEF IInv, Types, Marks, Enqueue
  <2>2. /\ UNCHANGED <<scan, sent, arrived, raced>> /\ live'[d] # "marked"
        /\ \A e \in Deliveries \ {d} : live'[e] = live[e] /\ disk'[e] = disk[e]
    BY <1>0 DEF IInv, Types, Enqueue, At, history
  <2> QED
    BY <2>1, <2>2, MarksOfLive
<1> QED
  BY <1>1, <1>2, <1>3, <1>4, <1>5 DEF IInv

LEMMA ClaimKeeps ==
    ASSUME IInv, NEW d \in Deliveries, Claim(d)
    PROVE  IInv'
<1>1. Types'
  BY DEF IInv, Types, LivePc, ScanPc, Scans, Claim, At, history
<1>2. Owners'
  BY DEF IInv, Types, Owners, HasClaim, Scans, Claim, At, history
<1>3. Results'
  BY <1>1 DEF IInv, Types, Results, Back, Owners, HasClaim, Is, Scans, Claim, At, history
<1>4. NothingLost'
  BY <1>1 DEF IInv, Types, Results, NothingLost, Back, Is, Claim, At, history
<1>5. Marks'
  BY <1>1 DEF IInv, Types, Marks, Owners, Results, HasClaim, Held, Is, Scans, Claim, At,
     history
<1> QED
  BY <1>1, <1>2, <1>3, <1>4, <1>5 DEF IInv

LEMMA NoticeStartsKeeps ==
    ASSUME IInv, NEW d \in Deliveries, NoticeStarts(d)
    PROVE  IInv'
<1>1. Types'
  BY DEF IInv, Types, LivePc, ScanPc, Scans, NoticeStarts, At, history
<1>2. Owners'
  BY DEF IInv, Types, Owners, HasClaim, Scans, NoticeStarts, At, history
<1>3. Results'
  BY <1>1 DEF IInv, Types, Results, Back, Owners, HasClaim, Is, Scans, NoticeStarts, At, history
<1>4. NothingLost'
  BY <1>1 DEF IInv, Types, Results, NothingLost, Back, Is, NoticeStarts, At, history
<1>5. Marks'
  BY <1>1 DEF IInv, Types, Marks, Owners, Results, HasClaim, Held, Is, Scans,
     NoticeStarts, At, history
<1> QED
  BY <1>1, <1>2, <1>3, <1>4, <1>5 DEF IInv

LEMMA StartKeeps ==
    ASSUME IInv, NEW d \in Deliveries, Start(d)
    PROVE  IInv'
<1>1. Types'
  BY Operations DEF IInv, Types, LivePc, ScanPc, Scans, Start, At, Queued, history
<1>2. Owners'
  BY DEF IInv, Types, Owners, HasClaim, Scans, Start, At, Queued, history
<1>3. Results'
  BY <1>1, Operations DEF IInv, Types, Results, Back, Owners, HasClaim, Is, Scans, Start, At,
     Queued, history
<1>4. NothingLost'
  BY <1>1, Operations DEF IInv, Types, Results, NothingLost, Back, Is, Start, At, Queued,
     history, Same
<1>5. Marks'
  BY <1>1, Operations DEF IInv, Types, Marks, Owners, Results, HasClaim, Held, Is, Scans,
     Start, At, Queued, history, Same
<1> QED
  BY <1>1, <1>2, <1>3, <1>4, <1>5 DEF IInv

LEMMA LiveSendsKeeps ==
    ASSUME IInv, NEW d \in Deliveries, LiveSends(d)
    PROVE  IInv'
<1>1. Types'
  BY DEF IInv, Types, LivePc, ScanPc, Scans, LiveSends, At, Sends, history
<1>2. Owners'
  BY DEF IInv, Types, Owners, HasClaim, Scans, LiveSends, At, Sends, history
<1>3. Results'
  BY <1>1 DEF IInv, Types, Results, Back, Owners, HasClaim, Is, Scans, LiveSends, At, Sends,
     history
<1>4. NothingLost'
  BY <1>1 DEF IInv, Types, Results, NothingLost, Back, Is, LiveSends, At, Sends, history
<1>5. Marks'
  BY <1>1 DEF IInv, Types, Marks, Owners, Results, HasClaim, Held, Is, Scans, LiveSends,
     At, Sends, history
<1> QED
  BY <1>1, <1>2, <1>3, <1>4, <1>5 DEF IInv

LEMMA SuppressKeeps ==
    ASSUME IInv, NEW d \in Deliveries, Suppress(d)
    PROVE  IInv'
<1>1. Types'
  BY DEF IInv, Types, LivePc, ScanPc, Scans, Suppress, At
<1>2. Owners'
  BY DEF IInv, Types, Owners, HasClaim, Scans, Suppress, At
<1>3. Results'
  BY <1>1 DEF IInv, Types, Results, Back, Owners, HasClaim, Is, Scans, Suppress, At
<1>4. NothingLost'
  BY <1>1 DEF IInv, Types, Results, NothingLost, Back, Is, Suppress, At
<1>5. Marks'
  BY <1>1 DEF IInv, Types, Marks, Owners, Results, HasClaim, Held, Is, Scans, Suppress, At
<1> QED
  BY <1>1, <1>2, <1>3, <1>4, <1>5 DEF IInv

LEMMA OutcomeUnknownKeeps ==
    ASSUME IInv, NEW d \in Deliveries, OutcomeUnknown(d)
    PROVE  IInv'
<1>1. Types'
  BY Operations DEF IInv, Types, LivePc, ScanPc, Scans, OutcomeUnknown, At, history
<1>2. Owners'
  BY DEF IInv, Types, Owners, HasClaim, Scans, OutcomeUnknown, At, history
<1>3. Results'
  BY <1>1, Operations DEF IInv, Types, Results, Back, Owners, HasClaim, Is, Scans,
     OutcomeUnknown, At, history
<1>4. NothingLost'
  BY <1>1, Operations DEF IInv, Types, Results, NothingLost, Back, Is, OutcomeUnknown, At,
     history, Same
<1>5. Marks'
  <2>1. arrived \subseteq Deliveries /\ Marks
    BY DEF IInv, Types
  <2>2. /\ UNCHANGED <<scan, sent, arrived, raced>>
        /\ live'[d] \in {"unknown", "leaves", "done"}
        /\ \A e \in Deliveries \ {d} : live'[e] = live[e] /\ disk'[e] = disk[e]
    BY Operations DEF IInv, Types, OutcomeUnknown, At, history, Same
  <2>3. d \in arrived /\ Held(d) => disk'[d].at # "queue" \/ disk'[d].mark # "none"
    BY Operations DEF IInv, Marks, OutcomeUnknown
  <2> QED
    BY <2>1, <2>2, <2>3, MarksOfLive
<1> QED
  BY <1>1, <1>2, <1>3, <1>4, <1>5 DEF IInv

LEMMA LiveEndsKeeps ==
    ASSUME IInv, NEW d \in Deliveries, LiveEnds(d)
    PROVE  IInv'
<1>1. Types'
  BY Operations DEF IInv, Types, LivePc, ScanPc, Scans, LiveEnds, At, history
<1>2. Owners'
  BY DEF IInv, Types, Owners, HasClaim, Scans, LiveEnds, At, history
<1>3. Results'
  BY <1>1, Operations DEF IInv, Types, Results, Back, Owners, HasClaim, Is, Scans, LiveEnds,
     At, history
<1>4. NothingLost'
  BY <1>1, Operations DEF IInv, Types, Results, NothingLost, Back, Is, LiveEnds, At, history, Same
<1>5. Marks'
  BY <1>1, Operations DEF IInv, Types, Marks, Owners, Results, HasClaim, Held, Is, Scans,
     LiveEnds, At, history, Same
<1> QED
  BY <1>1, <1>2, <1>3, <1>4, <1>5 DEF IInv

LEMMA AbortKeeps ==
    ASSUME IInv, NEW d \in Deliveries, Abort(d)
    PROVE  IInv'
<1>1. Types'
  BY Operations DEF IInv, Types, LivePc, ScanPc, Scans, Abort, At, history
<1>2. Owners'
  BY DEF IInv, Types, Owners, HasClaim, Scans, Abort, At, history
<1>3. Results'
  BY <1>1, Operations DEF IInv, Types, Results, Back, Owners, HasClaim, Is, Scans, Abort, At,
     history
<1>4. NothingLost'
  BY <1>1, Operations DEF IInv, Types, Results, NothingLost, Back, Is, Abort, At, history, Same
<1>5. Marks'
  <2>1. arrived \subseteq Deliveries /\ Marks
    BY DEF IInv, Types
  <2>2. /\ UNCHANGED <<scan, sent, arrived, raced>>
        /\ live'[d] \in {"unknown", "leaves", "done"}
        /\ \A e \in Deliveries \ {d} : live'[e] = live[e] /\ disk'[e] = disk[e]
    BY Operations DEF IInv, Types, Abort, At, history, Same
  <2>3. d \in arrived /\ Held(d) => disk'[d].at # "queue" \/ disk'[d].mark # "none"
    BY Operations DEF IInv, Marks, Abort
  <2> QED
    BY <2>1, <2>2, <2>3, MarksOfLive
<1> QED
  BY <1>1, <1>2, <1>3, <1>4, <1>5 DEF IInv

LEMMA NoticeEndsKeeps ==
    ASSUME IInv, NEW d \in Deliveries, NoticeEnds(d)
    PROVE  IInv'
<1>1. Types'
  BY Operations DEF IInv, Types, LivePc, ScanPc, Scans, NoticeEnds, At, history
<1>2. Owners'
  BY DEF IInv, Types, Owners, HasClaim, Scans, NoticeEnds, At, history
<1>3. Results'
  BY <1>1, Operations DEF IInv, Types, Results, Back, Owners, HasClaim, Is, Scans, NoticeEnds,
     At, history
<1>4. NothingLost'
  BY <1>1, Operations DEF IInv, Types, Results, NothingLost, Back, Is, NoticeEnds, At, history,
     Same
<1>5. Marks'
  BY <1>1, Operations DEF IInv, Types, Marks, Owners, Results, HasClaim, Held, Is, Scans,
     NoticeEnds, At, history, Same
<1> QED
  BY <1>1, <1>2, <1>3, <1>4, <1>5 DEF IInv

LEMMA NoticeFailsKeeps ==
    ASSUME IInv, NEW d \in Deliveries, NoticeFails(d)
    PROVE  IInv'
<1>0. /\ rewrite' \in [Writers -> [Deliveries -> AnyFile]]
      /\ \A w \in Writers, e \in Deliveries :
             rewrite'[w][e] = rewrite[w][e] \/ (rewrite'[w][e] = disk[e] /\ Queued(e))
  BY DEF IInv, Types, NoticeFails, Writers
<1>1. Types'
  BY <1>0 DEF IInv, Types, LivePc, NoticeFails, At, history
<1>2. Owners'
  BY DEF IInv, Types, Owners, HasClaim, Scans, NoticeFails, At, history
<1>3. Results'
  <2>1. \A w \in Writers, e \in Deliveries :
           rewrite'[w][e] # NoFile => rewrite'[w][e].at = "queue"
    BY <1>0 DEF IInv, Results, Queued
  <2>2. UNCHANGED <<sent, withheld, scan>> /\ \A e \in Deliveries : live'[e] \in {live[e], "done"}
    BY DEF IInv, Types, NoticeFails, At, history
  <2> QED
    BY <2>1, <2>2 DEF IInv, Results, Back, Is
<1>4. NothingLost'
  BY <1>1 DEF IInv, Types, Results, NothingLost, Back, Is, NoticeFails, At, history
<1>5. Marks'
  BY <1>1 DEF IInv, Types, Marks, Owners, Results, HasClaim, Held, Is, Scans,
     NoticeFails, At, history
<1> QED
  BY <1>1, <1>2, <1>3, <1>4, <1>5 DEF IInv

LEMMA LoadKeeps ==
    ASSUME IInv, NEW s \in Scans, Load(s)
    PROVE  IInv'
<1>0. Selects(s) \subseteq Deliveries
  BY DeliveryAssumption DEF Selects
<1>1. Types'
  BY <1>0 DEF IInv, Types, LivePc, ScanPc, Scans, Load, NoScan, Queued, history
<1>2. Owners'
  BY DEF IInv, Types, Owners, HasClaim, Scans, Load, NoScan, Queued, history
<1>3. Results'
  BY <1>1 DEF IInv, Types, Results, Back, Owners, HasClaim, Is, Scans, Load, NoScan, Queued,
     history
<1>4. NothingLost'
  BY <1>1 DEF IInv, Types, Results, NothingLost, Back, Is, Load, NoScan, Queued, history
<1>5. Marks'
  <2>1. UNCHANGED <<disk, live, sent, history>>
    BY DEF Load
  <2>2. \A t \in Scans, d \in Deliveries : ~Is(t, "send", d) => ~Is(t, "send", d)'
    BY DEF IInv, Types, Is, Load, NoScan
  <2>3. Marks /\ arrived \subseteq Deliveries
    BY DEF IInv, Types
  <2> QED
    BY <2>1, <2>2, <2>3 DEF Marks, Held, history
<1> QED
  BY <1>1, <1>2, <1>3, <1>4, <1>5 DEF IInv

LEMMA LoadEndsKeeps ==
    ASSUME IInv, NEW s \in Scans, LoadEnds(s)
    PROVE  IInv'
<1>1. Types'
  BY DEF IInv, Types, LivePc, ScanPc, Scans, LoadEnds, NoScan, history
<1>2. Owners'
  BY DEF IInv, Types, Owners, HasClaim, Scans, LoadEnds, NoScan, history
<1>3. Results'
  BY <1>1 DEF IInv, Types, Results, Back, Owners, HasClaim, Is, Scans, LoadEnds, NoScan, history
<1>4. NothingLost'
  BY <1>1 DEF IInv, Types, Results, NothingLost, Back, Is, LoadEnds, NoScan, history
<1>5. Marks'
  BY <1>1 DEF IInv, Types, Marks, Owners, Results, HasClaim, Held, Is, Scans, LoadEnds,
     NoScan, history
<1> QED
  BY <1>1, <1>2, <1>3, <1>4, <1>5 DEF IInv

LEMMA SkipKeeps ==
    ASSUME IInv, NEW s \in Scans, NEW d \in Deliveries, Skip(s, d)
    PROVE  IInv'
<1>1. Types'
  BY DEF IInv, Types, LivePc, ScanPc, Scans, Skip, history
<1>2. Owners'
  BY DEF IInv, Types, Owners, HasClaim, Scans, Skip, history
<1>3. Results'
  BY <1>1 DEF IInv, Types, Results, Back, Owners, HasClaim, Is, Scans, Skip, history
<1>4. NothingLost'
  BY <1>1 DEF IInv, Types, Results, NothingLost, Back, Is, Skip, history
<1>5. Marks'
  BY <1>1 DEF IInv, Types, Marks, Owners, Results, HasClaim, Held, Is, Scans, Skip, history
<1> QED
  BY <1>1, <1>2, <1>3, <1>4, <1>5 DEF IInv

LEMMA ExhaustedKeeps ==
    ASSUME IInv, NEW s \in Scans, NEW d \in Deliveries, Exhausted(s, d)
    PROVE  IInv'
<1>0. /\ disk' \in [Deliveries -> AnyFile] /\ Same(d)
      /\ disk[d].at = "queue" /\ disk'[d].at = "failed" /\ disk'[d].mark = disk[d].mark
  BY Operations DEF IInv, Exhausted, Queued
<1>a. /\ UNCHANGED <<claims, live, rewrite, sent, arrived, aborted, withheld, raced>>
      /\ scan' = [scan EXCEPT ![s].todo = @ \ {d}]
  BY DEF Exhausted, history
<1>1. Types'
  <2>1. scan' \in [Scans -> [pc : ScanPc, todo : SUBSET Deliveries, on : SUBSET Deliveries]]
    BY <1>a DEF IInv, Types
  <2> QED
    BY <1>0, <1>a, <2>1 DEF IInv, Types
<1>2. Owners'
  BY <1>a DEF IInv, Types, Owners, HasClaim
<1>3. Results'
  BY <1>a DEF IInv, Types, Results, Back, Is
<1>4. NothingLost'
  BY <1>0, <1>a DEF IInv, NothingLost, Same
<1>5. Marks'
  <2>1. live[d] # "marked"
    BY DEF IInv, Owners, HasClaim, Exhausted
  <2>2. \A t \in Scans, e \in Deliveries : Is(t, "send", e)' => Is(t, "send", e)
    BY <1>a DEF IInv, Types, Is
  <2>3. arrived \subseteq Deliveries /\ Marks
    BY DEF IInv, Types
  <2> QED
    BY <1>0, <1>a, <2>1, <2>2, <2>3, MarksStay DEF Same
<1> QED
  BY <1>1, <1>2, <1>3, <1>4, <1>5 DEF IInv

LEMMA TakeKeeps ==
    ASSUME IInv, NEW s \in Scans, NEW d \in Deliveries, Take(s, d)
    PROVE  IInv'
<1>1. Types'
  BY DEF IInv, Types, LivePc, ScanPc, Scans, Take, Goto, Doing, Queued, history
<1>2. Owners'
  BY DEF IInv, Types, Owners, HasClaim, Scans, Take, Goto, Doing, Queued, history
<1>3. Results'
  BY <1>1 DEF IInv, Types, Results, Back, Owners, HasClaim, Is, Scans, Take, Goto, Doing,
     Queued, history
<1>4. NothingLost'
  BY <1>1 DEF IInv, Types, Results, NothingLost, Back, Is, Take, Goto, Doing, Queued, history
<1>5. Marks'
  BY <1>1 DEF IInv, Types, Marks, Owners, Results, HasClaim, Held, Is, Scans, Take, Goto,
     Doing, Queued, history
<1> QED
  BY <1>1, <1>2, <1>3, <1>4, <1>5 DEF IInv

LEMMA ReconcileKeeps ==
    ASSUME IInv, NEW s \in Scans, NEW d \in Deliveries, Reconcile(s, d)
    PROVE  IInv'
<1>0. UNCHANGED <<live, rewrite, sent, arrived, aborted, withheld, raced>>
  BY DEF Reconcile, history
<1>a. \/ disk' = disk /\ sent[d] = 0 /\ To(s, "send", d)
      \/ /\ Next1(s, d)
         /\ disk' \in {failDelivery(d), moveToFailed(d)} \/ (sent[d] > 0 /\ disk' = ackDelivery(d))
  BY DEF Reconcile
<1>b. Is(s, "reconcile", d) /\ d \in claims
  BY DEF Reconcile, Is, IInv, Owners
<1>c. /\ disk' \in [Deliveries -> AnyFile] /\ Same(d) /\ disk'[d].mark = disk[d].mark
      /\ disk'[d].at = "queue" => disk[d].at = "queue"
      /\ disk[d].at \in {"queue", "failed"} => disk'[d].at \in {"queue", "failed"} \/ sent[d] > 0
  BY <1>a, Operations DEF IInv, Types, Same
<1>1. Types'
  <2>1. scan' \in [Scans -> [pc : ScanPc, todo : SUBSET Deliveries, on : SUBSET Deliveries]]
    <3> DEFINE r == scan[s]
    <3>1. r \in [pc : ScanPc, todo : SUBSET Deliveries, on : SUBSET Deliveries]
      BY DEF IInv, Types
    <3>2. "send" \in ScanPc /\ "next" \in ScanPc
      BY DEF ScanPc
    <3>3. \/ scan' = [scan EXCEPT ![s] = [r EXCEPT !.pc = "send"]]
          \/ scan' = [scan EXCEPT ![s] = [r EXCEPT !.pc = "next", !.on = {}]]
      BY <1>a DEF Next1, To, IInv, Types
    <3> HIDE DEF r
    <3>4. /\ [r EXCEPT !.pc = "send"] \in [pc : ScanPc, todo : SUBSET Deliveries, on : SUBSET Deliveries]
          /\ [r EXCEPT !.pc = "next", !.on = {}] \in
                 [pc : ScanPc, todo : SUBSET Deliveries, on : SUBSET Deliveries]
      BY <3>1, <3>2
    <3> QED
      BY <3>3, <3>4 DEF IInv, Types
  <2>2. claims' \subseteq Deliveries
    BY <1>a DEF IInv, Types, Next1, To
  <2> QED
    BY <1>0, <1>c, <2>1, <2>2 DEF IInv, Types
<1>2. Owners'
  <2>1. CASE Next1(s, d)
    BY <1>0, <1>b, <2>1 DEF IInv, Types, Owners, HasClaim, Scans, Next1, Is
  <2>2. CASE To(s, "send", d)
    <3>1. /\ claims' = claims /\ scan[s].pc = "reconcile"
          /\ \A t \in Scans : scan'[t].on = scan[t].on
          /\ \A t \in Scans : t # s => scan'[t] = scan[t]
          /\ scan'[s].pc = "send"
      BY <1>b, <2>2 DEF IInv, Types, To, Is
    <3>2. \A t \in Scans : scan'[t].pc \in {"idle", "next"} => scan'[t].on = {}
      BY <3>1 DEF IInv, Owners
    <3> QED
      BY <1>0, <3>1, <3>2 DEF IInv, Owners, HasClaim
  <2> QED
    BY <1>a, <2>1, <2>2
<1>3. Results'
  <2>1. ASSUME NEW t \in Scans, NEW e \in Deliveries, Is(t, "returned", e)'
        PROVE  Is(t, "returned", e)
    <3>1. scan'[s].pc \in {"next", "send"} /\ (t # s => scan'[t] = scan[t])
      BY <1>a DEF IInv, Types, Next1, To
    <3> QED
      BY <2>1, <3>1 DEF Is
  <2> QED
    BY <1>0, <2>1 DEF IInv, Results, Back
<1>4. NothingLost'
  BY <1>0, <1>c DEF IInv, NothingLost, Same
<1>5. Marks'
  <2>1. arrived \subseteq Deliveries /\ Marks /\ live[d] # "marked"
    BY <1>b DEF IInv, Types, Owners, HasClaim, Is
  <2>2. CASE Next1(s, d)
    <3>1. \A t \in Scans, e \in Deliveries : Is(t, "send", e)' => Is(t, "send", e)
      BY <2>2 DEF IInv, Types, Is, Next1
    <3> QED
      BY <1>0, <1>c, <2>1, <3>1, MarksStay DEF Same
  <2>3. CASE disk' = disk /\ sent[d] = 0 /\ To(s, "send", d)
    <3>1. \A t \in Scans, e \in Deliveries : Is(t, "send", e)' => Is(t, "send", e) \/ e = d
      BY <1>b, <2>3 DEF IInv, Types, Is, To
    <3>2. d \notin arrived
      BY <2>1, <2>3 DEF Marks
    <3> QED
      BY <1>0, <2>1, <2>3, <3>1, <3>2 DEF Marks, Held
  <2> QED
    BY <1>a, <2>2, <2>3
<1> QED
  BY <1>1, <1>2, <1>3, <1>4, <1>5 DEF IInv

LEMMA SendAgainKeeps ==
    ASSUME IInv, NEW s \in Scans, NEW d \in Deliveries, SendAgain(s, d)
    PROVE  IInv'
<1>1. Types'
  BY DEF IInv, Types, LivePc, ScanPc, Scans, SendAgain, Sends, To, Is, history
<1>2. Owners'
  BY DEF IInv, Types, Owners, HasClaim, Scans, SendAgain, Sends, To, Is, history
<1>3. Results'
  <2>1. \A e \in Deliveries : Back(e) => Back(e)'
    BY DEF IInv, Types, Back, SendAgain, Sends
  <2>2. \A e \in Deliveries : sent[e] > 0 => sent'[e] > 0
    BY DEF IInv, Types, SendAgain, Sends
  <2>3. \A t \in Scans, e \in Deliveries : Is(t, "returned", e)' => Is(t, "returned", e) \/ Back(e)'
    <3>1. To(s, "threw", d) \/ (To(s, "returned", d) /\ Back(d)')
      BY DEF IInv, Types, Back, SendAgain, Sends
    <3>2. scan[s].on = {d}
      BY DEF SendAgain, Is
    <3>3. CASE To(s, "threw", d)
      BY <3>3 DEF IInv, Types, Is, To
    <3>4. CASE To(s, "returned", d) /\ Back(d)'
      <4>1. ASSUME NEW t \in Scans, NEW e \in Deliveries, Is(t, "returned", e)'
            PROVE  Is(t, "returned", e) \/ e = d
        <5>1. CASE t = s
          <6>1. scan'[s].on = {d}
            BY <3>2, <3>4 DEF IInv, Types, To
          <6> QED
            BY <4>1, <5>1, <6>1 DEF Is
        <5>2. CASE t # s
          <6>1. scan'[t] = scan[t]
            BY <3>4, <5>2 DEF IInv, Types, To
          <6> QED
            BY <4>1, <6>1 DEF Is
        <5> QED
          BY <5>1, <5>2
      <4> QED
        BY <3>4, <4>1
    <3> QED
      BY <3>1, <3>3, <3>4
  <2>4. UNCHANGED <<live, rewrite>>
    BY DEF SendAgain
  <2> QED
    BY <2>1, <2>2, <2>3, <2>4 DEF IInv, Results
<1>4. NothingLost'
  BY <1>1 DEF IInv, Types, Results, NothingLost, Back, Is, SendAgain, Sends, To, history
<1>5. Marks'
  <2>1. /\ UNCHANGED <<disk, live, arrived, raced>>
        /\ \A e \in Deliveries : sent[e] > 0 => sent'[e] > 0
    BY DEF IInv, Types, SendAgain, Sends
  <2>2. \A t \in Scans, e \in Deliveries : ~Is(t, "send", e) => ~Is(t, "send", e)'
    BY DEF IInv, Types, Is, SendAgain, Sends, To
  <2>3. Marks /\ arrived \subseteq Deliveries
    BY DEF IInv, Types
  <2> QED
    BY <2>1, <2>2, <2>3 DEF Marks, Held
<1> QED
  BY <1>1, <1>2, <1>3, <1>4, <1>5 DEF IInv

LEMMA SettleKeeps ==
    ASSUME IInv, NEW s \in Scans, NEW d \in Deliveries, Settle(s, d)
    PROVE  IInv'
<1>0. UNCHANGED <<live, rewrite, sent, arrived, aborted, withheld, raced>> /\ Next1(s, d)
  BY DEF Settle, history
<1>a. \/ Is(s, "returned", d) /\ disk' = ackDelivery(d)
      \/ disk' \in {failDelivery(d), moveToFailed(d)}
  BY DEF Settle
<1>b. scan[s].on = {d}
  BY DEF Settle, Is
<1>c. /\ disk' \in [Deliveries -> AnyFile] /\ Same(d)
      /\ disk[d].at \in {"queue", "failed"} => disk'[d].at \in {"queue", "failed"} \/ Back(d)
  <2>1. Is(s, "returned", d) => Back(d)
    BY DEF IInv, Results
  <2> QED
    BY <1>a, <2>1, Operations DEF IInv
<1>1. Types'
  <2>1. /\ scan' \in [Scans -> [pc : ScanPc, todo : SUBSET Deliveries, on : SUBSET Deliveries]]
        /\ claims' \subseteq Deliveries
    BY <1>0 DEF IInv, Types, Next1, ScanPc
  <2> QED
    BY <1>0, <1>c, <2>1 DEF IInv, Types
<1>2. Owners'
  BY <1>0, <1>b DEF IInv, Types, Owners, HasClaim, Scans, Next1
<1>3. Results'
  <2>1. \A t \in Scans, e \in Deliveries : Is(t, "returned", e)' => Is(t, "returned", e)
    BY <1>0 DEF IInv, Types, Is, Next1
  <2> QED
    BY <1>0, <2>1 DEF IInv, Results, Back
<1>4. NothingLost'
  BY <1>0, <1>c DEF IInv, NothingLost, Back, Same
<1>5. Marks'
  <2>1. UNCHANGED <<live, sent, arrived, raced>> /\ Next1(s, d)
    BY DEF Settle, history
  <2>2. d \in scan[s].on
    BY DEF Settle, Is
  <2>3. live[d] # "marked"
    BY <2>2 DEF IInv, Owners, HasClaim
  <2>4. \/ disk' = ackDelivery(d) \/ disk' = failDelivery(d) \/ disk' = moveToFailed(d)
    BY DEF Settle
  <2>5. /\ Same(d) /\ disk'[d].mark = disk[d].mark
        /\ disk'[d].at = "queue" => disk[d].at = "queue"
    BY <2>4, Operations DEF IInv
  <2>6. \A t \in Scans, e \in Deliveries : Is(t, "send", e)' => Is(t, "send", e)
    BY <2>1 DEF IInv, Types, Next1, Is
  <2>7. arrived \subseteq Deliveries /\ Marks
    BY DEF IInv, Types
  <2> QED
    BY <2>1, <2>3, <2>5, <2>6, <2>7, MarksStay DEF Same
<1> QED
  BY <1>1, <1>2, <1>3, <1>4, <1>5 DEF IInv

LEMMA BudgetExceededKeeps ==
    ASSUME IInv, BudgetExceeded
    PROVE  IInv'
<1>0. /\ rewrite' \in [Writers -> [Deliveries -> AnyFile]]
      /\ \A w \in Writers, e \in Deliveries :
             rewrite'[w][e] \in {rewrite[w][e], NoFile} \/ (rewrite'[w][e] = disk[e] /\ Queued(e))
  BY Empty DEF IInv, Types, BudgetExceeded, Writers
<1>1. Types'
  BY <1>0, Empty DEF IInv, Types, LivePc, Scans, BudgetExceeded, history
<1>2. Owners'
  BY DEF IInv, Types, Owners, HasClaim, Scans, BudgetExceeded, NoScan, history
<1>3. Results'
  <2>1. \A w \in Writers, e \in Deliveries :
           rewrite'[w][e] # NoFile => rewrite'[w][e].at = "queue"
    BY <1>0 DEF IInv, Results, Queued
  <2>2. UNCHANGED <<sent, withheld, live>>
    BY DEF BudgetExceeded, history
  <2>3. \A s \in Scans, e \in Deliveries : Is(s, "returned", e)' => Is(s, "returned", e)
    BY DEF IInv, Types, Is, BudgetExceeded, NoScan, Scans
  <2> QED
    BY <2>1, <2>2, <2>3 DEF IInv, Results, Back
<1>4. NothingLost'
  BY DEF IInv, NothingLost, BudgetExceeded, history
<1>5. Marks'
  BY <1>1 DEF IInv, Types, Marks, Owners, Results, HasClaim, Held, Is, Scans,
     BudgetExceeded, NoScan, history
<1> QED
  BY <1>1, <1>2, <1>3, <1>4, <1>5 DEF IInv

LEMMA RewritesKeeps ==
    ASSUME IInv, NEW w \in Writers, NEW d \in Deliveries, Rewrites(w, d)
    PROVE  IInv'
<1> DEFINE file == FailedOnce(rewrite[w][d])
<1>a. rewrite[w][d] \in AnyFile /\ rewrite[w][d].at = "queue"
  BY DEF IInv, Types, Results, Rewrites
<1>b. file \in AnyFile /\ file.at = "queue" /\ file.mark = rewrite[w][d].mark
  BY <1>a, FileTypes
<1>c. disk' = [disk EXCEPT ![d] = file]
  BY DEF Rewrites
<1> HIDE DEF file
<1>0. /\ rewrite' \in [Writers -> [Deliveries -> AnyFile]]
      /\ \A v \in Writers, e \in Deliveries : rewrite'[v][e] \in {rewrite[v][e], NoFile}
  BY Empty DEF IInv, Types, Rewrites
<1>1. Types'
  BY <1>0, <1>b, <1>c DEF IInv, Types, Rewrites
<1>2. Owners'
  BY DEF IInv, Owners, HasClaim, Rewrites
<1>3. Results'
  BY <1>0 DEF IInv, Results, Back, Is, Rewrites
<1>4. NothingLost'
  BY <1>b, <1>c DEF IInv, Types, NothingLost, Rewrites
<1>5. Marks'
  <2>1. CASE disk[d] = rewrite[w][d]
    <3>1. file.mark = disk[d].mark
      BY <1>b, <2>1
    <3>2. /\ UNCHANGED <<live, arrived, raced, sent, scan>>
          /\ \A e \in Deliveries : disk'[e].at = disk[e].at /\ disk'[e].mark = disk[e].mark
      <4>1. UNCHANGED <<live, arrived, sent, scan>> /\ raced' = raced
        BY <2>1 DEF Rewrites
      <4>2. \A e \in Deliveries : disk'[e].at = disk[e].at /\ disk'[e].mark = disk[e].mark
        BY <1>a, <1>b, <1>c, <2>1, <3>1 DEF IInv, Types
      <4> QED
        BY <4>1, <4>2
    <3> QED
      BY <3>2, MarksStay DEF IInv, Types, Is
  <2>2. CASE disk[d] # rewrite[w][d]
    <3>1. /\ UNCHANGED <<live, arrived, sent, scan>> /\ raced' = raced \union {d}
          /\ \A e \in Deliveries : e # d => disk'[e] = disk[e]
      BY <1>c, <2>2 DEF IInv, Types, Rewrites
    <3>2. arrived \subseteq Deliveries
      BY DEF IInv, Types
    <3> QED
      BY <3>1, <3>2 DEF IInv, Marks, Held, Is
  <2> QED
    BY <2>1, <2>2
<1> QED
  BY <1>1, <1>2, <1>3, <1>4, <1>5 DEF IInv

LEMMA CrashKeeps ==
    ASSUME IInv, Crash
    PROVE  IInv'
<1>1. Types'
  BY Empty DEF IInv, Types, LivePc, Scans, Crash, history
<1>2. Owners'
  BY DEF IInv, Types, Owners, HasClaim, Scans, Crash, NoScan, NoRewrite, history
<1>3. Results'
  BY <1>1 DEF IInv, Types, Results, Back, Owners, HasClaim, Is, Scans, Crash, NoScan, NoRewrite,
     history
<1>4. NothingLost'
  BY <1>1 DEF IInv, Types, Results, NothingLost, Back, Is, Crash, NoScan, NoRewrite, history
<1>5. Marks'
  BY <1>1 DEF IInv, Types, Marks, Owners, Results, HasClaim, Held, Is, Scans, Crash,
     NoScan, NoRewrite, history
<1> QED
  BY <1>1, <1>2, <1>3, <1>4, <1>5 DEF IInv

LEMMA StutterKeeps ==
    ASSUME IInv, UNCHANGED vars
    PROVE  IInv'
BY DEF IInv, Types, Owners, Results, NothingLost, Back, Marks, HasClaim, Held, Is, vars, history

LEMMA InitInv == Init => IInv
<1> SUFFICES ASSUME Init PROVE IInv
  OBVIOUS
<1>1. Types
  BY Empty DEF Init, Types, LivePc
<1>2. Owners /\ Results /\ NothingLost /\ Marks
  BY DEF Init, Owners, Results, NothingLost, Marks, HasClaim, Is, NoScan, NoRewrite
<1> QED
  BY <1>1, <1>2 DEF IInv

LEMMA StepInv == IInv /\ [Next]_vars => IInv'
<1> SUFFICES ASSUME IInv, [Next]_vars PROVE IInv'
  OBVIOUS
<1>1. ASSUME NEW d \in Deliveries, Enqueue(d) \/ LiveStep(d) \/ Abort(d)
      PROVE  IInv'
  BY <1>1, EnqueueKeeps, ClaimKeeps, NoticeStartsKeeps, StartKeeps, SuppressKeeps,
     LiveSendsKeeps, OutcomeUnknownKeeps, LiveEndsKeeps, NoticeEndsKeeps, NoticeFailsKeeps,
     AbortKeeps DEF LiveStep
<1>2. ASSUME NEW s \in Scans, Load(s) \/ LoadEnds(s) \/ Handle(s)
      PROVE  IInv'
  BY <1>2, LoadKeeps, LoadEndsKeeps, ReconcileKeeps, SendAgainKeeps, SettleKeeps DEF Handle
<1>3. ASSUME NEW s \in Scans, NEW d \in Deliveries, Skip(s, d) \/ Exhausted(s, d) \/ Take(s, d)
      PROVE  IInv'
  BY <1>3, SkipKeeps, ExhaustedKeeps, TakeKeeps
<1> QED
  BY <1>1, <1>2, <1>3, RewritesKeeps, BudgetExceededKeeps, CrashKeeps, StutterKeeps DEF Next

(* The inductive invariant holds of every state of the delivery queue: what  *)
(* deliver.ts, the recovery and the drain do, and every fault and restart.   *)
THEOREM Invariance == Spec => []IInv
<1> QED
  BY InitInv, StepInv, PTL DEF Spec

(* At any time one owner, holding the claim, works on an entry: the live     *)
(* send of deliver.ts, the start-up recovery, or a reconnect drain.          *)
THEOREM OneOwnerHolds == Spec => []OneOwner
<1>1. IInv => OneOwner
  BY DEF IInv, Owners, OneOwner, ScansAt
<1> QED
  BY <1>1, Invariance, PTL

(* An accepted message was sent, or has its file, or was aborted, or a send  *)
(* of it came back with nothing sent, whatever fails or crashes.             *)
THEOREM NothingLostHolds == Spec => []NothingLost
<1>1. IInv => NothingLost
  BY DEF IInv
<1> QED
  BY <1>1, Invariance, PTL

(* A message that arrived by a marked live send is not sent again.           *)
THEOREM NoBlindReplayHolds == Spec => NoBlindReplay
<1> DEFINE Kept == \A d \in Deliveries : d \in arrived \ raced => sent'[d] = sent[d]
<1>1. ASSUME IInv, Next PROVE Kept
  <2> SUFFICES ASSUME NEW d \in Deliveries, d \in arrived \ raced PROVE sent'[d] = sent[d]
    OBVIOUS
  <2>1. CASE \E e \in Deliveries : LiveSends(e)
    BY <1>1, <2>1 DEF IInv, Types, Marks, LiveSends, Sends
  <2>2. CASE \E s \in Scans, e \in Deliveries : SendAgain(s, e)
    BY <1>1, <2>2 DEF IInv, Types, Marks, Held, SendAgain, Sends
  <2>3. CASE ~ \E e \in Deliveries : LiveSends(e) \/ \E s \in Scans : SendAgain(s, e)
    BY <1>1, <2>3 DEF Next, LiveStep, Handle, Enqueue, Claim, NoticeStarts, Start, Suppress,
       OutcomeUnknown, LiveEnds, NoticeEnds, NoticeFails, Abort, Rewrites, Load, LoadEnds, Skip,
       Exhausted, Take, Reconcile, Settle, BudgetExceeded, Crash
  <2> QED
    BY <2>1, <2>2, <2>3
<1>2. IInv /\ [Next]_vars => [Kept]_vars
  BY <1>1
<1> QED
  BY <1>2, Invariance, PTL DEF Spec, NoBlindReplay

----------------------------------------------------------------------------
(* The retries are bounded.                                                  *)

(* The start-up recovery of this process has deferred the entry, or will not; *)
(* the live send has ended, and what it counts is written.                   *)
Deferred(d) ==
    IF booted /\ scan["startup"].pc = "idle" /\ rewrite["budget"][d] = NoFile THEN 1 ELSE 0
Ended(d) == IF live[d] = "done" /\ rewrite["notice"][d] = NoFile THEN 1 ELSE 0

(* Beyond MAX_RETRIES an entry counts one deferral for each process, which   *)
(* failDelivery writes without looking at the count, and one failure of its  *)
(* live send.                                                                *)
Most(d) == MaxRetries + crashes + Deferred(d) + Ended(d)

(* A scan that works on an entry may still count a failure.  What a Writer   *)
(* has read is not above the count, unless the other one wrote since, which  *)
(* raised the bound.                                                         *)
Boots ==
    /\ scan["startup"].pc # "idle" => booted
    /\ \A d \in Deliveries : rewrite["budget"][d] # NoFile => booted /\ scan["startup"].pc = "idle"
    /\ \A d \in Deliveries : rewrite["notice"][d] # NoFile => live[d] = "done"
Counts ==
    /\ \A d \in Deliveries : disk[d].retry <= Most(d)
    /\ \A s \in Scans : \A d \in scan[s].on : disk[d].retry < Most(d)
    /\ \A w \in Writers, d \in Deliveries : rewrite[w][d] # NoFile =>
           rewrite[w][d].retry <= disk[d].retry \/ rewrite[w][d].retry < Most(d)
Bounds == /\ required \subseteq Deliveries /\ reconciles \in BOOLEAN /\ booted \in BOOLEAN
          /\ faults \in 0 .. MaxFaults /\ crashes \in 0 .. MaxCrashes

Retries == Bounds /\ Boots /\ Counts

(* The operations on files, seen from the counts. *)
LEMMA CountOf ==
    ASSUME Types, NEW d \in Deliveries
    PROVE  /\ \A e \in Deliveries : /\ ackDelivery(d)[e].retry = disk[e].retry
                                    /\ moveToFailed(d)[e].retry = disk[e].retry
                                    /\ markDelivery(d, "started")[e].retry = disk[e].retry
                                    /\ markDelivery(d, "unknown")[e].retry = disk[e].retry
           /\ \A e \in Deliveries \ {d} : failDelivery(d)[e].retry = disk[e].retry
           /\ failDelivery(d)[d].retry \in {disk[d].retry, disk[d].retry + 1}
BY DEF Types, AnyFile, ackDelivery, moveToFailed, markDelivery, failDelivery, FailedOnce, Written, Queued

(* The steps that do not count a failure leave the counts as they are. *)
Uncounted == \A d \in Deliveries : disk'[d].retry = disk[d].retry

LEMMA CountedOnly ==
    ASSUME Types, [Next]_vars,
           \A d \in Deliveries : ~LiveEnds(d) /\ \A w \in Writers : ~Rewrites(w, d),
           \A s \in Scans, d \in Deliveries : ~Reconcile(s, d) /\ ~Settle(s, d)
    PROVE  Uncounted
<1>1. CASE \E d \in Deliveries : Enqueue(d)
  BY <1>1 DEF Uncounted, Enqueue, Types, AnyFile
<1>2. CASE \E d \in Deliveries : LiveStep(d) \/ Abort(d)
  <2>1. PICK d \in Deliveries : LiveStep(d) \/ Abort(d)
    BY <1>2
  <2>2. disk' \in {disk, ackDelivery(d), markDelivery(d, "started"), markDelivery(d, "unknown")}
    BY <2>1 DEF LiveStep, Claim, NoticeStarts, Start, Suppress, LiveSends, OutcomeUnknown,
       NoticeEnds, NoticeFails, Abort
  <2> QED
    BY <2>2, CountOf DEF Uncounted
<1>3. CASE \E s \in Scans : Load(s) \/ LoadEnds(s) \/ Handle(s)
  BY <1>3 DEF Uncounted, Load, LoadEnds, Handle, SendAgain
<1>4. CASE \E s \in Scans, d \in Deliveries : Skip(s, d) \/ Exhausted(s, d) \/ Take(s, d)
  BY <1>4, CountOf DEF Uncounted, Skip, Exhausted, Take
<1>5. CASE BudgetExceeded \/ Crash \/ UNCHANGED vars
  BY <1>5 DEF Uncounted, BudgetExceeded, Crash, vars
<1> QED
  BY <1>1, <1>2, <1>3, <1>4, <1>5 DEF Next

LEMMA BoundsKept ==
    ASSUME Bounds, [Next]_vars
    PROVE  Bounds'
<1> DEFINE Counted == faults' = faults \/ (faults < MaxFaults /\ faults' = faults + 1)
<1>1. Counted
  <2>1. \A d \in Deliveries : LiveStep(d) \/ Abort(d) => Counted
    BY DEF LiveStep, Claim, NoticeStarts, Start, Suppress, LiveSends, Sends, OutcomeUnknown, LiveEnds,
       NoticeEnds, NoticeFails, Abort, Fault, NoFault
  <2>2. \A w \in Writers, d \in Deliveries : Enqueue(d) \/ Rewrites(w, d) => Counted
    BY DEF Enqueue, Rewrites, Fault, NoFault
  <2>3. \A s \in Scans : Load(s) \/ LoadEnds(s) => Counted
    BY DEF Load, LoadEnds
  <2>4. \A s \in Scans, d \in Deliveries : Reconcile(s, d) \/ SendAgain(s, d) \/ Settle(s, d) => Counted
    BY DEF Reconcile, SendAgain, Sends, Settle, Fault, NoFault
  <2>5. \A s \in Scans, d \in Deliveries : Skip(s, d) \/ Exhausted(s, d) \/ Take(s, d) => Counted
    BY DEF Skip, Exhausted, Take
  <2>6. BudgetExceeded \/ Crash \/ UNCHANGED vars => Counted
    BY DEF BudgetExceeded, Crash, vars
  <2> HIDE DEF Counted
  <2> QED
    <3>1. CASE \E w \in Writers, d \in Deliveries : Rewrites(w, d)
      BY <2>2, <3>1
    <3>2. CASE \E d \in Deliveries : Enqueue(d)
      <4>1. "notice" \in Writers
        BY DEF Writers
      <4> QED
        BY <2>2, <3>2, <4>1
    <3> QED
      BY <2>1, <2>3, <2>4, <2>5, <2>6, <3>1, <3>2 DEF Next, Handle
<1>2. /\ required' = required /\ reconciles' = reconciles /\ booted' \in BOOLEAN
      /\ crashes' = crashes \/ (crashes < MaxCrashes /\ crashes' = crashes + 1)
  BY DEF Bounds, Next, LiveStep, Handle, Enqueue, Claim, NoticeStarts, Start, Suppress, LiveSends,
     OutcomeUnknown, LiveEnds, NoticeEnds, NoticeFails, Abort, Rewrites, Load, LoadEnds, Skip, Exhausted,
     Take, Reconcile, SendAgain, Settle, BudgetExceeded, Crash, vars, setup
<1> QED
  BY <1>1, <1>2, DeliveryAssumption DEF Bounds

(* A Writer reads the file as it is.                                         *)
LEMMA WritersRead ==
    ASSUME Types, [Next]_vars, NEW w \in Writers, NEW d \in Deliveries
    PROVE  rewrite'[w][d] \in {rewrite[w][d], NoFile, disk[d]}
<1>1. CASE BudgetExceeded
  BY <1>1 DEF Types, BudgetExceeded, Writers
<1>2. CASE Crash
  BY <1>2 DEF Crash, NoRewrite
<1>3. CASE \E e \in Deliveries : NoticeFails(e)
  BY <1>3 DEF Types, NoticeFails, Writers
<1>4. CASE \E v \in Writers, e \in Deliveries : Rewrites(v, e)
  BY <1>4 DEF Types, Rewrites
<1>5. CASE rewrite' = rewrite
  BY <1>5
<1>6. \/ rewrite' = rewrite \/ BudgetExceeded \/ Crash
      \/ \E e \in Deliveries : NoticeFails(e)
      \/ \E v \in Writers, e \in Deliveries : Rewrites(v, e)
  BY DEF Next, LiveStep, Handle, Enqueue, Claim, NoticeStarts, Start, Suppress, LiveSends,
     OutcomeUnknown, LiveEnds, NoticeEnds, Abort, Load, LoadEnds, Skip, Exhausted, Take,
     Reconcile, SendAgain, Settle, vars
<1> QED
  BY <1>1, <1>2, <1>3, <1>4, <1>5, <1>6

(* A live send ends once.                                                    *)
LEMMA DoneStays ==
    ASSUME Types, [Next]_vars, NEW d \in Deliveries, live[d] = "done"
    PROVE  live'[d] = "done"
<1>1. CASE \E e \in Deliveries : Enqueue(e) \/ LiveStep(e) \/ Abort(e)
  BY <1>1 DEF Types, Enqueue, LiveStep, Claim, NoticeStarts, Start, Suppress, LiveSends, Sends,
     OutcomeUnknown, LiveEnds, NoticeEnds, NoticeFails, Abort, At
<1>2. CASE Crash
  BY <1>2 DEF Crash
<1>3. CASE live' = live
  BY <1>3
<1>4. \/ live' = live \/ Crash
      \/ \E e \in Deliveries : Enqueue(e) \/ LiveStep(e) \/ Abort(e)
  BY DEF Next, Handle, Rewrites, Load, LoadEnds, Reconcile, SendAgain, Settle, Skip, Exhausted,
     Take, BudgetExceeded, vars
<1> QED
  BY <1>1, <1>2, <1>3, <1>4

(* No process boots twice: its deferrals are counted once.                   *)
LEMMA BootsKept ==
    ASSUME Types, Bounds, Boots, [Next]_vars
    PROVE  Boots'
<1>1. ASSUME NEW d \in Deliveries, Enqueue(d) \/ LiveStep(d) \/ Abort(d)
      PROVE  Boots'
  <2>1. UNCHANGED <<scan, booted>>
    BY <1>1 DEF Enqueue, LiveStep, Claim, NoticeStarts, Start, Suppress, LiveSends,
       OutcomeUnknown, LiveEnds, NoticeEnds, NoticeFails, Abort
  <2>2. \A e \in Deliveries : live[e] = "done" => live'[e] = "done"
    BY DoneStays
  <2>3. CASE rewrite' = rewrite
    BY <2>1, <2>2, <2>3 DEF Boots
  <2>4. CASE NoticeFails(d)
    <3>1. /\ rewrite'["budget"] = rewrite["budget"] /\ live'[d] = "done"
          /\ \A e \in Deliveries : e # d => rewrite'["notice"][e] = rewrite["notice"][e]
      BY <2>4 DEF Types, NoticeFails, At, Writers
    <3> QED
      BY <2>1, <2>2, <3>1 DEF Boots
  <2> QED
    BY <1>1, <2>3, <2>4 DEF Enqueue, LiveStep, Claim, NoticeStarts, Start, Suppress, LiveSends,
       OutcomeUnknown, LiveEnds, NoticeEnds, Abort
<1>2. ASSUME NEW s \in Scans, NEW d \in Deliveries, Reconcile(s, d) \/ Settle(s, d) \/ SendAgain(s, d)
      PROVE  Boots'
  <2>1. UNCHANGED <<booted, rewrite, live>> /\ scan[s].pc # "idle"
    BY <1>2 DEF Reconcile, Settle, SendAgain, Is
  <2>2. \A t \in Scans : scan'[t].pc = "idle" <=> scan[t].pc = "idle"
    <3>1. \E pc \in {"next", "send", "returned", "threw"} : Next1(s, d) \/ To(s, pc, d)
      BY <1>2 DEF Reconcile, Settle, SendAgain, Sends
    <3>2. PICK pc \in {"next", "send", "returned", "threw"} : Next1(s, d) \/ To(s, pc, d)
      BY <3>1
    <3>3. \A t \in Scans : t # s => scan'[t] = scan[t]
      BY <3>2 DEF Types, Next1, To
    <3>4. scan'[s].pc \in {"next", pc}
      BY <3>2 DEF Types, Next1, To
    <3> QED
      BY <2>1, <3>2, <3>3, <3>4
  <2> QED
    BY <2>1, <2>2 DEF Boots, Scans
<1>3. ASSUME NEW s \in Scans, Load(s) \/ LoadEnds(s)
      PROVE  Boots'
  <2>1. UNCHANGED <<live, rewrite>>
    BY <1>3 DEF Load, LoadEnds
  <2>2. scan'["startup"].pc # "idle" => booted'
    BY <1>3 DEF Load, LoadEnds, Types, Boots, NoScan, Scans
  <2>3. booted => booted' /\ (scan["startup"].pc = "idle" => scan'["startup"].pc = "idle")
    BY <1>3 DEF Load, LoadEnds, Types, Boots, NoScan, Scans
  <2> QED
    BY <2>1, <2>2, <2>3 DEF Boots
<1>4. ASSUME NEW s \in Scans, NEW d \in Deliveries, Skip(s, d) \/ Exhausted(s, d) \/ Take(s, d)
      PROVE  Boots'
  <2>1. UNCHANGED <<booted, rewrite, live>> /\ scan[s].pc = "next"
    BY <1>4 DEF Skip, Exhausted, Take
  <2>2. \A t \in Scans : scan'[t].pc = "idle" <=> scan[t].pc = "idle"
    <3>1. CASE Skip(s, d) \/ Exhausted(s, d)
      BY <2>1, <3>1 DEF Types, Skip, Exhausted
    <3>2. CASE Take(s, d)
      <4>1. Doing(d) # "idle"
        BY DEF Doing
      <4>2. \A t \in Scans : scan'[t].pc = IF t = s THEN Doing(d) ELSE scan[t].pc
        BY <3>2 DEF Types, Take, Goto
      <4> QED
        BY <2>1, <4>1, <4>2
    <3> QED
      BY <1>4, <3>1, <3>2
  <2> QED
    BY <2>1, <2>2 DEF Boots, Scans
<1>5. ASSUME NEW w \in Writers, NEW d \in Deliveries, Rewrites(w, d)
      PROVE  Boots'
  <2>1. /\ UNCHANGED <<scan, booted, live>>
        /\ \A v \in Writers, e \in Deliveries : rewrite'[v][e] \in {rewrite[v][e], NoFile}
    BY <1>5 DEF Rewrites, Types
  <2> QED
    BY <2>1 DEF Boots, Writers
<1>6. CASE BudgetExceeded
  <2>1. /\ scan'["startup"].pc = "idle" /\ UNCHANGED <<live, booted>> /\ booted
        /\ rewrite'["notice"] = rewrite["notice"]
    BY <1>6 DEF BudgetExceeded, Boots, Types, NoScan, Scans, Writers
  <2> QED
    BY <2>1 DEF Boots
<1>7. CASE Crash
  BY <1>7 DEF Crash, Boots, NoScan, NoRewrite, Scans, Writers
<1>8. CASE UNCHANGED vars
  BY <1>8 DEF vars, Boots
<1> QED
  BY <1>1, <1>2, <1>3, <1>4, <1>5, <1>6, <1>7, <1>8 DEF Next, Handle

(* The bound of an entry never falls: a crash counts at least the deferral   *)
(* that it may have stopped, and a live send ends once.                      *)
LEMMA MostGrows ==
    ASSUME Types, Bounds, Boots, [Next]_vars, NEW d \in Deliveries
    PROVE  Most(d) \in Nat /\ Most(d)' \in Nat /\ Most(d) <= Most(d)'
<1>1. crashes \in Nat /\ crashes' \in Nat /\ MaxRetries \in Nat
  BY BoundsKept, DeliveryAssumption DEF Bounds
<1>2. live[d] = "done" => live'[d] = "done"
  BY DoneStays
<1>3. CASE Crash
  <2>1. crashes' = crashes + 1
    BY <1>3 DEF Crash
  <2>2. Ended(d) = 1 => Ended(d)' = 1
    BY <1>2, <1>3 DEF Crash, NoRewrite, Ended, Writers
  <2>3. Deferred(d) \in {0, 1} /\ Deferred(d)' \in {0, 1} /\ Ended(d) \in {0, 1} /\ Ended(d)' \in {0, 1}
    BY DEF Deferred, Ended
  <2> QED
    BY <1>1, <2>1, <2>2, <2>3 DEF Most
<1>4. CASE ~Crash
  <2>1. crashes' = crashes
    BY <1>4 DEF Next, LiveStep, Handle, Enqueue, Claim, NoticeStarts, Start, Suppress, LiveSends,
       OutcomeUnknown, LiveEnds, NoticeEnds, NoticeFails, Abort, Rewrites, Load, LoadEnds, Skip, Exhausted,
       Take, Reconcile, SendAgain, Settle, BudgetExceeded, vars
  <2>2. Deferred(d) = 1 => Deferred(d)' = 1
    <3> SUFFICES ASSUME booted, scan["startup"].pc = "idle", rewrite["budget"][d] = NoFile
                 PROVE  booted' /\ scan'["startup"].pc = "idle" /\ rewrite'["budget"][d] = NoFile
      BY DEF Deferred
    <3>1. booted'
      BY <1>4 DEF Next, LiveStep, Handle, Enqueue, Claim, NoticeStarts, Start, Suppress, LiveSends,
         OutcomeUnknown, LiveEnds, NoticeEnds, NoticeFails, Abort, Rewrites, Load, LoadEnds, Skip,
         Exhausted, Take, Reconcile, SendAgain, Settle, BudgetExceeded, vars
    <3>2. rewrite'["budget"][d] = NoFile
      <4>1. CASE BudgetExceeded
        BY <4>1 DEF BudgetExceeded
      <4>2. CASE \E e \in Deliveries : NoticeFails(e)
        BY <4>2 DEF NoticeFails, Types, Writers
      <4>3. CASE \E w \in Writers, e \in Deliveries : Rewrites(w, e)
        BY <4>3 DEF Rewrites, Types, Writers
      <4>4. \/ rewrite' = rewrite \/ BudgetExceeded
            \/ \E e \in Deliveries : NoticeFails(e)
            \/ \E w \in Writers, e \in Deliveries : Rewrites(w, e)
        BY <1>4 DEF Next, LiveStep, Handle, Enqueue, Claim, NoticeStarts, Start, Suppress,
           LiveSends, OutcomeUnknown, LiveEnds, NoticeEnds, Abort, Load, LoadEnds, Skip,
           Exhausted, Take, Reconcile, SendAgain, Settle, vars
      <4> QED
        BY <4>1, <4>2, <4>3, <4>4
    <3>3. scan'["startup"].pc = "idle"
      <4>1. CASE \E s \in Scans, e \in Deliveries : Reconcile(s, e) \/ SendAgain(s, e) \/ Settle(s, e)
        <5>1. PICK s \in Scans, e \in Deliveries : Reconcile(s, e) \/ SendAgain(s, e) \/ Settle(s, e)
          BY <4>1
        <5>2. s # "startup"
          BY <5>1 DEF Reconcile, SendAgain, Settle, Is
        <5>3. scan'["startup"] = scan["startup"]
          BY <5>1, <5>2 DEF Reconcile, SendAgain, Settle, Sends, Next1, To, Types, Scans
        <5> QED
          BY <5>3
      <4>2. CASE \E s \in Scans, e \in Deliveries : Skip(s, e) \/ Exhausted(s, e) \/ Take(s, e)
        BY <4>2 DEF Skip, Exhausted, Take, Goto, Types, Scans
      <4>3. CASE \E s \in Scans : Load(s) \/ LoadEnds(s)
        BY <4>3 DEF Load, LoadEnds, Types, Scans
      <4>4. CASE scan' = scan
        BY <4>4
      <4>5. \/ scan' = scan
            \/ \E s \in Scans : Load(s) \/ LoadEnds(s) \/ Handle(s)
            \/ \E s \in Scans, e \in Deliveries : Skip(s, e) \/ Exhausted(s, e) \/ Take(s, e)
        BY <1>4 DEF Next, LiveStep, Enqueue, Claim, NoticeStarts, Start, Suppress, LiveSends,
           OutcomeUnknown, LiveEnds, NoticeEnds, NoticeFails, Abort, Rewrites, BudgetExceeded, vars
      <4> QED
        BY <4>1, <4>2, <4>3, <4>4, <4>5 DEF Handle
    <3> QED
      BY <3>1, <3>2, <3>3
  <2>3. Ended(d) = 1 => Ended(d)' = 1
    <3> SUFFICES ASSUME live[d] = "done", rewrite["notice"][d] = NoFile
                 PROVE  rewrite'["notice"][d] = NoFile
      BY <1>2 DEF Ended
    <3>1. CASE BudgetExceeded
      BY <3>1 DEF BudgetExceeded, Types, Writers
    <3>2. CASE \E e \in Deliveries : NoticeFails(e)
      BY <3>2 DEF NoticeFails, Types, Writers
    <3>3. CASE \E w \in Writers, e \in Deliveries : Rewrites(w, e)
      BY <3>3 DEF Rewrites, Types, Writers
    <3>4. \/ rewrite' = rewrite \/ BudgetExceeded
          \/ \E e \in Deliveries : NoticeFails(e)
          \/ \E w \in Writers, e \in Deliveries : Rewrites(w, e)
      BY <1>4 DEF Next, LiveStep, Handle, Enqueue, Claim, NoticeStarts, Start, Suppress,
         LiveSends, OutcomeUnknown, LiveEnds, NoticeEnds, Abort, Load, LoadEnds, Skip,
         Exhausted, Take, Reconcile, SendAgain, Settle, vars
    <3> QED
      BY <3>1, <3>2, <3>3, <3>4
  <2>4. Deferred(d) \in {0, 1} /\ Deferred(d)' \in {0, 1} /\ Ended(d) \in {0, 1} /\ Ended(d)' \in {0, 1}
    BY DEF Deferred, Ended
  <2> QED
    BY <1>1, <2>1, <2>2, <2>3, <2>4 DEF Most
<1> QED
  BY <1>3, <1>4

(* Who counts a failure of an entry holds it: a scan, whose entry was below  *)
(* the bound, or the live send, which ends; a Writer raises the bound.       *)
LEMMA CountsKept ==
    ASSUME IInv, Retries, [Next]_vars
    PROVE  Counts'
<1> DEFINE Free(d) == \A s \in Scans : d \in scan'[s].on =>
                          d \in scan[s].on \/ disk'[d].retry < MaxRetries
<1>1. \A d \in Deliveries : Most(d) \in Nat /\ Most(d)' \in Nat /\ Most(d) <= Most(d)'
  BY MostGrows DEF IInv, Retries
<1>2. \A d \in Deliveries : disk[d].retry \in Nat
  BY DEF IInv, Types, AnyFile
<1>3. \A d \in Deliveries : MaxRetries <= Most(d)' /\ MaxRetries \in Nat
  <2>1. crashes' \in Nat /\ MaxRetries \in Nat
    BY BoundsKept, DeliveryAssumption DEF Retries, Bounds
  <2> QED
    <3>1. \A d \in Deliveries : Deferred(d)' \in {0, 1} /\ Ended(d)' \in {0, 1}
      BY DEF Deferred, Ended
    <3> QED
      BY <2>1, <3>1 DEF Most
<1>4. \A d \in Deliveries : disk[d].retry <= Most(d)
  BY DEF Retries, Counts
<1>5. \A s \in Scans : \A d \in scan[s].on : disk[d].retry < Most(d)
  BY DEF Retries, Counts
<1>a. \A s \in Scans : scan[s].on \subseteq Deliveries
  BY DEF IInv, Types
<1>b. \A s \in Scans : scan'[s].on \subseteq Deliveries
  BY StepInv DEF IInv, Types
<1> HIDE DEF Free
<1>c. ASSUME NEW d \in Deliveries, Free(d), disk'[d].retry = disk[d].retry
      PROVE  /\ disk'[d].retry <= Most(d)'
             /\ \A s \in Scans : d \in scan'[s].on => disk'[d].retry < Most(d)'
  <2>1. disk'[d].retry <= Most(d)'
    BY <1>c, <1>1, <1>2, <1>4
  <2>2. ASSUME NEW s \in Scans, d \in scan'[s].on PROVE disk'[d].retry < Most(d)'
    <3>1. CASE d \in scan[s].on
      BY <1>c, <1>1, <1>2, <1>5, <3>1
    <3>2. CASE disk'[d].retry < MaxRetries
      BY <1>c, <1>1, <1>2, <1>3, <3>2
    <3> QED
      BY <1>c, <2>2, <3>1, <3>2 DEF Free
  <2> QED
    BY <2>1, <2>2
<1>e. ASSUME NEW d \in Deliveries, disk[d].retry <= disk'[d].retry, disk'[d].retry \in Nat
      PROVE  \A w \in Writers : rewrite'[w][d] # NoFile =>
                 rewrite'[w][d].retry <= disk'[d].retry \/ rewrite'[w][d].retry < Most(d)'
  <2> SUFFICES ASSUME NEW w \in Writers, rewrite'[w][d] # NoFile
               PROVE  rewrite'[w][d].retry <= disk'[d].retry \/ rewrite'[w][d].retry < Most(d)'
    OBVIOUS
  <2>1. rewrite'[w][d] = rewrite[w][d] \/ rewrite'[w][d] = disk[d]
    BY WritersRead DEF IInv
  <2>2. CASE rewrite'[w][d] = disk[d]
    BY <1>e, <2>2
  <2>3. CASE rewrite'[w][d] = rewrite[w][d]
    <3>1. rewrite[w][d].retry <= disk[d].retry \/ rewrite[w][d].retry < Most(d)
      BY <2>3 DEF Retries, Counts
    <3>2. rewrite[w][d].retry \in Nat
      BY DEF IInv, Types, AnyFile
    <3> QED
      BY <1>1, <1>2, <1>e, <2>3, <3>1, <3>2
  <2> QED
    BY <2>1, <2>2, <2>3
<1>d. ASSUME \A d \in Deliveries : /\ disk'[d].retry <= Most(d)'
                                   /\ \A s \in Scans : d \in scan'[s].on => disk'[d].retry < Most(d)'
                                   /\ disk[d].retry <= disk'[d].retry /\ disk'[d].retry \in Nat
      PROVE  Counts'
  BY <1>b, <1>d, <1>e DEF Counts
<1>6. ASSUME Uncounted PROVE Counts'
  <2>1. CASE \E s \in Scans, e \in Deliveries : Take(s, e)
    <3>1. PICK s \in Scans, e \in Deliveries : Take(s, e)
      BY <2>1
    <3>2. \A t \in Scans, d \in Deliveries : d \in scan'[t].on => d \in scan[t].on \/ d = e
      BY <3>1 DEF Take, Goto, IInv, Types
    <3>3. disk'[e].retry < MaxRetries
      BY <3>1 DEF Take
    <3>4. \A d \in Deliveries : Free(d)
      BY <3>2, <3>3 DEF Free
    <3> QED
      BY <1>2, <1>6, <1>c, <1>d, <3>4 DEF Uncounted
  <2>2. CASE ~ \E s \in Scans, e \in Deliveries : Take(s, e)
    <3>1. \A t \in Scans : scan'[t].on \subseteq scan[t].on
      <4>1. CASE \E s \in Scans, e \in Deliveries : Reconcile(s, e) \/ SendAgain(s, e) \/ Settle(s, e)
        <5>1. PICK s \in Scans, e \in Deliveries : Reconcile(s, e) \/ SendAgain(s, e) \/ Settle(s, e)
          BY <4>1
        <5>2. \E pc \in ScanPc : Next1(s, e) \/ To(s, pc, e)
          BY <5>1 DEF Reconcile, SendAgain, Settle, Sends, ScanPc
        <5>3. CASE Next1(s, e)
          BY <5>3 DEF Next1, IInv, Types
        <5>4. CASE \E pc \in ScanPc : To(s, pc, e)
          BY <5>4 DEF To, IInv, Types
        <5> QED
          BY <5>2, <5>3, <5>4
      <4>2. CASE \E s \in Scans, e \in Deliveries : Skip(s, e) \/ Exhausted(s, e)
        <5>1. PICK s \in Scans, e \in Deliveries :
                       scan' = [scan EXCEPT ![s].todo = @ \ {e}]
          BY <4>2 DEF Skip, Exhausted
        <5> QED
          BY <5>1 DEF IInv, Types
      <4>3. CASE \E s \in Scans : Load(s) \/ LoadEnds(s)
        <5>1. PICK s \in Scans : Load(s) \/ LoadEnds(s)
          BY <4>3
        <5>2. \A t \in Scans : t # s => scan'[t] = scan[t]
          BY <5>1 DEF Load, LoadEnds, IInv, Types
        <5>3. scan'[s].on = {}
          <6>1. \A S : [NoScan EXCEPT !.pc = "next", !.todo = S].on = {}
            BY DEF NoScan
          <6>2. NoScan.on = {}
            BY DEF NoScan
          <6>3. \/ scan'[s] = NoScan
                \/ \E S : scan'[s] = [NoScan EXCEPT !.pc = "next", !.todo = S]
            BY <5>1 DEF Load, LoadEnds, IInv, Types
          <6> QED
            BY <6>1, <6>2, <6>3
        <5> QED
          BY <5>2, <5>3
      <4>4. CASE BudgetExceeded \/ Crash
        BY <4>4 DEF BudgetExceeded, Crash, NoScan, IInv, Types
      <4>5. CASE scan' = scan
        BY <4>5
      <4>6. \/ scan' = scan \/ BudgetExceeded \/ Crash
            \/ \E s \in Scans : Load(s) \/ LoadEnds(s) \/ Handle(s)
            \/ \E s \in Scans, e \in Deliveries : Skip(s, e) \/ Exhausted(s, e)
        BY <2>2 DEF Next, LiveStep, Enqueue, Claim, NoticeStarts, Start, Suppress, LiveSends,
           OutcomeUnknown, LiveEnds, NoticeEnds, NoticeFails, Abort, Rewrites, vars
      <4> QED
        BY <4>1, <4>2, <4>3, <4>4, <4>5, <4>6 DEF Handle
    <3>2. \A d \in Deliveries : Free(d)
      BY <3>1 DEF Free
    <3> QED
      BY <1>2, <1>6, <1>c, <1>d, <3>2 DEF Uncounted
  <2> QED
    BY <2>1, <2>2
<1>7. ASSUME NEW d \in Deliveries, LiveEnds(d)
      PROVE  Counts'
  <2>1. scan' = scan
    BY <1>7 DEF LiveEnds
  <2>2. \A e \in Deliveries \ {d} : disk'[e].retry = disk[e].retry
    BY <1>7, CountOf DEF LiveEnds, IInv
  <2>3. \A e \in Deliveries : Free(e)
    BY <2>1 DEF Free
  <2>4. CASE disk'[d].retry = disk[d].retry
    BY <1>2, <1>c, <1>d, <2>2, <2>3, <2>4
  <2>5. CASE disk'[d].retry # disk[d].retry
    <3>1. disk' = failDelivery(d) /\ live[d] # "done" /\ live'[d] = "done"
      BY <1>7, <2>5, CountOf DEF LiveEnds, At, IInv, Types
    <3>2. disk'[d].retry = disk[d].retry + 1
      BY <3>1, <2>5, CountOf DEF IInv
    <3>3. Most(d)' = Most(d) + 1
      <4>1. crashes' = crashes /\ Deferred(d)' = Deferred(d)
        BY <1>7 DEF LiveEnds, Deferred
      <4>2. Ended(d) = 0 /\ Ended(d)' = 1
        BY <1>7, <3>1 DEF LiveEnds, Ended, Retries, Boots
      <4>3. Deferred(d) \in {0, 1} /\ crashes \in Nat /\ MaxRetries \in Nat
        BY DeliveryAssumption DEF Deferred, Retries, Bounds
      <4> QED
        BY <4>1, <4>2, <4>3 DEF Most
    <3>4. /\ disk'[d].retry <= Most(d)'
          /\ \A s \in Scans : d \in scan'[s].on => disk'[d].retry < Most(d)'
      BY <1>1, <1>2, <1>4, <1>5, <2>1, <3>2, <3>3
    <3> QED
      BY <1>2, <1>c, <1>d, <2>2, <2>3, <3>2, <3>4
  <2> QED
    BY <2>4, <2>5
<1>8. ASSUME NEW s \in Scans, NEW d \in Deliveries, Reconcile(s, d) \/ Settle(s, d)
      PROVE  Counts'
  <2>1. /\ scan[s].on = {d}
        /\ Next1(s, d) \/ (To(s, "send", d) /\ disk' = disk)
    BY <1>8 DEF Reconcile, Settle, Is
  <2>2. \A t \in Scans : scan'[t].on \subseteq scan[t].on
    BY <2>1 DEF Next1, To, IInv, Types
  <2>3. \A e \in Deliveries : Free(e)
    BY <2>2 DEF Free
  <2>4. \A e \in Deliveries \ {d} : disk'[e].retry = disk[e].retry
    BY <1>8, CountOf DEF Reconcile, Settle, IInv
  <2>5. CASE disk'[d].retry = disk[d].retry
    BY <1>2, <1>c, <1>d, <2>3, <2>4, <2>5
  <2>6. CASE disk'[d].retry # disk[d].retry
    <3>1. disk' = failDelivery(d)
      BY <1>8, <2>6, CountOf DEF Reconcile, Settle, IInv
    <3>2. disk'[d].retry = disk[d].retry + 1
      BY <3>1, <2>6, CountOf DEF IInv
    <3>3. disk[d].retry < Most(d)
      BY <1>5, <2>1
    <3>4. \A t \in Scans : d \notin scan'[t].on
      <4>1. scan'[s].on = {}
        BY <2>1, <2>6 DEF Next1, IInv, Types
      <4>2. \A t \in Scans : t # s => d \notin scan[t].on
        BY <2>1 DEF IInv, Owners
      <4> QED
        BY <2>2, <4>1, <4>2
    <3>5. disk'[d].retry <= Most(d)'
      BY <1>1, <1>2, <3>2, <3>3
    <3> QED
      BY <1>2, <1>c, <1>d, <2>3, <2>4, <3>2, <3>4, <3>5
  <2> QED
    BY <2>5, <2>6
<1>9. ASSUME NEW w \in Writers, NEW d \in Deliveries, Rewrites(w, d)
      PROVE  Counts'
  <2>1. /\ scan' = scan /\ rewrite[w][d] # NoFile
        /\ \A e \in Deliveries \ {d} : disk'[e].retry = disk[e].retry
        /\ \A v \in Writers : rewrite'[v][d] \in {rewrite[v][d], NoFile}
        /\ rewrite'[w][d] = NoFile
    BY <1>9 DEF Rewrites, IInv, Types
  <2>2. disk'[d].retry = rewrite[w][d].retry + 1
    BY <1>9 DEF Rewrites, FailedOnce, IInv, Types, AnyFile
  <2>3. \A v \in Writers : rewrite[v][d].retry \in Nat
    BY DEF IInv, Types, AnyFile
  <2>4. \A v \in Writers : rewrite[v][d] # NoFile =>
            rewrite[v][d].retry <= disk[d].retry \/ rewrite[v][d].retry < Most(d)
    BY DEF Retries, Counts
  <2>5. Most(d)' = Most(d) + 1
    <3>1. crashes' = crashes /\ live' = live /\ booted' = booted
      BY <1>9 DEF Rewrites
    <3>2. crashes \in Nat /\ MaxRetries \in Nat
      BY DeliveryAssumption DEF Retries, Bounds
    <3>3. CASE w = "budget"
      <4>1. Deferred(d) = 0 /\ Deferred(d)' = 1
        BY <2>1, <3>1, <3>3 DEF Deferred, Retries, Boots
      <4>2. Ended(d)' = Ended(d) /\ Ended(d) \in {0, 1}
        <5>1. rewrite'["notice"][d] = rewrite["notice"][d]
          BY <1>9, <3>3 DEF Rewrites, IInv, Types, Writers
        <5> QED
          BY <3>1, <5>1 DEF Ended
      <4> QED
        BY <3>1, <3>2, <4>1, <4>2 DEF Most
    <3>4. CASE w = "notice"
      <4>1. Ended(d) = 0 /\ Ended(d)' = 1
        BY <2>1, <3>1, <3>4 DEF Ended, Retries, Boots
      <4>2. Deferred(d)' = Deferred(d) /\ Deferred(d) \in {0, 1}
        <5>1. rewrite'["budget"][d] = rewrite["budget"][d]
          BY <1>9, <3>4 DEF Rewrites, IInv, Types, Writers
        <5> QED
          BY <2>1, <3>1, <5>1 DEF Deferred
      <4> QED
        BY <3>1, <3>2, <4>1, <4>2 DEF Most
    <3> QED
      BY <3>3, <3>4 DEF Writers
  <2>6. \A v \in Writers : rewrite[v][d] # NoFile => rewrite[v][d].retry <= Most(d)
    BY <1>1, <1>2, <1>4, <2>3, <2>4
  <2>7. disk'[d].retry <= Most(d)'
    BY <1>1, <2>1, <2>2, <2>3, <2>5, <2>6
  <2>8. ASSUME NEW s \in Scans, d \in scan'[s].on PROVE disk'[d].retry < Most(d)'
    <3>1. disk[d].retry < Most(d)
      BY <1>5, <2>1, <2>8
    <3> QED
      BY <1>1, <1>2, <2>1, <2>2, <2>3, <2>4, <2>5, <3>1
  <2>9. \A v \in Writers : rewrite'[v][d] # NoFile => rewrite'[v][d].retry < Most(d)'
    BY <1>1, <2>1, <2>3, <2>5, <2>6
  <2>10. \A e \in Deliveries : Free(e)
    BY <2>1 DEF Free
  <2>11. ASSUME NEW e \in Deliveries \ {d}
         PROVE  /\ disk'[e].retry <= Most(e)'
                /\ \A s \in Scans : e \in scan'[s].on => disk'[e].retry < Most(e)'
                /\ disk[e].retry <= disk'[e].retry /\ disk'[e].retry \in Nat
    BY <1>2, <1>c, <2>1, <2>10
  <2>12. \A e \in Deliveries \ {d}, v \in Writers : rewrite'[v][e] # NoFile =>
             rewrite'[v][e].retry <= disk'[e].retry \/ rewrite'[v][e].retry < Most(e)'
    BY <1>e, <2>11
  <2>13. \A e \in Deliveries : disk'[e].retry <= Most(e)'
    BY <2>7, <2>11
  <2>14. \A s \in Scans : \A e \in scan'[s].on : disk'[e].retry < Most(e)'
    BY <1>b, <2>8, <2>11
  <2> QED
    BY <2>9, <2>12, <2>13, <2>14 DEF Counts
<1>10. ASSUME \A d \in Deliveries : ~LiveEnds(d) /\ \A w \in Writers : ~Rewrites(w, d),
              \A s \in Scans, d \in Deliveries : ~Reconcile(s, d) /\ ~Settle(s, d)
       PROVE  Uncounted
  BY <1>10, CountedOnly DEF IInv
<1> QED
  BY <1>6, <1>7, <1>8, <1>9, <1>10

(* The types hold in every state.  In particular failDelivery has counted no *)
(* more than MAX_RETRIES failures of an entry, but for one by its live send  *)
(* and one by the budget deferral of each process.                           *)
THEOREM TypeCorrect == Spec => []TypeOK
<1>1. Init => Retries
  <2> SUFFICES ASSUME Init PROVE Retries
    OBVIOUS
  <2>1. Bounds
    <3>1. required \subseteq Deliveries /\ reconciles \in BOOLEAN /\ booted \in BOOLEAN
      BY DEF Init
    <3>2. faults \in 0 .. MaxFaults /\ crashes \in 0 .. MaxCrashes
      BY DeliveryAssumption DEF Init
    <3> QED
      BY <3>1, <3>2 DEF Bounds
  <2>2. Boots
    BY DEF Init, Boots, Scans, NoScan, NoRewrite, Writers
  <2>3. \A d \in Deliveries : Most(d) = MaxRetries
    BY DeliveryAssumption DEF Init, Most, Deferred, Ended
  <2>4. Counts
    BY <2>3, DeliveryAssumption DEF Init, Counts, NoFile, NoScan, NoRewrite
  <2> QED
    BY <2>1, <2>2, <2>4 DEF Retries
<1>2. IInv /\ Retries /\ [Next]_vars => Retries'
  BY BoundsKept, BootsKept, CountsKept DEF Retries, IInv
<1>3. IInv /\ Retries => TypeOK
  <2> SUFFICES ASSUME IInv, Retries PROVE TypeOK
    OBVIOUS
  <2>1. \A d \in Deliveries : Most(d) \in Nat /\ Most(d) <= MaxRetries + MaxCrashes + 2
    <3>1. /\ crashes \in Nat /\ crashes <= MaxCrashes /\ MaxCrashes \in Nat
          /\ MaxRetries \in Nat
      BY DeliveryAssumption DEF Retries, Bounds
    <3> QED
      BY <3>1 DEF Most, Deferred, Ended
  <2>2. ASSUME NEW f \in AnyFile, f.retry <= MaxRetries + MaxCrashes + 2
        PROVE  f \in File
    BY <2>2, DeliveryAssumption DEF AnyFile, File
  <2>3. \A d \in Deliveries : disk[d].retry <= MaxRetries + MaxCrashes + 2
    <3>1. \A d \in Deliveries : disk[d].retry <= Most(d) /\ disk[d].retry \in Nat
      BY DEF Retries, Counts, IInv, Types, AnyFile
    <3> QED
      BY <2>1, <3>1, DeliveryAssumption
  <2>4. \A w \in Writers, d \in Deliveries : rewrite[w][d].retry <= MaxRetries + MaxCrashes + 2
    <3> SUFFICES ASSUME NEW w \in Writers, NEW d \in Deliveries
                 PROVE  rewrite[w][d].retry <= MaxRetries + MaxCrashes + 2
      OBVIOUS
    <3>1. CASE rewrite[w][d] = NoFile
      BY <3>1, DeliveryAssumption DEF NoFile
    <3>2. CASE rewrite[w][d] # NoFile
      <4>1. rewrite[w][d].retry <= disk[d].retry \/ rewrite[w][d].retry < Most(d)
        BY <3>2 DEF Retries, Counts
      <4>2. rewrite[w][d].retry \in Nat /\ disk[d].retry \in Nat
        BY DEF IInv, Types, AnyFile
      <4> QED
        BY <2>1, <2>3, <4>1, <4>2, DeliveryAssumption
    <3> QED
      BY <3>1, <3>2
  <2>5. disk \in [Deliveries -> File] /\ rewrite \in [Writers -> [Deliveries -> File]]
    BY <2>2, <2>3, <2>4 DEF IInv, Types
  <2> QED
    BY <2>5 DEF IInv, Types, Retries, Bounds, TypeOK
<1> QED
  BY <1>1, <1>2, <1>3, Invariance, PTL DEF Spec
=============================================================================
