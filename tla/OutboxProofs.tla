---------------------------- MODULE OutboxProofs ----------------------------
(***************************************************************************)
(* What TLAPS proves of Outbox, for any rows, workers, batch size, retry   *)
(* limit and faults.                                                       *)
(***************************************************************************)
EXTENDS Outbox, TLAPS

USE DEF vars, table, worker

Marking == {"markPublished", "markFailed"}

\* A worker marks a row PUBLISHED only after the broker took it.
SentInv ==
  /\ PublishedWasSent
  /\ \A w \in Workers :
       /\ pc[w] \in Marking => entry[w] \in Snapshots
       /\ pc[w] = "markPublished" => sent[entry[w].id] > 0

\* A worker holds each of its rows once, no row is held twice, and none that is held
\* can be claimed.
ClaimInv ==
  /\ OneClaimant
  /\ \A w \in Workers :
       /\ \A e \in Holds(w) : status[e] \notin {"absent", "PENDING"}
       /\ \A i, j \in batch[w] : i.id = j.id => i = j
       /\ pc[w] \in Marking => \A i \in batch[w] : i.id # entry[w].id

\* A row that may still be published has been sent at most as often as its retry count
\* says, as stored or as claimed; the one in a worker's hands at most once more.
RetryInv ==
  /\ SendsWithinRetries
  /\ \A e \in Entries : status[e] \in {"absent", "PENDING"} =>
       sent[e] <= retryCount[e] /\ retryCount[e] < MaxRetries
  /\ \A w \in Workers :
       /\ \A i \in batch[w] : sent[i.id] <= i.retryCount /\ i.retryCount < MaxRetries
       /\ pc[w] \in Marking =>
            sent[entry[w].id] <= entry[w].retryCount + 1 /\ entry[w].retryCount < MaxRetries

----------------------------------------------------------------------------
\* A claim returns one snapshot of each row it flips.
LEMMA ReturningFacts ==
  ASSUME TypeOK, NEW S \in SUBSET Entries
  PROVE  /\ Returning(S) \in SUBSET Snapshots
         /\ \A i \in Returning(S) : i.id \in S /\ i.retryCount = retryCount[i.id]
         /\ \A i, j \in Returning(S) : i.id = j.id => i = j
<1>1. ASSUME NEW i \in Returning(S)
      PROVE  i \in Snapshots /\ i.id \in S /\ i.retryCount = retryCount[i.id]
             /\ i = [id |-> i.id, retryCount |-> retryCount[i.id]]
  BY <1>1 DEF TypeOK, Returning, Snapshots
<1> QED BY <1>1

\* Only pending rows are claimed.
LEMMA OldestFacts == Oldest \in SUBSET Entries /\ Oldest \subseteq Pending
BY DEF Oldest, Pending

\* Types are kept.
LEMMA StepTypes ==
  ASSUME TypeOK, SentInv, [Next]_vars
  PROVE  TypeOK'
<1> USE DEF TypeOK
<1>1. CASE \E w \in Workers : ProcessOutbox(w)
  <2> PICK w \in Workers : ProcessOutbox(w)
    BY <1>1
  <2>1. CASE ClaimPendingEntries(w)
    <3>1. Returning(Oldest) \in SUBSET Snapshots
      BY ReturningFacts, OldestFacts
    <3> QED BY <2>1, <3>1 DEF ClaimPendingEntries, Flip, Statuses
  <2>2. CASE Publish(w)
    BY <2>2 DEF Publish, TakeUp, Deliver, Snapshots
  <2>3. CASE PublishThrows(w)
    BY <2>3 DEF PublishThrows, TakeUp, Deliver, Snapshots
  <2>4. CASE MarkPublished(w)
    BY <2>4 DEF MarkPublished, SetPublished, NextEntry, Statuses
  <2>5. CASE MarkFailed(w)
    BY <2>5 DEF MarkFailed, SetFailed, NextEntry, Statuses, SentInv, Marking, Snapshots
  <2> QED BY <2>1, <2>2, <2>3, <2>4, <2>5 DEF ProcessOutbox
<1>2. CASE \E w \in Workers : Disturb(w)
  <2> PICK w \in Workers : Disturb(w)
    BY <1>2
  <2>0. ASSUME NEW kind, Fault(kind)
        PROVE  faults' \in 0..MaxFaults
    BY <2>0, OutboxAssumption DEF Fault
  <2>1. CASE ClaimReplyLost(w)
    BY <2>0, <2>1 DEF ClaimReplyLost, Flip, Statuses
  <2>2. CASE MarkPublishedThrows(w)
    BY <2>0, <2>2 DEF MarkPublishedThrows, SetPublished, Statuses
  <2>3. CASE MarkFailedThrows(w)
    BY <2>0, <2>3
       DEF MarkFailedThrows, SetFailed, Abandon, Statuses, SentInv, Marking, Snapshots
  <2>4. CASE Crash(w)
    BY <2>0, <2>4 DEF Crash, Abandon
  <2> QED BY <2>1, <2>2, <2>3, <2>4 DEF Disturb
<1>3. CASE \E e \in Entries : AddToOutbox(e) \/ Age(e)
  BY <1>3, OutboxAssumption DEF AddToOutbox, Age, Fault, Statuses
<1>4. CASE RecoverStuckEntries
  BY <1>4 DEF RecoverStuckEntries, Revert, Statuses
<1> QED BY <1>1, <1>2, <1>3, <1>4 DEF Next

\* A worker comes to mark a row PUBLISHED only by publishing it.
LEMMA StepSent ==
  ASSUME TypeOK, SentInv, [Next]_vars
  PROVE  SentInv'
<1> USE DEF TypeOK, SentInv, PublishedWasSent, Marking
<1>1. CASE \E w \in Workers : ProcessOutbox(w)
  <2> PICK w \in Workers : ProcessOutbox(w)
    BY <1>1
  <2>1. CASE ClaimPendingEntries(w)
    BY <2>1 DEF ClaimPendingEntries, Flip
  <2>2. CASE Publish(w)
    BY <2>2 DEF Publish, TakeUp, Deliver, Snapshots
  <2>3. CASE PublishThrows(w)
    BY <2>3 DEF PublishThrows, TakeUp, Deliver, Snapshots
  <2>4. CASE MarkPublished(w)
    BY <2>4 DEF MarkPublished, SetPublished, NextEntry
  <2>5. CASE MarkFailed(w)
    BY <2>5 DEF MarkFailed, SetFailed, NextEntry
  <2> QED BY <2>1, <2>2, <2>3, <2>4, <2>5 DEF ProcessOutbox
<1>2. CASE \E w \in Workers : Disturb(w)
  BY <1>2 DEF Disturb, ClaimReplyLost, Flip, MarkPublishedThrows, SetPublished,
              MarkFailedThrows, SetFailed, Abandon, Crash
<1>3. CASE \E e \in Entries : AddToOutbox(e) \/ Age(e)
  BY <1>3 DEF AddToOutbox, Age
<1>4. CASE RecoverStuckEntries
  BY <1>4 DEF RecoverStuckEntries, Revert
<1> QED BY <1>1, <1>2, <1>3, <1>4 DEF Next

\* However crashes, lost statements, the sweep and second claimants interleave, a row
\* is PUBLISHED only once the broker has had it.
THEOREM OnlySentIsPublished == Spec => [](TypeOK /\ PublishedWasSent)
<1>1. Init => TypeOK /\ SentInv
  BY OutboxAssumption
     DEF Init, TypeOK, SentInv, PublishedWasSent, Marking, Statuses, Snapshots
<1>2. TypeOK /\ SentInv /\ [Next]_vars => (TypeOK /\ SentInv)'
  BY StepTypes, StepSent
<1>3. SentInv => PublishedWasSent
  BY DEF SentInv
<1> QED BY <1>1, <1>2, <1>3, PTL DEF Spec

\* Every column and local keeps its type, with or without the sweep.
THEOREM TypesHold == Spec => []TypeOK
BY OnlySentIsPublished, PTL

----------------------------------------------------------------------------
(* As deployed: nothing schedules the sweep. *)

\* Workers hold rows of the table.
LEMMA HeldAreEntries ==
  ASSUME TypeOK, SentInv, NEW w \in Workers
  PROVE  Holds(w) \subseteq Entries
BY DEF TypeOK, SentInv, Marking, Holds, Snapshots

\* A claim gives a worker rows that nobody holds.
LEMMA ClaimKeepsClaims ==
  ASSUME TypeOK, SentInv, ClaimInv, NEW w \in Workers, ClaimPendingEntries(w)
  PROVE  ClaimInv'
<1>1. /\ \A i \in batch'[w] : i.id \in Oldest
      /\ \A i, j \in batch'[w] : i.id = j.id => i = j
  BY ReturningFacts, OldestFacts DEF TypeOK, ClaimPendingEntries
<1>2. /\ pc' = [pc EXCEPT ![w] = "publish"] /\ entry' = entry
      /\ \A v \in Workers \ {w} : batch'[v] = batch[v]
  BY DEF TypeOK, ClaimPendingEntries
<1>3. /\ Holds(w)' \subseteq Oldest
      /\ \A v \in Workers \ {w} : Holds(v)' = Holds(v)
  BY <1>1, <1>2 DEF TypeOK, Holds
<1>4. \A v \in Workers : Holds(v) \cap Oldest = {}
  BY OldestFacts DEF ClaimInv, Pending
<1>5. status' = [e \in Entries |-> IF e \in Oldest THEN "PROCESSING" ELSE status[e]]
  BY DEF ClaimPendingEntries, Flip
<1>6. OneClaimant'
  BY <1>3, <1>4 DEF ClaimInv, OneClaimant
<1>7. ASSUME NEW v \in Workers
      PROVE  \A e \in Holds(v)' : status'[e] \notin {"absent", "PENDING"}
  <2>1. CASE v = w
    BY <1>3, <1>5, <2>1, OldestFacts
  <2>2. CASE v # w
    <3>1. Holds(v)' = Holds(v) /\ Holds(v) \cap Oldest = {} /\ Holds(v) \subseteq Entries
      BY <1>3, <1>4, <2>2, HeldAreEntries
    <3>2. \A e \in Holds(v) : status[e] \notin {"absent", "PENDING"}
      BY DEF ClaimInv
    <3> QED BY <1>5, <3>1, <3>2
  <2> QED BY <2>1, <2>2
<1>8. ASSUME NEW v \in Workers
      PROVE  /\ \A i, j \in batch'[v] : i.id = j.id => i = j
             /\ pc'[v] \in Marking => \A i \in batch'[v] : i.id # entry'[v].id
  <2>1. CASE v = w
    BY <1>1, <1>2, <2>1 DEF TypeOK, Marking
  <2>2. CASE v # w
    BY <1>2, <2>2 DEF ClaimInv, TypeOK
  <2> QED BY <2>1, <2>2
<1> QED BY <1>6, <1>7, <1>8 DEF ClaimInv

\* Publishing moves one row of the worker from its batch into its hands.
LEMMA PublishHolds ==
  ASSUME TypeOK, ClaimInv, NEW w \in Workers, NEW l \in Marking, NEW i \in batch[w],
         TakeUp(w, i), pc' = [pc EXCEPT ![w] = l]
  PROVE  /\ \A v \in Workers : Holds(v)' = Holds(v)
         /\ \A v \in Workers \ {w} : batch'[v] = batch[v] /\ entry'[v] = entry[v]
                                     /\ pc'[v] = pc[v]
         /\ batch'[w] = batch[w] \ {i} /\ entry'[w] = i
         /\ \A j \in batch'[w] : j.id # i.id
         /\ i.id \in Holds(w)
<1>1. /\ pc'[w] = l /\ batch'[w] = batch[w] \ {i} /\ entry'[w] = i /\ pc[w] = "publish"
      /\ \A v \in Workers \ {w} : batch'[v] = batch[v] /\ entry'[v] = entry[v]
                                  /\ pc'[v] = pc[v]
  BY DEF TypeOK, TakeUp
<1>2. \A v \in Workers \ {w} : Holds(v)' = Holds(v)
  BY <1>1 DEF Holds
<1>3. Holds(w)' = Holds(w)
  BY <1>1 DEF Holds, Marking
<1> QED BY <1>1, <1>2, <1>3 DEF ClaimInv, Holds

\* After a mark the worker no longer holds the row it marked.
LEMMA MarkHolds ==
  ASSUME TypeOK, SentInv, ClaimInv, NEW w \in Workers, pc[w] \in Marking,
         UNCHANGED entry, batch' = batch, NextEntry(w)
  PROVE  /\ Holds(w)' = Holds(w) \ {entry[w].id}
         /\ \A v \in Workers \ {w} : Holds(v)' = Holds(v) /\ pc'[v] = pc[v]
         /\ pc'[w] \notin Marking
         /\ entry[w].id \in Holds(w)
BY DEF TypeOK, ClaimInv, NextEntry, Holds, Marking

\* A worker that dies or gives up holds nothing.
LEMMA AbandonHolds ==
  ASSUME TypeOK, NEW w \in Workers, Abandon(w)
  PROVE  /\ Holds(w)' = {} /\ batch'[w] = {} /\ pc'[w] \notin Marking
         /\ \A v \in Workers \ {w} : Holds(v)' = Holds(v) /\ pc'[v] = pc[v]
                                     /\ batch'[v] = batch[v]
BY DEF TypeOK, Abandon, Holds, Marking

\* Only a claim gives rows to a worker, and only the worker that holds a row makes it
\* PENDING again.
LEMMA StepClaims ==
  ASSUME ~SweepScheduled, TypeOK, SentInv, ClaimInv, [Next]_vars
  PROVE  ClaimInv'
<1>1. CASE \E w \in Workers : ProcessOutbox(w)
  <2> PICK w \in Workers : ProcessOutbox(w)
    BY <1>1
  <2>1. CASE ClaimPendingEntries(w)
    BY <2>1, ClaimKeepsClaims
  <2>2. CASE Publish(w) \/ PublishThrows(w)
    <3>1. PICK i \in batch[w], l \in Marking :
            TakeUp(w, i) /\ pc' = [pc EXCEPT ![w] = l] /\ UNCHANGED status
      BY <2>2 DEF Publish, PublishThrows, Marking
    <3>2. /\ \A v \in Workers : Holds(v)' = Holds(v)
          /\ \A v \in Workers \ {w} : batch'[v] = batch[v] /\ entry'[v] = entry[v]
                                      /\ pc'[v] = pc[v]
          /\ batch'[w] = batch[w] \ {i} /\ entry'[w] = i
          /\ \A j \in batch'[w] : j.id # i.id
      BY <3>1, PublishHolds
    <3> QED BY <3>1, <3>2 DEF ClaimInv, OneClaimant
  <2>3. CASE MarkPublished(w) \/ MarkFailed(w)
    <3>1. /\ pc[w] \in Marking /\ UNCHANGED <<entry, batch>> /\ NextEntry(w)
          /\ \A e \in Entries \ {entry[w].id} : status'[e] = status[e]
      BY <2>3 DEF MarkPublished, SetPublished, MarkFailed, SetFailed, Marking, TypeOK
    <3>2. \A v \in Workers : Holds(v)' \subseteq Holds(v) \ {entry[w].id}
      BY <3>1, MarkHolds DEF ClaimInv, OneClaimant
    <3> QED BY <3>1, <3>2, MarkHolds, HeldAreEntries DEF ClaimInv, OneClaimant
  <2> QED BY <2>1, <2>2, <2>3 DEF ProcessOutbox
<1>2. CASE \E w \in Workers : Disturb(w)
  <2> PICK w \in Workers : Disturb(w)
    BY <1>2
  <2>1. CASE ClaimReplyLost(w)
    BY <2>1, HeldAreEntries DEF ClaimReplyLost, Flip, ClaimInv, OneClaimant, Holds, TypeOK
  <2>2. CASE MarkPublishedThrows(w)
    <3>1. /\ pc[w] \in Marking /\ pc'[w] \in Marking /\ UNCHANGED <<entry, batch>>
          /\ \A v \in Workers : Holds(v)' = Holds(v)
          /\ \A v \in Workers \ {w} : pc'[v] = pc[v]
          /\ \A e \in Entries : status'[e] = status[e] \/ status'[e] = "PUBLISHED"
      BY <2>2 DEF MarkPublishedThrows, SetPublished, Holds, Marking, TypeOK
    <3> QED BY <3>1, HeldAreEntries DEF ClaimInv, OneClaimant
  <2>3. CASE MarkFailedThrows(w)
    <3>1. /\ pc[w] \in Marking /\ Abandon(w)
          /\ \A e \in Entries \ {entry[w].id} : status'[e] = status[e]
      BY <2>3 DEF MarkFailedThrows, SetFailed, Marking, TypeOK
    <3>2. \A v \in Workers \ {w} : entry[w].id \notin Holds(v)
      BY <3>1 DEF ClaimInv, OneClaimant, Holds, Marking
    <3>3. entry' = entry
      BY <3>1 DEF Abandon
    <3> QED BY <3>1, <3>2, <3>3, AbandonHolds, HeldAreEntries DEF ClaimInv, OneClaimant
  <2>4. CASE Crash(w)
    <3>1. Abandon(w) /\ UNCHANGED <<status, entry>>
      BY <2>4 DEF Crash, Abandon
    <3> QED BY <3>1, AbandonHolds DEF ClaimInv, OneClaimant
  <2> QED BY <2>1, <2>2, <2>3, <2>4 DEF Disturb
<1>3. CASE \E e \in Entries : AddToOutbox(e) \/ Age(e)
  <2>1. UNCHANGED <<pc, batch, entry>> /\ \A v \in Workers : Holds(v)' = Holds(v)
    BY <1>3 DEF AddToOutbox, Age, Holds
  <2>2. \A e \in Entries : status[e] # "absent" => status'[e] = status[e]
    BY <1>3 DEF AddToOutbox, Age, TypeOK
  <2> QED BY <2>1, <2>2, HeldAreEntries DEF ClaimInv, OneClaimant
<1>4. CASE UNCHANGED vars
  BY <1>4 DEF ClaimInv, OneClaimant, Holds
<1> QED BY <1>1, <1>2, <1>3, <1>4 DEF Next, RecoverStuckEntries

\* A delivery is within the retries left to the row that is delivered.
LEMMA PublishKeepsRetries ==
  ASSUME TypeOK, SentInv, ClaimInv, RetryInv, NEW w \in Workers,
         Publish(w) \/ PublishThrows(w)
  PROVE  RetryInv'
<1>1. PICK i \in batch[w], l \in Marking :
        /\ TakeUp(w, i) /\ pc' = [pc EXCEPT ![w] = l] /\ UNCHANGED <<status, retryCount>>
        /\ Deliver(i.id) \/ UNCHANGED sent
  BY DEF Publish, PublishThrows, Marking
<1>2. /\ i \in Snapshots /\ i.id \in Entries /\ i.retryCount \in Nat
      /\ sent[i.id] <= i.retryCount /\ i.retryCount < MaxRetries
  BY <1>1 DEF TypeOK, RetryInv, Snapshots
<1>3. /\ sent'[i.id] <= i.retryCount + 1
      /\ \A e \in Entries \ {i.id} : sent'[e] = sent[e]
  BY <1>1, <1>2 DEF TypeOK, Deliver
<1>4. /\ \A v \in Workers \ {w} : batch'[v] = batch[v] /\ entry'[v] = entry[v]
                                  /\ pc'[v] = pc[v]
      /\ batch'[w] = batch[w] \ {i} /\ entry'[w] = i
      /\ \A j \in batch'[w] : j.id # i.id
      /\ i.id \in Holds(w)
  BY <1>1, PublishHolds
<1>5. SendsWithinRetries'
  <2>1. sent[i.id] \in Nat /\ sent'[i.id] \in Nat
    BY <1>1, <1>2 DEF TypeOK, Deliver
  <2>2. sent'[i.id] <= MaxRetries
    BY <1>2, <1>3, <2>1, OutboxAssumption
  <2> QED BY <1>3, <2>2 DEF RetryInv, SendsWithinRetries
<1>6. \A e \in Entries : status'[e] \in {"absent", "PENDING"} =>
        sent'[e] <= retryCount'[e] /\ retryCount'[e] < MaxRetries
  BY <1>1, <1>3, <1>4 DEF RetryInv, ClaimInv
<1>7. ASSUME NEW v \in Workers
      PROVE  /\ \A j \in batch'[v] :
                  sent'[j.id] <= j.retryCount /\ j.retryCount < MaxRetries
             /\ pc'[v] \in Marking => /\ sent'[entry'[v].id] <= entry'[v].retryCount + 1
                                      /\ entry'[v].retryCount < MaxRetries
  <2>1. CASE v = w
    BY <1>2, <1>3, <1>4, <2>1 DEF RetryInv, TypeOK, Snapshots
  <2>2. CASE v # w
    <3>1. i.id \notin Holds(v)
      BY <1>4, <2>2 DEF ClaimInv, OneClaimant
    <3>2. /\ \A j \in batch[v] : j.id # i.id /\ j.id \in Entries
          /\ pc[v] \in Marking => entry[v].id # i.id /\ entry[v].id \in Entries
      BY <3>1 DEF Holds, Marking, TypeOK, SentInv, Snapshots
    <3> QED BY <1>3, <1>4, <2>2, <3>2 DEF RetryInv
  <2> QED BY <2>1, <2>2
<1> QED BY <1>5, <1>6, <1>7 DEF RetryInv

\* A row that goes back to PENDING has retries left, and its count covers what was sent.
LEMMA SetFailedFacts ==
  ASSUME TypeOK, SentInv, RetryInv, NEW w \in Workers, pc[w] \in Marking,
         SetFailed(entry[w])
  PROVE  LET e == entry[w].id IN
         /\ status'[e] = "PENDING" =>
              sent[e] <= retryCount'[e] /\ retryCount'[e] < MaxRetries
         /\ status'[e] # "absent"
         /\ \A d \in Entries \ {e} :
              status'[d] = status[d] /\ retryCount'[d] = retryCount[d]
<1>1. entry[w].id \in Entries /\ entry[w].retryCount \in Nat
  BY DEF SentInv, Snapshots
<1> QED BY <1>1, OutboxAssumption DEF SetFailed, RetryInv, TypeOK

\* Deliveries and retry counts keep pace.
LEMMA StepRetries ==
  ASSUME ~SweepScheduled, TypeOK, SentInv, ClaimInv, RetryInv, [Next]_vars
  PROVE  RetryInv'
<1>1. CASE \E w \in Workers : ProcessOutbox(w)
  <2> PICK w \in Workers : ProcessOutbox(w)
    BY <1>1
  <2>1. CASE ClaimPendingEntries(w)
    <3>1. \A i \in batch'[w] : i.id \in Entries /\ status[i.id] = "PENDING"
                               /\ i.retryCount = retryCount[i.id]
      BY <2>1, ReturningFacts, OldestFacts DEF TypeOK, ClaimPendingEntries, Pending
    <3>2. /\ pc' = [pc EXCEPT ![w] = "publish"]
          /\ UNCHANGED <<entry, sent, retryCount>>
          /\ \A v \in Workers \ {w} : batch'[v] = batch[v]
          /\ status' = [e \in Entries |-> IF e \in Oldest THEN "PROCESSING" ELSE status[e]]
      BY <2>1 DEF TypeOK, ClaimPendingEntries, Flip
    <3>3. \A v \in Workers : pc'[v] \in Marking => pc[v] \in Marking
      BY <3>2 DEF TypeOK, Marking
    <3> QED BY <3>1, <3>2, <3>3 DEF RetryInv, SendsWithinRetries
  <2>2. CASE Publish(w) \/ PublishThrows(w)
    BY <2>2, PublishKeepsRetries
  <2>3. CASE MarkPublished(w)
    <3>1. \A v \in Workers : pc'[v] \in Marking => pc[v] \in Marking
      BY <2>3 DEF MarkPublished, NextEntry, TypeOK, Marking
    <3>2. \A e \in Entries : status'[e] = status[e] \/ status'[e] = "PUBLISHED"
      BY <2>3 DEF MarkPublished, SetPublished, TypeOK
    <3>3. UNCHANGED <<retryCount, batch, entry, sent>>
      BY <2>3 DEF MarkPublished, SetPublished
    <3> QED BY <3>1, <3>2, <3>3 DEF RetryInv, SendsWithinRetries
  <2>4. CASE MarkFailed(w)
    <3>1. \A v \in Workers : pc'[v] \in Marking => pc[v] \in Marking
      BY <2>4 DEF MarkFailed, NextEntry, TypeOK, Marking
    <3>2. pc[w] \in Marking /\ SetFailed(entry[w]) /\ UNCHANGED <<batch, entry, sent>>
      BY <2>4 DEF MarkFailed, Marking
    <3> QED BY <3>1, <3>2, SetFailedFacts DEF RetryInv, SendsWithinRetries
  <2> QED BY <2>1, <2>2, <2>3, <2>4 DEF ProcessOutbox
<1>2. CASE \E w \in Workers : Disturb(w)
  <2> PICK w \in Workers : Disturb(w)
    BY <1>2
  <2>1. CASE ClaimReplyLost(w)
    <3>1. status' = [e \in Entries |-> IF e \in Oldest THEN "PROCESSING" ELSE status[e]]
          /\ UNCHANGED <<worker, sent, retryCount>>
      BY <2>1 DEF ClaimReplyLost, Flip
    <3> QED BY <3>1 DEF RetryInv, SendsWithinRetries
  <2>2. CASE MarkPublishedThrows(w)
    <3>1. \A v \in Workers : pc'[v] \in Marking => pc[v] \in Marking
      BY <2>2 DEF MarkPublishedThrows, TypeOK, Marking
    <3>2. \A e \in Entries : status'[e] = status[e] \/ status'[e] = "PUBLISHED"
      BY <2>2 DEF MarkPublishedThrows, SetPublished, TypeOK
    <3>3. UNCHANGED <<retryCount, batch, entry, sent>>
      BY <2>2 DEF MarkPublishedThrows, SetPublished
    <3> QED BY <3>1, <3>2, <3>3 DEF RetryInv, SendsWithinRetries
  <2>3. CASE MarkFailedThrows(w)
    <3>1. /\ pc[w] \in Marking /\ Abandon(w) /\ UNCHANGED <<entry, sent>>
          /\ SetFailed(entry[w]) \/ UNCHANGED table
      BY <2>3 DEF MarkFailedThrows, Abandon, Marking
    <3> QED BY <3>1, SetFailedFacts, AbandonHolds DEF RetryInv, SendsWithinRetries
  <2>4. CASE Crash(w)
    <3>1. Abandon(w) /\ UNCHANGED <<table, entry, sent>>
      BY <2>4 DEF Crash, Abandon
    <3> QED BY <3>1, AbandonHolds DEF RetryInv, SendsWithinRetries
  <2> QED BY <2>1, <2>2, <2>3, <2>4 DEF Disturb
<1>3. CASE \E e \in Entries : AddToOutbox(e) \/ Age(e)
  <2>1. /\ UNCHANGED <<retryCount, worker, sent>>
        /\ \A e \in Entries : status'[e] \in {"absent", "PENDING"} =>
                                status[e] \in {"absent", "PENDING"}
    BY <1>3 DEF AddToOutbox, Age, TypeOK
  <2> QED BY <2>1 DEF RetryInv, SendsWithinRetries
<1>4. CASE UNCHANGED vars
  BY <1>4 DEF RetryInv, SendsWithinRetries
<1> QED BY <1>1, <1>2, <1>3, <1>4 DEF Next, RecoverStuckEntries

\* What the deployed outbox keeps invariant.
DeployedInv == TypeOK /\ SentInv /\ ClaimInv /\ RetryInv

\* The invariant of the outbox as deployed.
THEOREM DeployedInvariance == ~SweepScheduled /\ Spec => []DeployedInv
<1> SUFFICES ASSUME ~SweepScheduled PROVE Spec => []DeployedInv
  OBVIOUS
<1>1. Init => TypeOK /\ SentInv
  BY OutboxAssumption
     DEF Init, TypeOK, SentInv, PublishedWasSent, Marking, Statuses, Snapshots
<1>2. Init => ClaimInv /\ RetryInv
  BY OutboxAssumption
     DEF Init, ClaimInv, OneClaimant, RetryInv, SendsWithinRetries, Holds, Marking
<1>3. DeployedInv /\ [Next]_vars => DeployedInv'
  BY StepTypes, StepSent, StepClaims, StepRetries DEF DeployedInv
<1> QED BY <1>1, <1>2, <1>3, PTL DEF Spec, DeployedInv

\* No two invocations of processOutbox, of any instance, ever hold the same row.
THEOREM ClaimsAreExclusive == ~SweepScheduled /\ Spec => []OneClaimant
<1>1. DeployedInv => OneClaimant
  BY DEF DeployedInv, ClaimInv
<1> QED BY <1>1, DeployedInvariance, PTL

\* The broker gets no row more often than OUTBOX_MAX_RETRIES.
THEOREM SendsAreBounded == ~SweepScheduled /\ Spec => []SendsWithinRetries
<1>1. DeployedInv => SendsWithinRetries
  BY DEF DeployedInv, RetryInv
<1> QED BY <1>1, DeployedInvariance, PTL

----------------------------------------------------------------------------
(* The deployed outbox implements Delivery. *)

\* What a worker has not yet taken up is PROCESSING; an idle one has nothing.
BatchInv ==
  \A w \in Workers :
    /\ \A i \in batch[w] : status[i.id] = "PROCESSING"
    /\ pc[w] = "idle" => batch[w] = {}

\* What a worker has not yet taken up stays PROCESSING, whatever the others do.
LEMMA StepBatch ==
  ASSUME ~SweepScheduled, TypeOK, SentInv, ClaimInv, BatchInv, [Next]_vars
  PROVE  BatchInv'
<1>1. ASSUME NEW w \in Workers, ClaimPendingEntries(w)
      PROVE  BatchInv'
  <2>1. \A i \in batch'[w] : i.id \in Oldest
    BY <1>1, ReturningFacts, OldestFacts DEF TypeOK, ClaimPendingEntries
  <2>2. /\ \A v \in Workers \ {w} : batch'[v] = batch[v] /\ pc'[v] = pc[v]
        /\ status' = [e \in Entries |-> IF e \in Oldest THEN "PROCESSING" ELSE status[e]]
        /\ pc'[w] = "publish"
    BY <1>1 DEF TypeOK, ClaimPendingEntries, Flip
  <2>3. \A v \in Workers : \A i \in batch[v] : i.id \in Entries
    BY DEF TypeOK, Snapshots
  <2> QED BY <2>1, <2>2, <2>3, OldestFacts DEF BatchInv
<1>2. ASSUME NEW w \in Workers, Publish(w) \/ PublishThrows(w)
      PROVE  BatchInv'
  <2>1. /\ status' = status
        /\ \A v \in Workers : batch'[v] \subseteq batch[v]
                              /\ (pc'[v] = "idle" => pc[v] = "idle")
    BY <1>2 DEF Publish, PublishThrows, TakeUp, TypeOK
  <2> QED BY <2>1 DEF BatchInv
<1>3. ASSUME NEW w \in Workers, pc[w] \in Marking,
             \A v \in Workers : batch'[v] \subseteq batch[v],
             \A e \in Entries \ {entry[w].id} : status'[e] = status[e],
             \A v \in Workers \ {w} : pc'[v] = pc[v],
             batch'[w] = {} \/ (batch'[w] = batch[w] /\ pc'[w] # "idle")
      PROVE  BatchInv'
  <2>1. ASSUME NEW v \in Workers, NEW i \in batch'[v]
        PROVE  i.id \in Entries /\ i.id # entry[w].id
    <3>1. i \in batch[v] /\ i.id \in Entries
      BY <1>3, <2>1 DEF TypeOK, Snapshots
    <3>2. CASE v = w
      BY <1>3, <3>1, <3>2 DEF ClaimInv
    <3>3. CASE v # w
      BY <1>3, <3>1, <3>3 DEF ClaimInv, OneClaimant, Holds, Marking
    <3> QED BY <3>1, <3>2, <3>3
  <2> QED BY <1>3, <2>1 DEF BatchInv
<1>4. ASSUME NEW w \in Workers, MarkPublished(w) \/ MarkFailed(w) \/ MarkPublishedThrows(w)
      PROVE  BatchInv'
  <2>1. /\ pc[w] \in Marking /\ batch' = batch
        /\ \A e \in Entries \ {entry[w].id} : status'[e] = status[e]
        /\ \A v \in Workers \ {w} : pc'[v] = pc[v]
        /\ batch[w] = {} \/ pc'[w] # "idle"
    BY <1>4 DEF MarkPublished, MarkFailed, MarkPublishedThrows, SetPublished, SetFailed,
                NextEntry, Marking, TypeOK
  <2> QED BY <1>3, <2>1
<1>5. ASSUME NEW w \in Workers, MarkFailedThrows(w)
      PROVE  BatchInv'
  <2>1. /\ pc[w] \in Marking /\ Abandon(w)
        /\ \A e \in Entries \ {entry[w].id} : status'[e] = status[e]
    BY <1>5 DEF MarkFailedThrows, SetFailed, Marking, TypeOK
  <2>2. /\ batch'[w] = {} /\ \A v \in Workers : batch'[v] \subseteq batch[v]
        /\ \A v \in Workers \ {w} : pc'[v] = pc[v]
    BY <2>1, AbandonHolds
  <2> QED BY <1>3, <2>1, <2>2
<1>6. ASSUME NEW w \in Workers, Crash(w)
      PROVE  BatchInv'
  <2>1. /\ status' = status /\ batch'[w] = {}
        /\ \A v \in Workers : batch'[v] \subseteq batch[v]
        /\ \A v \in Workers \ {w} : pc'[v] = pc[v]
    BY <1>6, AbandonHolds DEF Crash
  <2> QED BY <2>1 DEF BatchInv
<1>7. ASSUME NEW w \in Workers, ClaimReplyLost(w)
      PROVE  BatchInv'
  <2>1. /\ batch' = batch /\ pc' = pc
        /\ status' = [e \in Entries |-> IF e \in Oldest THEN "PROCESSING" ELSE status[e]]
    BY <1>7 DEF ClaimReplyLost, Flip
  <2>2. \A v \in Workers : \A i \in batch[v] : i.id \in Entries
    BY DEF TypeOK, Snapshots
  <2> QED BY <2>1, <2>2 DEF BatchInv
<1>8. CASE \E e \in Entries : AddToOutbox(e) \/ Age(e)
  <2>1. /\ batch' = batch /\ pc' = pc
        /\ \A e \in Entries : status[e] # "absent" => status'[e] = status[e]
    BY <1>8 DEF AddToOutbox, Age, TypeOK
  <2>2. \A v \in Workers : \A i \in batch[v] : i.id \in Entries
    BY DEF TypeOK, Snapshots
  <2> QED BY <2>1, <2>2 DEF BatchInv
<1>9. CASE UNCHANGED vars
  BY <1>9 DEF BatchInv
<1> QED BY <1>1, <1>2, <1>4, <1>5, <1>6, <1>7, <1>8, <1>9
        DEF Next, ProcessOutbox, Disturb, RecoverStuckEntries

Held(e) == \E w \in Workers : e \in Holds(w)

\* A row that is held is open; one that is not is what its mark says.
LEMMA Outcomes ==
  ASSUME ClaimInv, NEW e \in Entries
  PROVE  /\ Held(e) => OutcomeOf(e) = "open"
         /\ OutcomeOf(e) = "absent" <=> status[e] = "absent"
         /\ status[e] \in {"PENDING", "PROCESSING"} => OutcomeOf(e) = "open"
<1>1. Held(e) => status[e] # "absent"
  BY DEF ClaimInv, Held
<1> QED BY <1>1 DEF OutcomeOf, Held

\* The event of a row changes only with its status or with who holds it.
LEMMA OutcomeStays ==
  ASSUME NEW e \in Entries, status'[e] = status[e],
         (Held(e)' <=> Held(e)) \/ status[e] \notin {"PUBLISHED", "FAILED"}
  PROVE  OutcomeOf(e)' = OutcomeOf(e)
<1>1. CASE Held(e)' <=> Held(e)
  BY <1>1 DEF OutcomeOf, Held
<1>2. CASE status[e] \notin {"PUBLISHED", "FAILED"}
  BY <1>2 DEF OutcomeOf
<1> QED BY <1>1, <1>2

\* Where only one row that is held may change, and nothing is sent, its event is settled
\* at most.
LEMMA LettingGo ==
  ASSUME ClaimInv, PublishedWasSent', UNCHANGED sent,
         NEW d \in Entries, Held(d), status'[d] # "absent",
         \A e \in Entries \ {d} : OutcomeOf(e)' = OutcomeOf(e)
  PROVE  [D!Next]_(D!vars)
<1>1. OutcomeOf(d) = "open"
  BY Outcomes
<1>2. OutcomeOf(d)' \in {"open", "published", "dead"}
  BY DEF OutcomeOf
<1>3. OutcomeOf(d)' = "published" => sent[d] > 0
  BY DEF OutcomeOf, PublishedWasSent
<1>4. /\ Outcome = [e \in Entries |-> OutcomeOf(e)]
      /\ Outcome' = [e \in Entries |-> OutcomeOf(e)']
  BY DEF Outcome
<1>5. Outcome[d] = "open" /\ Outcome' = [Outcome EXCEPT ![d] = OutcomeOf(d)']
  BY <1>1, <1>4
<1>6. CASE OutcomeOf(d)' = "open"
  BY <1>1, <1>4, <1>6 DEF D!vars
<1>7. CASE OutcomeOf(d)' \in {"published", "dead"}
  BY <1>3, <1>5, <1>7 DEF D!Next, D!Settle
<1> QED BY <1>2, <1>6, <1>7

\* Every step of the poll is one of Delivery, or none.
LEMMA StepDelivers ==
  ASSUME ~SweepScheduled, DeployedInv, BatchInv, DeployedInv', [Next]_vars
  PROVE  [D!Next]_(D!vars)
<1> USE DEF DeployedInv
<1>0. ASSUME UNCHANGED sent, \A e \in Entries : OutcomeOf(e)' = OutcomeOf(e)
      PROVE  UNCHANGED D!vars
  BY <1>0 DEF D!vars, Outcome
<1>1. ASSUME NEW w \in Workers, ClaimPendingEntries(w) \/ ClaimReplyLost(w)
      PROVE  UNCHANGED D!vars
  <2>1. /\ status' = [e \in Entries |-> IF e \in Oldest THEN "PROCESSING" ELSE status[e]]
        /\ sent' = sent /\ \A v \in Workers \ {w} : Holds(v)' = Holds(v)
    BY <1>1 DEF ClaimPendingEntries, ClaimReplyLost, Flip, Holds, TypeOK
  <2>2. Holds(w) \subseteq Holds(w)' /\ Holds(w)' \subseteq Holds(w) \cup Oldest
    <3>1. CASE ClaimPendingEntries(w)
      <4>1. /\ \A i \in batch'[w] : i.id \in Oldest
            /\ pc' = [pc EXCEPT ![w] = "publish"] /\ pc[w] = "idle" /\ batch[w] = {}
        BY <3>1, ReturningFacts, OldestFacts DEF TypeOK, ClaimPendingEntries, BatchInv
      <4>2. Holds(w) = {}
        BY <4>1 DEF Holds
      <4>3. Holds(w)' \subseteq Oldest
        BY <4>1 DEF Holds, TypeOK
      <4> QED BY <4>2, <4>3
    <3>2. CASE ClaimReplyLost(w)
      BY <3>2 DEF ClaimReplyLost, Holds
    <3> QED BY <1>1, <3>1, <3>2
  <2>3. ASSUME NEW e \in Entries PROVE OutcomeOf(e)' = OutcomeOf(e)
    <3>1. CASE e \in Oldest
      BY <2>1, <3>1, OldestFacts DEF Pending, OutcomeOf
    <3>2. CASE e \notin Oldest
      <4>1. Held(e)' <=> Held(e)
        BY <2>1, <2>2, <3>2 DEF Held
      <4> QED BY <2>1, <3>2, <4>1, OutcomeStays
    <3> QED BY <3>1, <3>2
  <2> QED BY <1>0, <2>1, <2>3
<1>2. ASSUME NEW w \in Workers, Publish(w) \/ PublishThrows(w)
      PROVE  [D!Next]_(D!vars)
  <2>1. PICK i \in batch[w], l \in Marking :
          /\ TakeUp(w, i) /\ pc' = [pc EXCEPT ![w] = l] /\ UNCHANGED status
          /\ Deliver(i.id) \/ UNCHANGED sent
    BY <1>2 DEF Publish, PublishThrows, Marking
  <2>2. /\ \A v \in Workers : Holds(v)' = Holds(v)
        /\ i.id \in Holds(w)
    BY <2>1, PublishHolds
  <2>3. ASSUME NEW e \in Entries PROVE OutcomeOf(e)' = OutcomeOf(e)
    <3>1. Held(e)' <=> Held(e)
      BY <2>2 DEF Held
    <3> QED BY <2>1, <3>1, OutcomeStays
  <2>4. i.id \in Entries /\ i.retryCount \in Nat
        /\ sent[i.id] <= i.retryCount /\ i.retryCount < MaxRetries
    BY <2>1 DEF RetryInv, TypeOK, Snapshots
  <2>5. sent[i.id] < MaxRetries /\ OutcomeOf(i.id) = "open"
    <3>1. sent[i.id] \in Nat /\ MaxRetries \in Nat
      BY <2>4, OutboxAssumption DEF TypeOK
    <3>2. Held(i.id)
      BY <2>2 DEF Held
    <3> QED BY <2>4, <3>1, <3>2, Outcomes
  <2>6. CASE UNCHANGED sent
    BY <1>0, <2>3, <2>6
  <2>7. CASE Deliver(i.id)
    <3>1. Outcome' = Outcome /\ Outcome[i.id] = "open"
      BY <2>3, <2>4, <2>5 DEF Outcome
    <3> QED BY <2>4, <2>5, <2>7, <3>1 DEF Deliver, D!Next, D!Receive
  <2> QED BY <2>1, <2>6, <2>7
<1>3. ASSUME NEW w \in Workers, pc[w] \in Marking, UNCHANGED sent,
             \A e \in Entries \ {entry[w].id} : status'[e] = status[e],
             status'[entry[w].id] # "absent",
             \A v \in Workers \ {w} : Holds(v)' = Holds(v),
             \A e \in Holds(w) \ Holds(w)' : e = entry[w].id \/ status[e] = "PROCESSING",
             Holds(w)' \subseteq Holds(w)
      PROVE  [D!Next]_(D!vars)
  <2>1. PICK d \in Entries : d = entry[w].id
    BY <1>3 DEF SentInv, Snapshots
  <2>2. Held(d)
    BY <1>3, <2>1 DEF Held, Holds, Marking
  <2>3. ASSUME NEW e \in Entries \ {d} PROVE OutcomeOf(e)' = OutcomeOf(e)
    <3>1. CASE e \in Holds(w) \ Holds(w)'
      BY <1>3, <2>1, <2>3, <3>1, OutcomeStays
    <3>2. CASE e \notin Holds(w) \ Holds(w)'
      <4>1. Held(e)' <=> Held(e)
        BY <1>3, <3>2 DEF Held
      <4> QED BY <1>3, <2>1, <2>3, <4>1, OutcomeStays
    <3> QED BY <3>1, <3>2
  <2>4. ClaimInv /\ PublishedWasSent'
    BY DEF SentInv
  <2> QED BY <1>3, <2>1, <2>2, <2>3, <2>4, LettingGo
<1>4. ASSUME NEW w \in Workers, MarkPublished(w) \/ MarkFailed(w)
      PROVE  [D!Next]_(D!vars)
  <2>1. /\ pc[w] \in Marking /\ UNCHANGED <<entry, batch, sent>> /\ NextEntry(w)
        /\ \A e \in Entries \ {entry[w].id} : status'[e] = status[e]
    BY <1>4 DEF MarkPublished, SetPublished, MarkFailed, SetFailed, Marking, TypeOK
  <2>2. status'[entry[w].id] # "absent"
    BY <1>4, <2>1 DEF MarkPublished, SetPublished, MarkFailed, SetFailed, TypeOK, SentInv,
                      Snapshots
  <2>3. /\ Holds(w)' = Holds(w) \ {entry[w].id}
        /\ \A v \in Workers \ {w} : Holds(v)' = Holds(v)
    BY <2>1, MarkHolds
  <2> QED BY <1>3, <2>1, <2>2, <2>3
<1>5. ASSUME NEW w \in Workers, MarkPublishedThrows(w)
      PROVE  [D!Next]_(D!vars)
  <2>1. /\ pc[w] \in Marking /\ UNCHANGED sent
        /\ \A e \in Entries \ {entry[w].id} : status'[e] = status[e]
        /\ \A v \in Workers : Holds(v)' = Holds(v)
    BY <1>5 DEF MarkPublishedThrows, SetPublished, Marking, TypeOK, Holds
  <2>2. status'[entry[w].id] # "absent"
    <3>1. entry[w].id \in Holds(w) /\ entry[w].id \in Entries
      BY <2>1 DEF Holds, Marking, SentInv, Snapshots
    <3> QED BY <1>5, <3>1 DEF MarkPublishedThrows, SetPublished, TypeOK, ClaimInv
  <2> QED BY <1>3, <2>1, <2>2
<1>6. ASSUME NEW w \in Workers, MarkFailedThrows(w) \/ Crash(w)
      PROVE  [D!Next]_(D!vars)
  <2>1. /\ Abandon(w) /\ UNCHANGED sent
        /\ pc[w] \in Marking =>
             \A e \in Entries \ {entry[w].id} : status'[e] = status[e]
        /\ pc[w] \notin Marking => status' = status
        /\ Holds(w)' = {} /\ \A v \in Workers \ {w} : Holds(v)' = Holds(v)
    BY <1>6, AbandonHolds DEF MarkFailedThrows, SetFailed, Crash, Marking, TypeOK
  <2>2. \A e \in Holds(w) :
          (pc[w] \in Marking /\ e = entry[w].id) \/ status[e] = "PROCESSING"
    BY DEF Holds, BatchInv, Marking
  <2>3. CASE pc[w] \in Marking
    <3>1. entry[w].id \in Holds(w) /\ entry[w].id \in Entries
      BY <2>3 DEF Holds, Marking, SentInv, Snapshots
    <3>2. status'[entry[w].id] # "absent"
      BY <1>6, <3>1 DEF MarkFailedThrows, SetFailed, Crash, TypeOK, ClaimInv
    <3> QED BY <1>3, <2>1, <2>2, <2>3, <3>2
  <2>4. CASE pc[w] \notin Marking
    <3>1. ASSUME NEW e \in Entries PROVE OutcomeOf(e)' = OutcomeOf(e)
      <4>1. CASE e \in Holds(w)
        BY <2>1, <2>2, <2>4, <4>1, OutcomeStays
      <4>2. CASE e \notin Holds(w)
        <5>1. Held(e)' <=> Held(e)
          BY <2>1, <4>2 DEF Held
        <5> QED BY <2>1, <2>4, <5>1, OutcomeStays
      <4> QED BY <4>1, <4>2
    <3> QED BY <1>0, <2>1, <3>1
  <2> QED BY <2>3, <2>4
<1>7. ASSUME NEW e \in Entries, AddToOutbox(e)
      PROVE  [D!Next]_(D!vars)
  <2>1. /\ status[e] = "absent" /\ status' = [status EXCEPT ![e] = "PENDING"]
        /\ sent' = sent /\ \A v \in Workers : Holds(v)' = Holds(v)
    BY <1>7 DEF AddToOutbox, Holds
  <2>2. OutcomeOf(e) = "absent" /\ OutcomeOf(e)' = "open"
    BY <2>1 DEF OutcomeOf, TypeOK
  <2>3. ASSUME NEW d \in Entries \ {e} PROVE OutcomeOf(d)' = OutcomeOf(d)
    <3>1. (Held(d)' <=> Held(d)) /\ status'[d] = status[d]
      BY <2>1 DEF Held, TypeOK
    <3> QED BY <3>1, OutcomeStays
  <2>4. /\ Outcome = [d \in Entries |-> OutcomeOf(d)]
        /\ Outcome' = [d \in Entries |-> OutcomeOf(d)']
    BY DEF Outcome
  <2>5. Outcome[e] = "absent" /\ Outcome' = [Outcome EXCEPT ![e] = "open"]
    BY <2>2, <2>3, <2>4
  <2> QED BY <2>1, <2>5 DEF D!Next, D!Write
<1>8. ASSUME (\E e \in Entries : Age(e)) \/ UNCHANGED vars
      PROVE  UNCHANGED D!vars
  <2>1. UNCHANGED <<status, sent>> /\ \A v \in Workers : Holds(v)' = Holds(v)
    BY <1>8 DEF Age, Holds
  <2>2. ASSUME NEW e \in Entries PROVE OutcomeOf(e)' = OutcomeOf(e)
    BY <2>1, OutcomeStays DEF Held
  <2> QED BY <1>0, <2>1, <2>2
<1> QED BY <1>1, <1>2, <1>4, <1>5, <1>6, <1>7, <1>8
        DEF Next, ProcessOutbox, Disturb, RecoverStuckEntries

\* As deployed, the outbox is Delivery: each event goes to the broker a bounded number of
\* times, and never again once its row is marked and let go of.
THEOREM DeliveryHolds == ~SweepScheduled /\ Spec => ImplementsDelivery
<1> SUFFICES ASSUME ~SweepScheduled PROVE Spec => ImplementsDelivery
  OBVIOUS
<1>1. Init => D!Init /\ BatchInv
  BY DEF Init, D!Init, BatchInv, Outcome, OutcomeOf
<1>2. DeployedInv /\ BatchInv /\ [Next]_vars => BatchInv'
  BY StepBatch DEF DeployedInv
<1>3. DeployedInv /\ DeployedInv' /\ BatchInv /\ [Next]_vars => [D!Next]_(D!vars)
  BY StepDelivers
<1>4. Spec => []DeployedInv
  BY DeployedInvariance, PTL
<1> QED BY <1>1, <1>2, <1>3, <1>4, PTL DEF Spec, ImplementsDelivery, D!Spec
=============================================================================
