------------------------------- MODULE Outbox -------------------------------
(***************************************************************************)
(* The transactional outbox: rows written with a posting are claimed in    *)
(* batches by the two-second poll of every instance, published to RabbitMQ *)
(* and marked. A worker is one invocation of processOutbox: the timer does *)
(* not wait for the one before, so an instance may run several.            *)
(***************************************************************************)
EXTENDS Integers, FiniteSets

CONSTANTS
  Entries,         \* the rows, numbered in the order of createdAt
  Workers,         \* invocations of processOutbox, over all instances
  MaxRetries,      \* OUTBOX_MAX_RETRIES
  Batch,           \* OUTBOX_BATCH_SIZE
  SweepScheduled,  \* whether anything calls recoverStuckEntries
  Faults,          \* which failures a run admits, a subset of FaultKinds
  MaxFaults        \* bound on crashes, lost statements and slow workers in a run

FaultKinds ==
  { "crash",   \* an instance dies
    "db",      \* a statement, or only its reply, is lost
    "broker",  \* a publish throws
    "slow" }   \* a worker outlives OUTBOX_STALE_AFTER_MS

ASSUME OutboxAssumption ==
  /\ Entries \subseteq Nat
  /\ MaxRetries \in Nat \ {0} /\ Batch \in Nat \ {0} /\ MaxFaults \in Nat
  /\ SweepScheduled \in BOOLEAN /\ Faults \subseteq FaultKinds

VARIABLES
  \* the table outbox_entries
  status, retryCount,
  claimedAt,  \* null, within the stale threshold, or beyond it
  \* of each worker
  pc,
  batch,      \* what it has claimed and not yet taken up, as it was read
  entry,      \* what it is publishing
  \* what the broker has received of each row, and the faults so far
  sent, faults

table == <<status, retryCount, claimedAt>>
worker == <<pc, batch, entry>>
vars == <<table, worker, sent, faults>>

Statuses == {"absent", "PENDING", "PROCESSING", "PUBLISHED", "FAILED"}
Snapshots == [id : Entries, retryCount : Nat]
NoEntry == [id |-> -1, retryCount |-> 0]

Init ==
  /\ status = [e \in Entries |-> "absent"]
  /\ retryCount = [e \in Entries |-> 0]
  /\ claimedAt = [e \in Entries |-> "null"]
  /\ pc = [w \in Workers |-> "idle"]
  /\ batch = [w \in Workers |-> {}]
  /\ entry = [w \in Workers |-> NoEntry]
  /\ sent = [e \in Entries |-> 0]
  /\ faults = 0

\* One more fault, of a kind the run admits.
Fault(kind) == kind \in Faults /\ faults < MaxFaults /\ faults' = faults + 1

----------------------------------------------------------------------------
\* addToOutbox, made visible by the commit of its posting. Transactions commit in
\* any order, whatever their createdAt.
AddToOutbox(e) ==
  /\ status[e] = "absent"
  /\ status' = [status EXCEPT ![e] = "PENDING"]
  /\ UNCHANGED <<retryCount, claimedAt, worker, sent, faults>>

\* Seeded bug: dead letters are claimed again.
PendingOrFailed == {e \in Entries : status[e] \in {"PENDING", "FAILED"}}

Pending == {e \in Entries : status[e] = "PENDING"}
Oldest == {e \in Pending : Cardinality({d \in Pending : d < e}) < Batch}

\* UPDATE ... WHERE id IN (SELECT ... FOR UPDATE SKIP LOCKED).
Flip(S) ==
  /\ status' = [e \in Entries |-> IF e \in S THEN "PROCESSING" ELSE status[e]]
  /\ claimedAt' = [e \in Entries |-> IF e \in S THEN "fresh" ELSE claimedAt[e]]

\* Seeded bug: RETURNING id.
ReturningIds(S) == {[id |-> e] : e \in S}

\* ... RETURNING *: the rows as they were claimed.
Returning(S) == {[id |-> e, retryCount |-> retryCount[e]] : e \in S}

\* Seeded bug: a SELECT of the PENDING rows, without the UPDATE.
ClaimByRead(w) ==
  /\ pc[w] = "idle" /\ Pending # {}
  /\ batch' = [batch EXCEPT ![w] = Returning(Oldest)]
  /\ pc' = [pc EXCEPT ![w] = "publish"]
  /\ UNCHANGED <<table, entry, sent, faults>>

ClaimPendingEntries(w) ==
  /\ pc[w] = "idle" /\ Pending # {}
  /\ Flip(Oldest)
  /\ batch' = [batch EXCEPT ![w] = Returning(Oldest)]
  /\ pc' = [pc EXCEPT ![w] = "publish"]
  /\ UNCHANGED <<retryCount, entry, sent, faults>>

\* The rows are claimed and the reply is lost: processOutbox rejects.
ClaimReplyLost(w) ==
  /\ pc[w] = "idle" /\ Pending # {}
  /\ Fault("db")
  /\ Flip(Oldest)
  /\ UNCHANGED <<retryCount, worker, sent>>

\* RETURNING promises no order: any row of the batch may be next.
TakeUp(w, i) ==
  /\ pc[w] = "publish" /\ i \in batch[w]
  /\ batch' = [batch EXCEPT ![w] = @ \ {i}]
  /\ entry' = [entry EXCEPT ![w] = i]

Deliver(e) == sent' = [sent EXCEPT ![e] = @ + 1]

Publish(w) ==
  \E i \in batch[w] :
    /\ TakeUp(w, i) /\ Deliver(i.id)
    /\ pc' = [pc EXCEPT ![w] = "markPublished"]
    /\ UNCHANGED <<table, faults>>

\* Seeded bug: the promise of publish is not awaited, its rejection not caught.
PublishUnawaited(w) ==
  /\ "broker" \in Faults
  /\ \E i \in batch[w] :
       /\ TakeUp(w, i)
       /\ pc' = [pc EXCEPT ![w] = "markPublished"]
       /\ UNCHANGED <<table, sent, faults>>

\* publish throws, whether or not the broker has the message.
PublishThrows(w) ==
  /\ "broker" \in Faults
  /\ \E i \in batch[w] :
       /\ TakeUp(w, i) /\ (Deliver(i.id) \/ UNCHANGED sent)
       /\ pc' = [pc EXCEPT ![w] = "markFailed"]
       /\ UNCHANGED <<table, faults>>

\* The loop goes on with the rest of the batch.
NextEntry(w) == pc' = [pc EXCEPT ![w] = IF batch[w] = {} THEN "idle" ELSE "publish"]

\* Both marks update by id, whatever the status has become.
SetPublished(e) ==
  /\ status' = [status EXCEPT ![e] = "PUBLISHED"]
  /\ claimedAt' = [claimedAt EXCEPT ![e] = "null"]
  /\ UNCHANGED retryCount

\* Seeded bug: > for >=.
SetFailedLate(i) ==
  LET n == i.retryCount + 1 IN
  /\ status' = [status EXCEPT ![i.id] = IF n > MaxRetries THEN "FAILED" ELSE "PENDING"]
  /\ retryCount' = [retryCount EXCEPT ![i.id] = n]
  /\ claimedAt' = [claimedAt EXCEPT ![i.id] = "null"]

\* The count is the one that was claimed, plus one.
SetFailed(i) ==
  LET n == i.retryCount + 1 IN
  /\ status' = [status EXCEPT ![i.id] = IF n >= MaxRetries THEN "FAILED" ELSE "PENDING"]
  /\ retryCount' = [retryCount EXCEPT ![i.id] = n]
  /\ claimedAt' = [claimedAt EXCEPT ![i.id] = "null"]

MarkPublished(w) ==
  /\ pc[w] = "markPublished"
  /\ SetPublished(entry[w].id) /\ NextEntry(w)
  /\ UNCHANGED <<batch, entry, sent, faults>>

\* The catch clause takes a failed markPublished for a failed publish.
MarkPublishedThrows(w) ==
  /\ pc[w] = "markPublished"
  /\ Fault("db")
  /\ SetPublished(entry[w].id) \/ UNCHANGED table
  /\ pc' = [pc EXCEPT ![w] = "markFailed"]
  /\ UNCHANGED <<batch, entry, sent>>

MarkFailed(w) ==
  /\ pc[w] = "markFailed"
  /\ SetFailed(entry[w]) /\ NextEntry(w)
  /\ UNCHANGED <<batch, entry, sent, faults>>

\* Whatever is left of the batch stays PROCESSING.
Abandon(w) ==
  /\ pc' = [pc EXCEPT ![w] = "idle"]
  /\ batch' = [batch EXCEPT ![w] = {}]
  /\ UNCHANGED entry

\* Nothing catches a failed markFailed: it ends the loop.
MarkFailedThrows(w) ==
  /\ pc[w] = "markFailed"
  /\ Fault("db")
  /\ SetFailed(entry[w]) \/ UNCHANGED table
  /\ Abandon(w)
  /\ UNCHANGED sent

\* An instance dies; another one, or the same restarted, goes on polling.
Crash(w) ==
  /\ pc[w] # "idle"
  /\ Fault("crash")
  /\ Abandon(w)
  /\ UNCHANGED <<table, sent>>

----------------------------------------------------------------------------
\* The rows a worker still has before it, and the one in its hands.
Holds(w) ==
  {i.id : i \in batch[w]}
    \cup (IF pc[w] \in {"markPublished", "markFailed"} THEN {entry[w].id} ELSE {})

\* OUTBOX_STALE_AFTER_MS go by: for a row nobody holds, or under a slow worker.
Age(e) ==
  /\ claimedAt[e] = "fresh"
  /\ \/ (\A w \in Workers : e \notin Holds(w)) /\ UNCHANGED faults
     \/ (\E w \in Workers : e \in Holds(w)) /\ Fault("slow")
  /\ claimedAt' = [claimedAt EXCEPT ![e] = "stale"]
  /\ UNCHANGED <<status, retryCount, worker, sent>>

Revert(S) ==
  /\ S # {}
  /\ status' = [e \in Entries |-> IF e \in S THEN "PENDING" ELSE status[e]]
  /\ claimedAt' = [e \in Entries |-> IF e \in S THEN "null" ELSE claimedAt[e]]

\* Seeded bug: the comparison with the threshold is the wrong way round.
RecoverFreshEntries ==
  /\ SweepScheduled
  /\ Revert({e \in Entries : status[e] = "PROCESSING" /\ claimedAt[e] = "fresh"})
  /\ UNCHANGED <<retryCount, worker, sent, faults>>

RecoverStuckEntries ==
  /\ SweepScheduled
  /\ Revert({e \in Entries : status[e] = "PROCESSING" /\ claimedAt[e] = "stale"})
  /\ UNCHANGED <<retryCount, worker, sent, faults>>

----------------------------------------------------------------------------
\* processOutbox, as long as the database answers.
ProcessOutbox(w) ==
  ClaimPendingEntries(w) \/ Publish(w) \/ PublishThrows(w) \/ MarkPublished(w)
    \/ MarkFailed(w)

Disturb(w) ==
  ClaimReplyLost(w) \/ MarkPublishedThrows(w) \/ MarkFailedThrows(w) \/ Crash(w)

Next ==
  \/ \E w \in Workers : ProcessOutbox(w) \/ Disturb(w)
  \/ \E e \in Entries : AddToOutbox(e) \/ Age(e)
  \/ RecoverStuckEntries

Spec == Init /\ [][Next]_vars

\* Some instance polls and goes on, time passes, and the sweep, if scheduled, runs.
Fairness ==
  /\ \A w \in Workers : WF_vars(ProcessOutbox(w))
  /\ \A e \in Entries : WF_vars(Age(e))
  /\ WF_vars(RecoverStuckEntries)

FairSpec == Spec /\ Fairness

----------------------------------------------------------------------------
(* Properties. *)

\* Every variable has the type its column or local has.
TypeOK ==
  /\ status \in [Entries -> Statuses]
  /\ retryCount \in [Entries -> Nat]
  /\ claimedAt \in [Entries -> {"null", "fresh", "stale"}]
  /\ pc \in [Workers -> {"idle", "publish", "markPublished", "markFailed"}]
  /\ batch \in [Workers -> SUBSET Snapshots]
  /\ entry \in [Workers -> Snapshots \cup {NoEntry}]
  /\ sent \in [Entries -> Nat]
  /\ faults \in 0..MaxFaults

\* processOutbox: concurrent replicas "never see the same row twice". Holds while
\* nothing reverts a row under a live worker.
OneClaimant ==
  \A v, w \in Workers : v # w => Holds(v) \cap Holds(w) = {}

\* The broker gets a row at most MaxRetries times, a dead-lettered one included.
SendsWithinRetries == \A e \in Entries : sent[e] <= MaxRetries

\* A row is marked PUBLISHED only once the broker has it, even if crashes, the sweep
\* and a second claimant come in between.
PublishedWasSent == \A e \in Entries : status[e] = "PUBLISHED" => sent[e] > 0

\* OutboxStatus: PUBLISHED and FAILED are "Terminal".
TerminalStays ==
  [][ \A e \in Entries : status[e] \in {"PUBLISHED", "FAILED"} => status'[e] = status[e] ]_vars

\* What has become of the event of a row: settled is one that is marked and that no
\* worker has in its hands.
OutcomeOf(e) ==
  CASE status[e] = "absent" -> "absent"
    [] status[e] = "PUBLISHED" /\ (\A w \in Workers : e \notin Holds(w)) -> "published"
    [] status[e] = "FAILED" /\ (\A w \in Workers : e \notin Holds(w)) -> "dead"
    [] OTHER -> "open"

Outcome == [e \in Entries |-> OutcomeOf(e)]

D == INSTANCE Delivery WITH outcome <- Outcome, received <- sent

\* The poll implements Delivery: though PUBLISHED may become PENDING again after a lost
\* reply, no row is sent again once its worker has let go of it, published or dead.
ImplementsDelivery == D!Spec

\* recoverStuckEntries: "Periodically revert PROCESSING rows abandoned by a crashed
\* replica", so none is abandoned for good.
AbandonedIsReclaimed ==
  \A e \in Entries : status[e] = "PROCESSING" ~> status[e] # "PROCESSING"

\* With the sweep, every row that is written ends published or dead-lettered, whatever
\* crashes and lost statements happen on the way.
EverySettles ==
  \A e \in Entries : status[e] = "PENDING" ~> status[e] \in {"PUBLISHED", "FAILED"}
=============================================================================
