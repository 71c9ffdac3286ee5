------------------------ MODULE ReviewPipelineProofs ------------------------
(***************************************************************************)
(* First, what JobQueue's specification guarantees for every set of keys   *)
(* and workers, every max_attempts, lease length, backoff and batch size.  *)
(* Then what ReviewPipeline promises for any activities, attempts, leases  *)
(* and backoffs: every step of it is a step of the job queue, or leaves    *)
(* the queue alone, so what the first part proves holds here; and because  *)
(* one worker stores reviews, what it knows when it has loaded a job (there*)
(* is no review; the evidence is recorded by this attempt; there is a      *)
(* review) stays true until it answers, whatever the API, the clock and    *)
(* the housekeeping worker do meanwhile.                                   *)
(***************************************************************************)
EXTENDS ReviewPipeline, TLAPS

(***************************************************************************)
(* The job queue.                                                          *)
(***************************************************************************)
(* A row built from values of the columns is a row of the table.            *)
LEMMA RowType ==
  ASSUME NEW s \in States, NEW n \in Nat, NEW d \in 0..RetryCap,
         NEW b \in BOOLEAN, NEW o \in Workers \cup {NoWorker}, NEW l \in 0..LeaseCap,
         NEW e \in Categories \cup {NoError}
  PROVE  JobRow(s, n, d, b, o, l, e) \in Row
  BY DEF JobRow, Row

(* The ceiling of the backoff bounds every delay.                           *)
LEMMA BackoffType ==
  ASSUME NEW n \in Nat
  PROVE  Backoff(n) \in 0..DelayCap /\ Backoff(n) \in 0..RetryCap
  BY JobQueueAssumption DEF Backoff

(* The fields of a row have the types of their columns.                     *)
LEMMA RowFields ==
  ASSUME TypeOK, NEW k \in Keys
  PROVE  /\ row[k] \in Row
         /\ row[k].state \in States
         /\ row[k].attempts \in Nat
         /\ row[k].wait \in 0..RetryCap
         /\ row[k].rescheduled \in BOOLEAN
         /\ row[k].lease \in 0..LeaseCap
         /\ row[k].owner \in Workers \cup {NoWorker}
         /\ row[k].error \in Categories \cup {NoError}
  BY DEF TypeOK, Row

(* The values the operations assign lie in their columns.                   *)
LEMMA ColumnValues ==
  /\ 0 \in 0..RetryCap /\ DelayCap \in 0..RetryCap
  /\ 0 \in 0..LeaseCap /\ LeaseLength \in 0..LeaseCap
  /\ NoWorker \in Workers \cup {NoWorker}
  /\ \A d \in 0..RetryCap : Closer(d) \in 0..RetryCap
  /\ \A l \in 0..LeaseCap : Closer(l) \in 0..LeaseCap
  BY JobQueueAssumption DEF Closer

(* The rows the operations write are rows of the table.                     *)
LEMMA FinishedType ==
  ASSUME TypeOK, NEW k \in Keys, NEW s \in Terminal, NEW e \in Categories \cup {NoError}
  PROVE  Finished(k, s, e) \in Row
<1>1. s \in States
  BY DEF Terminal, States
<1> QED
  BY <1>1, RowFields, ColumnValues, RowType DEF Finished

LEMMA RequeuedType ==
  ASSUME TypeOK, NEW k \in Keys, NEW d \in 0..RetryCap, NEW e \in Categories
  PROVE  Requeued(k, d, e) \in Row
<1>1. "queued" \in States /\ e \in Categories \cup {NoError}
  BY DEF States
<1> QED
  BY <1>1, RowFields, ColumnValues, RowType DEF Requeued

LEMMA ClaimedType ==
  ASSUME TypeOK, NEW w \in Workers, NEW k \in Keys
  PROVE  Claimed(w, k) \in Row
<1>1. /\ "running" \in States /\ NoError \in Categories \cup {NoError}
      /\ w \in Workers \cup {NoWorker} /\ row[k].attempts + 1 \in Nat
  BY RowFields DEF States
<1> QED
  BY <1>1, RowFields, ColumnValues, RowType DEF Claimed

LEMMA ReclaimedType ==
  ASSUME TypeOK, NEW k \in Keys
  PROVE  Reclaimed(k) \in Row
<1>1. 0 \in 0..RetryCap
  BY JobQueueAssumption
<1> QED
  BY <1>1, FinishedType, RequeuedType DEF Reclaimed, Categories, Retryable, NotRetryable, Terminal

(* Every operation keeps the tables well typed.                             *)
LEMMA TypeStep == TypeOK /\ [Next]_queueVars => TypeOK'
<1> SUFFICES ASSUME TypeOK, [Next]_queueVars PROVE TypeOK'
  OBVIOUS
<1>1. ASSUME NEW k \in Keys, NEW same \in BOOLEAN, NEW delay \in {0, DelayCap},
             Enqueue(k, delay, same)
      PROVE  TypeOK'
  <2>1. delay \in 0..RetryCap
    BY JobQueueAssumption
  <2>2. "queued" \in States /\ NoError \in Categories \cup {NoError}
    BY DEF States
  <2>3. JobRow("queued", 0, delay, FALSE, NoWorker, 0, NoError) \in Row
    BY <2>1, <2>2, ColumnValues, RowType
  <2>4. row' \in [Keys -> Row]
    BY <1>1, <2>3 DEF Enqueue, TypeOK
  <2>5. outbox' \subseteq Keys \X EventTypes \X Nat
    <3>1. <<k, "queued", 0>> \in Keys \X EventTypes \X Nat
      BY DEF EventTypes
    <3> QED
      BY <1>1, <3>1 DEF Enqueue, TypeOK, StatusEvent
  <2>6. reply' \in [Keys -> [same: BOOLEAN, answer: {"none", "created", "replayed", "conflict"}]]
    <3> DEFINE answer == IF SameEnqueue(k, same) THEN "replayed" ELSE "conflict"
    <3>1. /\ [same |-> TRUE, answer |-> "created"] \in
               [same: BOOLEAN, answer: {"none", "created", "replayed", "conflict"}]
          /\ [same |-> same, answer |-> answer] \in
               [same: BOOLEAN, answer: {"none", "created", "replayed", "conflict"}]
      OBVIOUS
    <3> QED
      BY <1>1, <3>1 DEF Enqueue, TypeOK
  <2> QED
    BY <1>1, <2>4, <2>5, <2>6 DEF Enqueue, TypeOK
<1>2. ASSUME NEW w \in Workers, NEW k \in Keys, Claim(w, k) PROVE TypeOK'
  BY <1>2, ClaimedType DEF Claim, TypeOK, StatusEvent, EventTypes, Row
<1>3. ASSUME NEW w \in Workers, NEW k \in Keys, Heartbeat(w, k) PROVE TypeOK'
  <2>1. Aged(k, row[k].wait, row[k].lease + LeaseLength) \in Row
    <3>1. row[k].lease + LeaseLength \in 0..LeaseCap
      BY <1>3, RowFields, JobQueueAssumption DEF Heartbeat
    <3> QED
      BY <3>1, RowFields, RowType DEF Aged
  <2> QED
    BY <1>3, <2>1 DEF Heartbeat, TypeOK
<1>4. ASSUME NEW w \in Workers, NEW k \in Keys, Complete(w, k) PROVE TypeOK'
  <2>1. Finished(k, "succeeded", row[k].error) \in Row
    BY FinishedType DEF TypeOK, Row, Terminal
  <2> QED
    BY <1>4, <2>1 DEF Complete, TypeOK, StatusEvent, EventTypes, Row
<1>5. ASSUME NEW w \in Workers, NEW k \in Keys, NEW c \in Categories, Retry(w, k, c)
      PROVE  TypeOK'
  <2>1. Finished(k, "failed", c) \in Row
    BY FinishedType DEF Terminal
  <2>2. \A d \in RetryAfter \cup {Backoff(row[k].attempts)} : Requeued(k, d, c) \in Row
    BY RequeuedType, BackoffType, JobQueueAssumption DEF TypeOK, Row
  <2>3. RetryDisposition(k, c) \in EventTypes
    BY DEF RetryDisposition, EventTypes
  <2> QED
    BY <1>5, <2>1, <2>2, <2>3 DEF Retry, TypeOK, StatusEvent, Row
<1>6. ASSUME NEW w \in Workers, NEW k \in Keys, LeaseLost(w, k) PROVE TypeOK'
  BY <1>6 DEF LeaseLost, TypeOK
<1>7. ASSUME NEW w \in Workers, Crash(w) PROVE TypeOK'
  BY <1>7 DEF Crash, TypeOK
<1>8. ASSUME NEW k \in Keys, Cancel(k) PROVE TypeOK'
  <2>1. Finished(k, "canceled", NoError) \in Row
    BY FinishedType DEF Terminal
  <2> QED
    BY <1>8, <2>1 DEF Cancel, TypeOK, StatusEvent, EventTypes, Row
<1>9. ASSUME NEW batch \in SUBSET Keys, ReclaimExpired(batch) PROVE TypeOK'
  BY <1>9, ReclaimedType DEF ReclaimExpired, ReclaimEvent, TypeOK, EventTypes, Row
<1>10. ASSUME Tick PROVE TypeOK'
  <2>1. \A k \in Keys : Aged(k, Closer(row[k].wait), Closer(row[k].lease)) \in Row
    BY RowFields, ColumnValues, RowType DEF Aged
  <2> QED
    BY <1>10, <2>1 DEF Tick, TypeOK
<1> QED
  BY <1>1, <1>2, <1>3, <1>4, <1>5, <1>6, <1>7, <1>8, <1>9, <1>10
     DEF Next, TypeOK, queueVars

(* Every reachable state is well typed: in particular no wait exceeds the   *)
(* day that the command's schema allows, since the doubling backoff has a   *)
(* ceiling below it, and no lease the bound on heartbeats.                  *)
THEOREM TypeCorrect == Spec => []TypeOK
<1>1. Init => TypeOK
  BY JobQueueAssumption DEF Init, TypeOK, NoRow, JobRow, Row, States
<1> QED
  BY <1>1, TypeStep, PTL DEF Spec

-----------------------------------------------------------------------------
(***************************************************************************)
(* The events in the outbox record the path the row has taken: none is     *)
(* about a later attempt than the row has started, and the ones an attempt *)
(* ends with are there only once that attempt has ended.                   *)
(***************************************************************************)
EventFits(r, t, n) ==
  /\ r.state # "absent"
  /\ n <= r.attempts
  /\ t = "retry_wait" => (n < r.attempts \/ r.state # "running")
  /\ t \in {"succeeded", "needs_attention", "canceled"} => r.state \in Terminal

OutboxRecordsPath ==
  \A k \in Keys, t \in EventTypes, n \in Nat :
    <<k, t, n>> \in outbox => EventFits(row[k], t, n)

(* A worker that still owns the lease of its job holds the current attempt. *)
HeldIsCurrent ==
  \A w \in Workers, k \in Keys, n \in Nat :
    (held[w] = <<k, n>> /\ row[k].state = "running" /\ row[k].owner = w)
      => n = row[k].attempts

AbsentIsFresh == \A k \in Keys : row[k].state = "absent" => row[k].attempts = 0

QueueInv ==
  /\ TypeOK
  /\ AbsentIsFresh
  /\ QueuedIsClaimable
  /\ LifecycleCoherent
  /\ OutboxRecordsPath
  /\ HeldIsCurrent

(* What one operation does to the row of its key, as facts about fields.    *)
LEMMA ClaimedFields ==
  ASSUME NEW w \in Workers, NEW k \in Keys
  PROVE  /\ Claimed(w, k).state = "running"
         /\ Claimed(w, k).attempts = row[k].attempts + 1
         /\ Claimed(w, k).owner = w
         /\ Claimed(w, k).lease = LeaseLength
         /\ Claimed(w, k).error = NoError
  BY DEF Claimed, JobRow

LEMMA FinishedFields ==
  ASSUME NEW k \in Keys, NEW s, NEW e
  PROVE  /\ Finished(k, s, e).state = s
         /\ Finished(k, s, e).attempts = row[k].attempts
         /\ Finished(k, s, e).owner = NoWorker
         /\ Finished(k, s, e).lease = 0
         /\ Finished(k, s, e).error = e
  BY DEF Finished, JobRow

LEMMA RequeuedFields ==
  ASSUME NEW k \in Keys, NEW d, NEW e
  PROVE  /\ Requeued(k, d, e).state = "queued"
         /\ Requeued(k, d, e).attempts = row[k].attempts
         /\ Requeued(k, d, e).owner = NoWorker
         /\ Requeued(k, d, e).lease = 0
         /\ Requeued(k, d, e).error = e
  BY DEF Requeued, JobRow

LEMMA AgedFields ==
  ASSUME NEW k \in Keys, NEW d, NEW l
  PROVE  /\ Aged(k, d, l).state = row[k].state
         /\ Aged(k, d, l).attempts = row[k].attempts
         /\ Aged(k, d, l).owner = row[k].owner
         /\ Aged(k, d, l).lease = l
         /\ Aged(k, d, l).error = row[k].error
  BY DEF Aged, JobRow

(* Each operation that ends an attempt takes the row out of "running" as it *)
(* found it and leaves it requeued with attempts to spare, or finished.     *)
AttemptEnds(k) ==
  /\ row'[k].attempts = row[k].attempts
  /\ row'[k].owner = NoWorker /\ row'[k].lease = 0
  /\ \/ /\ row'[k].state = "queued"
        /\ row[k].attempts < MaxAttempts[k]
        /\ row'[k].error \in Categories
     \/ /\ row'[k].state = "failed" /\ row'[k].error \in Categories
     \/ /\ row'[k].state = "succeeded" /\ row'[k].error = row[k].error

LEMMA RetryEnds ==
  ASSUME TypeOK, NEW w \in Workers, NEW k \in Keys, NEW c \in Categories, Retry(w, k, c)
  PROVE  AttemptEnds(k) /\ row'[k].state \in {"queued", "failed"}
<1>1. CASE RetryDisposition(k, c) = "retry_wait"
  <2>1. PICK d \in RetryAfter \cup {Backoff(row[k].attempts)} :
          row' = [row EXCEPT ![k] = Requeued(k, d, c)]
    BY <1>1 DEF Retry
  <2>2. row[k].attempts < MaxAttempts[k]
    BY <1>1 DEF RetryDisposition
  <2> QED
    BY <2>1, <2>2, RequeuedFields DEF AttemptEnds, TypeOK
<1>2. CASE RetryDisposition(k, c) # "retry_wait"
  <2>1. row' = [row EXCEPT ![k] = Finished(k, "failed", c)]
    BY <1>2 DEF Retry
  <2> QED
    BY <2>1, FinishedFields DEF AttemptEnds, TypeOK
<1> QED
  BY <1>1, <1>2

LEMMA ReclaimEnds ==
  ASSUME TypeOK, NEW batch \in SUBSET Keys, ReclaimExpired(batch), NEW k \in batch
  PROVE  AttemptEnds(k) /\ row'[k].state \in {"queued", "failed"}
<1>1. row'[k] = Reclaimed(k)
  BY DEF ReclaimExpired, TypeOK
<1>2. {"transient_dependency", "processing_failure"} \subseteq Categories
  BY DEF Categories, Retryable, NotRetryable
<1> QED
  BY <1>1, <1>2, RequeuedFields, FinishedFields DEF Reclaimed, AttemptEnds
-----------------------------------------------------------------------------
(* How a row may move for the events already written to stay true of it.    *)
Advances(k) ==
  /\ row[k].state # "absent" => row'[k].state # "absent"
  /\ row[k].state \in Terminal => row'[k].state \in Terminal
  /\ row[k].attempts <= row'[k].attempts
  /\ row'[k].state = "running" =>
       \/ row[k].state = "running" /\ row'[k].attempts = row[k].attempts
       \/ row[k].attempts < row'[k].attempts

LEMMA OutboxStep ==
  ASSUME QueueInv, TypeOK', \A k \in Keys : Advances(k),
         \A k \in Keys, t \in EventTypes, n \in Nat :
           <<k, t, n>> \in outbox' \ outbox => EventFits(row'[k], t, n)
  PROVE  OutboxRecordsPath'
<1> SUFFICES ASSUME NEW k \in Keys, NEW t \in EventTypes, NEW n \in Nat, <<k, t, n>> \in outbox
             PROVE  EventFits(row'[k], t, n)
  BY DEF OutboxRecordsPath
<1>1. EventFits(row[k], t, n) /\ Advances(k)
  BY DEF QueueInv, OutboxRecordsPath
<1>2. row[k].attempts \in Nat /\ row'[k].attempts \in Nat
  BY DEF QueueInv, TypeOK, Row
<1> QED
  BY <1>1, <1>2 DEF EventFits, Advances

LEMMA NewEvent ==
  ASSUME NEW k \in Keys, NEW type, NEW attempt, StatusEvent(k, type, attempt),
         EventFits(row'[k], type, attempt)
  PROVE  \A j \in Keys, t \in EventTypes, n \in Nat :
           <<j, t, n>> \in outbox' \ outbox => EventFits(row'[j], t, n)
<1> SUFFICES ASSUME NEW j \in Keys, NEW t \in EventTypes, NEW n \in Nat,
                    <<j, t, n>> \in outbox' \ outbox
             PROVE  EventFits(row'[j], t, n)
  OBVIOUS
<1>1. j = k /\ t = type /\ n = attempt
  BY DEF StatusEvent
<1> QED
  BY <1>1

(* A worker that keeps its job, or drops it, still holds the current attempt *)
(* when no row starts another attempt.                                      *)
LEMMA HeldStep ==
  ASSUME QueueInv,
         \A k \in Keys : row'[k].state = "running" =>
           /\ row[k].state = "running" /\ row'[k].owner = row[k].owner
           /\ row'[k].attempts = row[k].attempts,
         \A w \in Workers : held'[w] \in {held[w], NoJob}
  PROVE  HeldIsCurrent'
<1> SUFFICES ASSUME NEW w \in Workers, NEW k \in Keys, NEW n \in Nat,
                    held'[w] = <<k, n>>, row'[k].state = "running", row'[k].owner = w
             PROVE  n = row'[k].attempts
  BY DEF HeldIsCurrent
<1>1. held[w] = <<k, n>>
  <2>1. <<k, n>> # NoJob
    BY JobQueueAssumption
  <2> QED
    BY <2>1
<1> QED
  BY <1>1 DEF QueueInv, HeldIsCurrent

(* Under the lifecycle constraints a row whose attempt ends keeps them, and *)
(* a row that only ages does.                                               *)
RowOK(k) ==
  /\ row[k].state = "queued" => row[k].attempts < MaxAttempts[k]
  /\ row[k].attempts <= MaxAttempts[k]
  /\ (row[k].state = "running") = (row[k].owner # NoWorker)
  /\ row[k].state # "running" => row[k].lease = 0
  /\ row[k].state \in {"running", "succeeded", "failed"} => row[k].attempts > 0
  /\ row[k].state \in {"running", "succeeded", "canceled"} => row[k].error = NoError
  /\ row[k].state = "failed" => row[k].error # NoError

LEMMA RowOKEquiv ==
  /\ (QueuedIsClaimable /\ LifecycleCoherent) = (\A k \in Keys : RowOK(k))
  /\ (QueuedIsClaimable /\ LifecycleCoherent)' = (\A k \in Keys : RowOK(k)')
  BY DEF QueuedIsClaimable, LifecycleCoherent, Coherent, RowOK

LEMMA AttemptEndsOK ==
  ASSUME QueueInv, NEW k \in Keys, row[k].state = "running", AttemptEnds(k)
  PROVE  RowOK(k)' /\ Advances(k) /\ row'[k].state # "running"
<1>1. RowOK(k) /\ row[k].attempts \in Nat
  BY RowOKEquiv, RowFields DEF QueueInv
<1>2. NoError \notin Categories
  BY DEF NoError, Categories, Retryable, NotRetryable
<1> QED
  BY <1>1, <1>2 DEF RowOK, Advances, AttemptEnds, Terminal

LEMMA SameRowOK ==
  ASSUME QueueInv, NEW k \in Keys, row'[k].state = row[k].state,
         row'[k].attempts = row[k].attempts, row'[k].owner = row[k].owner,
         row'[k].error = row[k].error, row[k].lease = 0 => row'[k].lease = 0
  PROVE  RowOK(k)' /\ Advances(k)
<1>1. RowOK(k) /\ row[k].attempts \in Nat
  BY RowOKEquiv, RowFields DEF QueueInv
<1> QED
  BY <1>1 DEF RowOK, Advances

(* The invariant says nothing of the answers to enqueue.                    *)
LEMMA Untouched ==
  ASSUME QueueInv, TypeOK', row' = row, outbox' = outbox, held' = held
  PROVE  QueueInv'
<1>1. QueuedIsClaimable'
  BY DEF QueueInv, QueuedIsClaimable
<1>2. LifecycleCoherent'
  BY DEF QueueInv, LifecycleCoherent, Coherent
<1>3. OutboxRecordsPath'
  BY DEF QueueInv, OutboxRecordsPath, EventFits
<1>4. HeldIsCurrent'
  BY DEF QueueInv, HeldIsCurrent
<1>5. AbsentIsFresh'
  BY DEF QueueInv, AbsentIsFresh
<1> QED
  BY <1>1, <1>2, <1>3, <1>4, <1>5 DEF QueueInv

(* One lemma per operation: it keeps the other parts of the invariant,      *)
(* given that it keeps the types.                                           *)
LEMMA EnqueueStep ==
  ASSUME QueueInv, TypeOK', NEW k \in Keys, NEW same \in BOOLEAN,
         NEW delay \in {0, DelayCap}, Enqueue(k, delay, same)
  PROVE  QueueInv'
<1>1. CASE row[k].state = "absent"
  <2>1. /\ row' = [row EXCEPT ![k] = JobRow("queued", 0, delay, FALSE, NoWorker, 0, NoError)]
        /\ StatusEvent(k, "queued", 0)
        /\ held' = held
    BY <1>1 DEF Enqueue
  <2>2. /\ row'[k].state = "queued" /\ row'[k].attempts = 0
        /\ row'[k].owner = NoWorker /\ row'[k].lease = 0
        /\ \A j \in Keys \ {k} : row'[j] = row[j]
    BY <2>1 DEF QueueInv, TypeOK, JobRow
  <2>3. RowOK(k)' /\ Advances(k)
    <3>1. row[k].attempts = 0
      <4>1. row[k].attempts \in Nat
        BY RowFields DEF QueueInv
      <4> QED
        BY <1>1, <4>1 DEF QueueInv, AbsentIsFresh
    <3> QED
      BY <1>1, <2>2, <3>1, JobQueueAssumption DEF RowOK, Advances, Terminal
  <2>4. \A j \in Keys \ {k} : RowOK(j)' /\ Advances(j)
    BY <2>2, SameRowOK
  <2>5. AbsentIsFresh'
    BY <2>2 DEF QueueInv, AbsentIsFresh
  <2>6. OutboxRecordsPath'
    <3>1. EventFits(row'[k], "queued", 0)
      BY <2>2 DEF EventFits
    <3> QED
      BY <2>1, <2>3, <2>4, <3>1, NewEvent, OutboxStep
  <2>7. HeldIsCurrent'
    <3>1. \A j \in Keys : row'[j].state = "running" =>
            /\ row[j].state = "running" /\ row'[j].owner = row[j].owner
            /\ row'[j].attempts = row[j].attempts
      BY <2>2
    <3> QED
      BY <2>1, <3>1, HeldStep, Zenon
  <2> QED
    BY <2>3, <2>4, <2>5, <2>6, <2>7, RowOKEquiv DEF QueueInv
<1>2. CASE row[k].state # "absent"
  <2>1. row' = row /\ outbox' = outbox /\ held' = held
    BY <1>2 DEF Enqueue
  <2> QED
    BY <2>1, Untouched
<1> QED
  BY <1>1, <1>2

LEMMA ClaimStep ==
  ASSUME QueueInv, TypeOK', NEW w \in Workers, NEW k \in Keys, Claim(w, k)
  PROVE  QueueInv'
<1>1. /\ row[k].state = "queued" /\ row[k].attempts < MaxAttempts[k]
      /\ StatusEvent(k, "running", row[k].attempts + 1)
      /\ held' = [held EXCEPT ![w] = <<k, row[k].attempts + 1>>]
  BY DEF Claim, Claimable
<1>2. /\ row'[k].state = "running" /\ row'[k].attempts = row[k].attempts + 1
      /\ row'[k].owner = w /\ row'[k].error = NoError
      /\ \A j \in Keys \ {k} : row'[j] = row[j]
  BY ClaimedFields DEF Claim, QueueInv, TypeOK
<1>3. row[k].attempts \in Nat /\ MaxAttempts[k] \in Nat
  BY RowFields, JobQueueAssumption DEF QueueInv
<1>4. RowOK(k)' /\ Advances(k)
  BY <1>1, <1>2, <1>3, JobQueueAssumption DEF RowOK, Advances, Terminal
<1>5. \A j \in Keys \ {k} : RowOK(j)' /\ Advances(j)
  BY <1>2, SameRowOK
<1>6. AbsentIsFresh'
  BY <1>2 DEF QueueInv, AbsentIsFresh
<1>7. OutboxRecordsPath'
  <2>1. EventFits(row'[k], "running", row[k].attempts + 1)
    BY <1>2, <1>3 DEF EventFits
  <2> QED
    BY <1>1, <1>4, <1>5, <2>1, NewEvent, OutboxStep
<1>8. HeldIsCurrent'
  <2> SUFFICES ASSUME NEW v \in Workers, NEW j \in Keys, NEW n \in Nat,
                      held'[v] = <<j, n>>, row'[j].state = "running", row'[j].owner = v
               PROVE  n = row'[j].attempts
    BY DEF HeldIsCurrent
  <2>1. CASE v = w
    <3>1. j = k /\ n = row[k].attempts + 1
      BY <1>1, <2>1 DEF QueueInv, TypeOK
    <3> QED
      BY <1>2, <3>1
  <2>2. CASE v # w
    <3>1. held[v] = <<j, n>>
      BY <1>1, <2>2 DEF QueueInv, TypeOK
    <3>2. j # k /\ row'[j] = row[j]
      BY <1>2, <2>2
    <3> QED
      BY <3>1, <3>2 DEF QueueInv, HeldIsCurrent
  <2> QED
    BY <2>1, <2>2
<1> QED
  BY <1>4, <1>5, <1>6, <1>7, <1>8, RowOKEquiv DEF QueueInv

(* complete and retry end an attempt and say so in the outbox.              *)
LEMMA AnswerStep ==
  ASSUME QueueInv, TypeOK', NEW w \in Workers, NEW k \in Keys, NEW t,
         row[k].state = "running", AttemptEnds(k),
         \A j \in Keys \ {k} : row'[j] = row[j],
         StatusEvent(k, t, row[k].attempts),
         t \in {"succeeded", "needs_attention"} => row'[k].state \in Terminal,
         t # "canceled",
         held' = [held EXCEPT ![w] = NoJob]
  PROVE  QueueInv'
<1>1. RowOK(k)' /\ Advances(k) /\ row'[k].state # "running" /\ row'[k].state # "absent"
  BY AttemptEndsOK DEF AttemptEnds
<1>2. \A j \in Keys \ {k} : RowOK(j)' /\ Advances(j)
  BY SameRowOK
<1>3. AbsentIsFresh'
  BY <1>1 DEF QueueInv, AbsentIsFresh
<1>4. OutboxRecordsPath'
  <2>1. row[k].attempts \in Nat /\ row'[k].attempts = row[k].attempts
    BY RowFields DEF QueueInv, AttemptEnds
  <2>2. EventFits(row'[k], t, row[k].attempts)
    BY <1>1, <2>1 DEF EventFits
  <2> QED
    BY <1>1, <1>2, <2>2, NewEvent, OutboxStep
<1>5. HeldIsCurrent'
  <2>1. \A j \in Keys : row'[j].state = "running" =>
          /\ row[j].state = "running" /\ row'[j].owner = row[j].owner
          /\ row'[j].attempts = row[j].attempts
    BY <1>1
  <2>2. \A v \in Workers : held'[v] \in {held[v], NoJob}
    BY DEF QueueInv, TypeOK
  <2> QED
    BY <2>1, <2>2, HeldStep
<1> QED
  BY <1>1, <1>2, <1>3, <1>4, <1>5, RowOKEquiv DEF QueueInv

LEMMA CompleteStep ==
  ASSUME QueueInv, TypeOK', NEW w \in Workers, NEW k \in Keys, Complete(w, k)
  PROVE  QueueInv'
<1>1. /\ row[k].state = "running" /\ StatusEvent(k, "succeeded", row[k].attempts)
      /\ held' = [held EXCEPT ![w] = NoJob]
      /\ row' = [row EXCEPT ![k] = Finished(k, "succeeded", row[k].error)]
  BY DEF Complete, OwnsLease
<1>2. AttemptEnds(k) /\ row'[k].state = "succeeded" /\ \A j \in Keys \ {k} : row'[j] = row[j]
  BY <1>1, FinishedFields DEF AttemptEnds, QueueInv, TypeOK
<1> QED
  BY <1>1, <1>2, AnswerStep DEF Terminal

LEMMA RetryStep ==
  ASSUME QueueInv, TypeOK', NEW w \in Workers, NEW k \in Keys, NEW c \in Categories,
         Retry(w, k, c)
  PROVE  QueueInv'
<1>1. /\ row[k].state = "running"
      /\ StatusEvent(k, RetryDisposition(k, c), row[k].attempts)
      /\ held' = [held EXCEPT ![w] = NoJob]
  BY DEF Retry, OwnsLease
<1>2. AttemptEnds(k)
  BY RetryEnds DEF QueueInv
<1>3. /\ RetryDisposition(k, c) \in {"succeeded", "needs_attention"} => row'[k].state \in Terminal
      /\ \A j \in Keys \ {k} : row'[j] = row[j]
      /\ RetryDisposition(k, c) # "canceled"
  <2>1. CASE RetryDisposition(k, c) = "retry_wait"
    BY <2>1 DEF Retry, QueueInv, TypeOK
  <2>2. CASE RetryDisposition(k, c) = "needs_attention"
    <3>1. row' = [row EXCEPT ![k] = Finished(k, "failed", c)]
      BY <2>2 DEF Retry
    <3> QED
      BY <2>2, <3>1, FinishedFields DEF QueueInv, TypeOK, Terminal
  <2> QED
    BY <2>1, <2>2 DEF RetryDisposition
<1> QED
  BY <1>1, <1>2, <1>3, AnswerStep

LEMMA CancelStep ==
  ASSUME QueueInv, TypeOK', NEW k \in Keys, Cancel(k)
  PROVE  QueueInv'
<1>1. /\ row[k].state \in {"queued", "running"}
      /\ StatusEvent(k, "canceled", row[k].attempts)
      /\ row' = [row EXCEPT ![k] = Finished(k, "canceled", NoError)]
      /\ held' = held
  BY DEF Cancel
<1>2. /\ row'[k].state = "canceled" /\ row'[k].attempts = row[k].attempts
      /\ row'[k].owner = NoWorker /\ row'[k].lease = 0 /\ row'[k].error = NoError
      /\ \A j \in Keys \ {k} : row'[j] = row[j]
  BY <1>1, FinishedFields DEF QueueInv, TypeOK
<1>3. RowOK(k)' /\ Advances(k)
  <2>1. RowOK(k) /\ row[k].attempts \in Nat
    BY RowOKEquiv, RowFields DEF QueueInv
  <2> QED
    BY <1>1, <1>2, <2>1 DEF RowOK, Advances, Terminal
<1>4. \A j \in Keys \ {k} : RowOK(j)' /\ Advances(j)
  BY <1>2, SameRowOK
<1>5. AbsentIsFresh'
  BY <1>2 DEF QueueInv, AbsentIsFresh
<1>6. OutboxRecordsPath'
  <2>1. EventFits(row'[k], "canceled", row[k].attempts)
    BY <1>2, RowFields DEF QueueInv, EventFits, Terminal
  <2> QED
    BY <1>1, <1>3, <1>4, <2>1, NewEvent, OutboxStep
<1>7. HeldIsCurrent'
  <2>1. \A j \in Keys : row'[j].state = "running" =>
          /\ row[j].state = "running" /\ row'[j].owner = row[j].owner
          /\ row'[j].attempts = row[j].attempts
    BY <1>2
  <2> QED
    BY <1>1, <2>1, HeldStep
<1> QED
  BY <1>3, <1>4, <1>5, <1>6, <1>7, RowOKEquiv DEF QueueInv

LEMMA ReclaimStep ==
  ASSUME QueueInv, TypeOK', NEW batch \in SUBSET Keys, ReclaimExpired(batch)
  PROVE  QueueInv'
<1>1. \A k \in batch : row[k].state = "running" /\ AttemptEnds(k)
  BY ReclaimEnds DEF ReclaimExpired, Expired, QueueInv
<1>2. \A k \in Keys \ batch : row'[k] = row[k]
  BY DEF ReclaimExpired
<1>3. \A k \in batch : RowOK(k)' /\ Advances(k) /\ row'[k].state \notin {"running", "absent"}
  BY <1>1, AttemptEndsOK DEF AttemptEnds
<1>4. \A k \in Keys \ batch : RowOK(k)' /\ Advances(k)
  BY <1>2, SameRowOK
<1>5. AbsentIsFresh'
  BY <1>2, <1>3 DEF QueueInv, AbsentIsFresh
<1>6. OutboxRecordsPath'
  <2>1. ASSUME NEW k \in Keys, NEW t \in EventTypes, NEW n \in Nat,
               <<k, t, n>> \in outbox' \ outbox
        PROVE  EventFits(row'[k], t, n)
    <3>1. PICK j \in batch : <<k, t, n>> = ReclaimEvent(j)
      BY <2>1 DEF ReclaimExpired
    <3>2. j = k /\ n = row[k].attempts /\ row'[k].attempts = row[k].attempts
      BY <1>1, <3>1 DEF ReclaimEvent, AttemptEnds
    <3>3. /\ t = "retry_wait" \/ t = "needs_attention"
          /\ t = "needs_attention" => ~(row[k].attempts < MaxAttempts[k])
      BY <3>1, <3>2 DEF ReclaimEvent
    <3>4. t = "needs_attention" => row'[k].state = "failed"
      <4>1. row'[k] = Reclaimed(k)
        BY <3>2 DEF ReclaimExpired
      <4> QED
        BY <3>3, <4>1, FinishedFields DEF Reclaimed
    <3>5. row[k].attempts \in Nat
      BY RowFields DEF QueueInv
    <3> QED
      BY <1>3, <3>2, <3>3, <3>4, <3>5 DEF EventFits, Terminal
  <2> QED
    BY <1>3, <1>4, <2>1, OutboxStep
<1>7. HeldIsCurrent'
  <2>1. \A k \in Keys : row'[k].state = "running" =>
          /\ row[k].state = "running" /\ row'[k].owner = row[k].owner
          /\ row'[k].attempts = row[k].attempts
    BY <1>2, <1>3
  <2>2. held' = held
    BY DEF ReclaimExpired
  <2> QED
    BY <2>1, <2>2, HeldStep
<1> QED
  BY <1>3, <1>4, <1>5, <1>6, <1>7, RowOKEquiv DEF QueueInv

(* A heartbeat and the passing of time only move the two distances.         *)
LEMMA AgedStep ==
  ASSUME QueueInv, TypeOK', outbox' = outbox, held' = held,
         \A k \in Keys : /\ row'[k].state = row[k].state /\ row'[k].attempts = row[k].attempts
                         /\ row'[k].owner = row[k].owner /\ row'[k].error = row[k].error
                         /\ row[k].lease = 0 => row'[k].lease = 0
  PROVE  QueueInv'
<1>1. \A k \in Keys : RowOK(k)' /\ Advances(k)
  BY SameRowOK
<1>2. AbsentIsFresh'
  BY DEF QueueInv, AbsentIsFresh
<1>3. OutboxRecordsPath'
  BY <1>1, OutboxStep
<1>4. HeldIsCurrent'
  BY HeldStep
<1> QED
  BY <1>1, <1>2, <1>3, <1>4, RowOKEquiv DEF QueueInv

LEMMA HeartbeatStep ==
  ASSUME QueueInv, TypeOK', NEW w \in Workers, NEW k \in Keys, Heartbeat(w, k)
  PROVE  QueueInv'
<1>1. /\ row' = [row EXCEPT ![k] = Aged(k, row[k].wait, row[k].lease + LeaseLength)]
      /\ row[k].lease # 0
      /\ outbox' = outbox /\ held' = held
  BY RowFields DEF Heartbeat, OwnsLease, QueueInv
<1>2. row'[k] = Aged(k, row[k].wait, row[k].lease + LeaseLength)
      /\ \A j \in Keys \ {k} : row'[j] = row[j]
  BY <1>1 DEF QueueInv, TypeOK
<1> QED
  BY <1>1, <1>2, AgedFields, AgedStep

LEMMA TickStep ==
  ASSUME QueueInv, TypeOK', Tick
  PROVE  QueueInv'
<1>1. \A k \in Keys : row'[k] = Aged(k, Closer(row[k].wait), Closer(row[k].lease))
  BY DEF Tick
<1>2. Closer(0) = 0
  BY DEF Closer
<1> QED
  BY <1>1, <1>2, AgedFields, AgedStep DEF Tick

(* A worker that loses its lease or dies only forgets its job.              *)
LEMMA DropStep ==
  ASSUME QueueInv, TypeOK', NEW w \in Workers, row' = row, outbox' = outbox,
         held' = [held EXCEPT ![w] = NoJob]
  PROVE  QueueInv'
<1>1. QueuedIsClaimable' /\ LifecycleCoherent' /\ AbsentIsFresh' /\ OutboxRecordsPath'
  BY DEF QueueInv, QueuedIsClaimable, LifecycleCoherent, Coherent, AbsentIsFresh,
         OutboxRecordsPath, EventFits
<1>2. HeldIsCurrent'
  <2>1. \A v \in Workers : held'[v] \in {held[v], NoJob}
    BY DEF QueueInv, TypeOK
  <2> QED
    BY <2>1, HeldStep
<1> QED
  BY <1>1, <1>2 DEF QueueInv

LEMMA QueueInvInit == Init => QueueInv
<1> SUFFICES ASSUME Init PROVE QueueInv
  OBVIOUS
<1>1. TypeOK
  BY JobQueueAssumption DEF Init, TypeOK, NoRow, JobRow, Row, States
<1>2. \A k \in Keys : row[k] = NoRow
  BY DEF Init
<1>3. QueuedIsClaimable /\ LifecycleCoherent /\ AbsentIsFresh
  BY <1>2, JobQueueAssumption DEF QueuedIsClaimable, LifecycleCoherent, Coherent,
                                  AbsentIsFresh, NoRow, JobRow
<1>4. OutboxRecordsPath
  BY DEF Init, OutboxRecordsPath
<1>5. HeldIsCurrent
  BY <1>2 DEF HeldIsCurrent, NoRow, JobRow
<1> QED
  BY <1>1, <1>3, <1>4, <1>5 DEF QueueInv

LEMMA QueueInvStep == QueueInv /\ [Next]_queueVars => QueueInv'
<1> SUFFICES ASSUME QueueInv, [Next]_queueVars PROVE QueueInv'
  OBVIOUS
<1>0. TypeOK'
  BY TypeStep DEF QueueInv
<1>1. CASE \E k \in Keys, same \in BOOLEAN, delay \in {0, DelayCap} : Enqueue(k, delay, same)
  BY <1>0, <1>1, EnqueueStep
<1>2. CASE \E w \in Workers, k \in Keys : Claim(w, k)
  BY <1>0, <1>2, ClaimStep
<1>3. CASE \E w \in Workers, k \in Keys : Heartbeat(w, k)
  BY <1>0, <1>3, HeartbeatStep
<1>4. CASE \E w \in Workers, k \in Keys : Complete(w, k)
  BY <1>0, <1>4, CompleteStep
<1>5. CASE \E w \in Workers, k \in Keys : \E c \in Categories : Retry(w, k, c)
  BY <1>0, <1>5, RetryStep
<1>6. CASE \E w \in Workers, k \in Keys : LeaseLost(w, k)
  BY <1>0, <1>6, DropStep DEF LeaseLost
<1>7. CASE \E w \in Workers : Crash(w)
  BY <1>0, <1>7, DropStep DEF Crash
<1>8. CASE \E k \in Keys : Cancel(k)
  BY <1>0, <1>8, CancelStep
<1>9. CASE \E batch \in SUBSET Keys : ReclaimExpired(batch)
  BY <1>0, <1>9, ReclaimStep
<1>10. CASE Tick
  BY <1>0, <1>10, TickStep
<1>11. CASE UNCHANGED queueVars
  BY <1>0, <1>11, Untouched DEF queueVars
<1> QED
  BY <1>1, <1>2, <1>3, <1>4, <1>5, <1>6, <1>7, <1>8, <1>9, <1>10, <1>11 DEF Next

LEMMA QueueInvHolds == Spec => []QueueInv
  BY QueueInvInit, QueueInvStep, PTL DEF Spec

-----------------------------------------------------------------------------
(* No mix of retries and reclaims strands a row in the queue: a waiting job *)
(* always has an attempt left, so the claim query can select it.            *)
THEOREM QueuedStaysClaimable == Spec => []QueuedIsClaimable
<1>1. QueueInv => QueuedIsClaimable
  BY DEF QueueInv
<1> QED
  BY <1>1, QueueInvHolds, PTL

(* No operation of the repository is ever refused by a CHECK constraint of  *)
(* background_jobs.                                                         *)
THEOREM ConstraintsNeverBite == Spec => []LifecycleCoherent
<1>1. QueueInv => LifecycleCoherent
  BY DEF QueueInv
<1> QED
  BY <1>1, QueueInvHolds, PTL

(* No transition is ever rolled back by the unique key of its event.        *)
THEOREM OutboxKeysAreFresh == Spec => []EventsNeverCollide
<1>1. QueueInv => EventsNeverCollide
  <2> SUFFICES ASSUME QueueInv, NEW k \in Keys, NEW e \in NextEvents(k), e \in outbox
               PROVE  FALSE
    BY DEF EventsNeverCollide
  <2>1. row[k].attempts \in Nat
    BY RowFields DEF QueueInv
  <2>2. \A t \in EventTypes, n \in Nat : e = <<k, t, n>> => EventFits(row[k], t, n)
    BY DEF QueueInv, OutboxRecordsPath
  <2>3. CASE row[k].state = "absent"
    BY <2>2, <2>3 DEF NextEvents, EventTypes, EventFits
  <2>4. CASE row[k].state = "queued"
    BY <2>1, <2>2, <2>4 DEF NextEvents, EventTypes, EventFits, Terminal
  <2>5. CASE row[k].state = "running"
    BY <2>1, <2>2, <2>5 DEF NextEvents, EventTypes, EventFits, Terminal
  <2>6. CASE row[k].state \notin {"absent", "queued", "running"}
    BY <2>6 DEF NextEvents
  <2> QED
    BY <2>3, <2>4, <2>5, <2>6
<1> QED
  BY <1>1, QueueInvHolds, PTL

(* A live lease protects the row from everyone but its holder's current     *)
(* attempt and the owner's cancellation; a dead one only yields to reclaim. *)
THEOREM LeaseFences == Spec => FencedTransition
<1> DEFINE Fenced ==
      \A k \in Keys : (row[k].state = "running" /\ row'[k].owner # row[k].owner) =>
        \/ row'[k].state = "canceled"
        \/ /\ row[k].lease = 0
           /\ row'[k] = Reclaimed(k)
        \/ /\ row[k].lease > 0
           /\ row'[k].state # "running"
           /\ held[row[k].owner] = <<k, row[k].attempts>>
<1>1. QueueInv /\ [Next]_queueVars => [Fenced]_queueVars
  <2> SUFFICES ASSUME QueueInv, Next, NEW k \in Keys, row[k].state = "running",
                      row'[k].owner # row[k].owner
               PROVE  \/ row'[k].state = "canceled"
                      \/ row[k].lease = 0 /\ row'[k] = Reclaimed(k)
                      \/ /\ row[k].lease > 0
                         /\ row'[k].state # "running"
                         /\ held[row[k].owner] = <<k, row[k].attempts>>
    OBVIOUS
  <2>1. ASSUME NEW w \in Workers, OwnsLease(w, k), held[w] # NoJob, held[w][1] = k
        PROVE  row[k].lease > 0 /\ held[row[k].owner] = <<k, row[k].attempts>>
    <3>1. PICK n \in Nat : held[w] = <<k, n>>
      BY <2>1 DEF QueueInv, TypeOK
    <3> QED
      BY <2>1, <3>1 DEF OwnsLease, QueueInv, HeldIsCurrent
  <2>2. CASE \E j \in Keys, same \in BOOLEAN, delay \in {0, DelayCap} : Enqueue(j, delay, same)
    BY <2>2 DEF Enqueue, QueueInv, TypeOK
  <2>3. CASE \E w \in Workers, j \in Keys : Claim(w, j)
    BY <2>3 DEF Claim, Claimable, QueueInv, TypeOK
  <2>4. CASE \E w \in Workers, j \in Keys : Heartbeat(w, j)
    BY <2>4, AgedFields DEF Heartbeat, QueueInv, TypeOK
  <2>5. CASE \E w \in Workers, j \in Keys : Complete(w, j)
    BY <2>1, <2>5, FinishedFields DEF Complete, QueueInv, TypeOK
  <2>6. ASSUME NEW w \in Workers, NEW j \in Keys, NEW c \in Categories, Retry(w, j, c)
        PROVE  \/ row[k].lease > 0 /\ row'[k].state # "running"
                  /\ held[row[k].owner] = <<k, row[k].attempts>>
    <3>1. j = k
      BY <2>6 DEF Retry, QueueInv, TypeOK
    <3>2. row'[k].state # "running"
      BY <2>6, <3>1, RetryEnds DEF QueueInv
    <3> QED
      BY <2>1, <2>6, <3>1, <3>2 DEF Retry
  <2>7. CASE \E w \in Workers, j \in Keys : LeaseLost(w, j)
    BY <2>7 DEF LeaseLost
  <2>8. CASE \E w \in Workers : Crash(w)
    BY <2>8 DEF Crash
  <2>9. CASE \E j \in Keys : Cancel(j)
    BY <2>9, FinishedFields DEF Cancel, QueueInv, TypeOK
  <2>10. CASE \E batch \in SUBSET Keys : ReclaimExpired(batch)
    BY <2>10 DEF ReclaimExpired, Expired
  <2>11. CASE Tick
    BY <2>11, AgedFields DEF Tick
  <2> QED
    BY <2>2, <2>3, <2>4, <2>5, <2>6, <2>7, <2>8, <2>9, <2>10, <2>11 DEF Next
<1> QED
  BY <1>1, QueueInvHolds, PTL DEF Spec, FencedTransition

(* validate_background_job_update never rejects an operation: in particular *)
(* a finished job is final and attempts are counted by claims alone.        *)
THEOREM GuardNeverRejects == Spec => UpdatesAccepted
<1> DEFINE Accepted ==
      Tick \/ \A k \in Keys : (row[k].state # "absent" /\ row'[k] # row[k])
                               => UpdateAccepted(row[k], row'[k])
<1>1. QueueInv /\ [Next]_queueVars => [Accepted]_queueVars
  <2> SUFFICES ASSUME QueueInv, Next, ~Tick, NEW k \in Keys, row[k].state # "absent",
                      row'[k] # row[k]
               PROVE  UpdateAccepted(row[k], row'[k])
    OBVIOUS
  <2>1. row[k].attempts \in Nat /\ row[k].lease \in Nat /\ LeaseLength \in Nat
    BY RowFields, JobQueueAssumption DEF QueueInv
  <2>2. ASSUME row[k].state = "running", AttemptEnds(k),
               row'[k].state = "queued" => (row[k].lease = 0 \/ row'[k].error \in Retryable)
        PROVE  UpdateAccepted(row[k], row'[k])
    BY <2>2 DEF AttemptEnds, UpdateAccepted, JobTransitions, Terminal
  <2>3. CASE \E j \in Keys, same \in BOOLEAN, delay \in {0, DelayCap} : Enqueue(j, delay, same)
    BY <2>3 DEF Enqueue, QueueInv, TypeOK
  <2>4. CASE \E w \in Workers, j \in Keys : Claim(w, j)
    <3>1. row[k].state = "queued" /\ \E w \in Workers : row'[k] = Claimed(w, k)
      BY <2>4 DEF Claim, Claimable, QueueInv, TypeOK
    <3> QED
      BY <3>1, ClaimedFields DEF UpdateAccepted, JobTransitions, Terminal
  <2>5. CASE \E w \in Workers, j \in Keys : Heartbeat(w, j)
    <3>1. row[k].state = "running" /\ row'[k] = Aged(k, row[k].wait, row[k].lease + LeaseLength)
      BY <2>5 DEF Heartbeat, OwnsLease, QueueInv, TypeOK
    <3>2. row'[k].wait = row[k].wait
      BY <3>1 DEF Aged, JobRow
    <3> QED
      BY <2>1, <3>1, <3>2, AgedFields DEF UpdateAccepted, Terminal
  <2>6. CASE \E w \in Workers, j \in Keys : Complete(w, j)
    <3>1. row[k].state = "running" /\ row'[k] = Finished(k, "succeeded", row[k].error)
      BY <2>6 DEF Complete, OwnsLease, QueueInv, TypeOK
    <3> QED
      BY <2>2, <3>1, FinishedFields DEF AttemptEnds
  <2>7. CASE \E w \in Workers, j \in Keys : \E c \in Categories : Retry(w, j, c)
    <3>0. PICK w \in Workers, j \in Keys, c \in Categories : Retry(w, j, c)
      BY <2>7
    <3>1. Retry(w, k, c)
      BY <3>0 DEF Retry, QueueInv, TypeOK
    <3>2. row[k].state = "running" /\ AttemptEnds(k)
      BY <3>1, RetryEnds DEF Retry, OwnsLease, QueueInv
    <3>3. CASE c \in Retryable
      <4>1. row'[k].error = c
        BY <3>1, RequeuedFields, FinishedFields DEF Retry, QueueInv, TypeOK
      <4> QED
        BY <2>2, <3>2, <3>3, <4>1
    <3>4. CASE c \notin Retryable
      <4>1. row'[k].state = "failed"
        BY <3>1, <3>4, FinishedFields DEF Retry, RetryDisposition, QueueInv, TypeOK
      <4> QED
        BY <2>2, <3>2, <4>1
    <3> QED
      BY <3>3, <3>4
  <2>8. CASE \E w \in Workers, j \in Keys : LeaseLost(w, j)
    BY <2>8 DEF LeaseLost
  <2>9. CASE \E w \in Workers : Crash(w)
    BY <2>9 DEF Crash
  <2>10. CASE \E j \in Keys : Cancel(j)
    <3>1. row[k].state \in {"queued", "running"} /\ row'[k] = Finished(k, "canceled", NoError)
      BY <2>10 DEF Cancel, QueueInv, TypeOK
    <3> QED
      BY <3>1, FinishedFields DEF UpdateAccepted, JobTransitions, Terminal
  <2>11. CASE \E batch \in SUBSET Keys : ReclaimExpired(batch)
    <3>1. PICK batch \in SUBSET Keys : ReclaimExpired(batch) /\ k \in batch
      BY <2>11 DEF ReclaimExpired
    <3>2. row[k].state = "running" /\ row[k].lease = 0 /\ AttemptEnds(k)
      BY <3>1, ReclaimEnds DEF ReclaimExpired, Expired, QueueInv
    <3> QED
      BY <2>2, <3>2
  <2> QED
    BY <2>3, <2>4, <2>5, <2>6, <2>7, <2>8, <2>9, <2>10, <2>11 DEF Next
<1> QED
  BY <1>1, QueueInvHolds, PTL DEF Spec, UpdatesAccepted

-----------------------------------------------------------------------------
(***************************************************************************)
(* The review pipeline.                                                    *)
(***************************************************************************)
Holding == {"load", "ask", "record", "store", "complete", "fail"}
Places  == Holding \cup {"idle", "sweep", "enqueue", "claim", "mark"}

ReviewTypeOK ==
  /\ TypeOK
  /\ activity \in [Keys -> ActivityStates]
  /\ review \in [Keys -> [run : Nat, evidence : {"none", "recorded", "unrecorded"}]]
  /\ ledger \in [Keys -> Nat]
  /\ DOMAIN status = Keys /\ announced \in SUBSET Keys
  /\ listed \in SUBSET Keys /\ asking \in SUBSET Keys
  /\ pc \in Places

\* What the worker has in hand at each place of review_step.
InHand ==
  /\ pc \in Holding \cup {"enqueue", "mark"} => task \in Keys
  /\ pc \in Holding => held[Reviewer] \in Keys \X Nat /\ held[Reviewer][1] = task
  /\ pc = "fail" => note \in Categories
  /\ pc \in {"ask", "record", "store"} => review[task] = NoReview
  /\ pc = "store" => /\ note \in {"recorded", "unrecorded"}
                     /\ note = "recorded" => ledger[task] = held[Reviewer][2]
  /\ pc = "complete" => review[task] # NoReview

PipeInv ==
  /\ ReviewTypeOK /\ InHand
  /\ ReviewedIsReady /\ SucceededHasReview /\ RecordedIsInLedger

-----------------------------------------------------------------------------
(* Nothing is reviewed at the start, and the queue is empty. *)
LEMMA PipeInitial == ReviewInit => PipeInv /\ Init
<1> SUFFICES ASSUME ReviewInit PROVE PipeInv /\ Init
  OBVIOUS
<1>1. Init
  BY DEF ReviewInit
<1>2. TypeOK
  BY <1>1, QueueInvInit DEF QueueInv
<1>3. ReviewTypeOK
  BY <1>2 DEF ReviewInit, ReviewTypeOK, ActivityStates, NoReview, Places
<1>4. InHand
  BY DEF ReviewInit, InHand, Holding
<1>5. \A k \in Keys : row[k].state = "absent"
  BY <1>1 DEF Init, NoRow, JobRow
<1>6. ReviewedIsReady /\ SucceededHasReview /\ RecordedIsInLedger
  BY <1>5 DEF ReviewInit, ReviewedIsReady, SucceededHasReview, RecordedIsInLedger, NoReview,
     NoStatus, StatusRow
<1> QED
  BY <1>1, <1>3, <1>4, <1>6 DEF PipeInv

(* Every step of the API, the Claude worker and the housekeeping worker is a step of    *)
(* the queue or leaves the queue alone: an answer is about the job the worker holds,    *)
(* a failure has a category the queue knows, and a crash drops what is held.            *)
LEMMA QueueSimulated ==
  ASSUME PipeInv, [PipelineStep]_pipeVars
  PROVE  [Next]_queueVars
<1>0. Reviewer \in Workers /\ 0 \in {0, DelayCap} /\ FALSE \in BOOLEAN
  BY ReviewAssumption
<1>1. CASE UNCHANGED queueVars
  BY <1>1
<1>2. ASSUME NEW k \in Keys, Enqueue(k, 0, FALSE) PROVE Next
  BY <1>0, <1>2 DEF Next
<1>3. CASE SweepEnqueue
  BY <1>2, <1>3 DEF PipeInv, InHand, SweepEnqueue
<1>4. ASSUME NEW k \in Keys, RequestEnqueue(k) PROVE Next
  BY <1>2, <1>4 DEF RequestEnqueue
<1>5. ASSUME NEW k \in Keys, ClaimReview(k) PROVE Next
  BY <1>0, <1>5 DEF ClaimReview, Next
<1>6. CASE CompleteReview
  BY <1>0, <1>6 DEF PipeInv, InHand, Holding, CompleteReview, Next
<1>7. CASE FailReview
  BY <1>0, <1>7 DEF PipeInv, InHand, Holding, FailReview, Next
<1>8. CASE ReviewLeaseLost
  BY <1>0, <1>8 DEF PipeInv, InHand, Holding, ReviewLeaseLost, Next
<1>9. CASE WorkerCrash
  <2>1. CASE held[Reviewer] = NoJob
    <3>1. held' = held
      BY <1>9, <2>1, <1>0 DEF WorkerCrash, PipeInv, ReviewTypeOK, TypeOK
    <3> QED
      BY <1>9, <3>1 DEF WorkerCrash, queueVars
  <2>2. CASE held[Reviewer] # NoJob
    BY <1>0, <1>9, <2>2 DEF WorkerCrash, Crash, Next
  <2> QED
    BY <2>1, <2>2
<1>10. CASE Housekeeping
  BY <1>10 DEF Housekeeping, Next
<1>11. CASE \/ BeginStep \/ EndSweep \/ EndStep \/ Load \/ AskReviewer \/ RecordEvidence
            \/ StoreReview \/ ProcessRaises \/ MarkFailed
  BY <1>1, <1>11 DEF BeginStep, EndSweep, EndStep, Load, AskReviewer, RecordEvidence,
     StoreReview, ProcessRaises, MarkFailed, Raises
<1>12. ASSUME NEW k \in Keys,
              SweepRequest(k) \/ SubmitSelfReview(k) \/ Request(k) \/ RequestDropped(k)
       PROVE  UNCHANGED queueVars
  BY <1>12 DEF SweepRequest, SubmitSelfReview, Request, RequestDropped
<1>13. CASE UNCHANGED pipeVars
  BY <1>13 DEF pipeVars, queueVars
<1> QED
  BY <1>1, <1>3, <1>4, <1>5, <1>6, <1>7, <1>8, <1>9, <1>10, <1>11, <1>12, <1>13
     DEF PipelineStep, WorkerStep

(* Only an answer of the worker makes a job succeeded. *)
LEMMA OnlyCompleteSucceeds ==
  ASSUME PipeInv, NEW k \in Keys, [PipelineStep]_pipeVars, row'[k].state = "succeeded"
  PROVE  row[k].state = "succeeded" \/ CompleteReview
<1>0. TypeOK /\ Reviewer \in Workers
  BY ReviewAssumption DEF PipeInv, ReviewTypeOK
<1>1. CASE UNCHANGED row
  BY <1>1
<1>2. ASSUME NEW j \in Keys, Enqueue(j, 0, FALSE) PROVE row[k].state = "succeeded"
  <2>1. CASE UNCHANGED row
    BY <2>1
  <2>2. CASE row' = [row EXCEPT ![j] = JobRow("queued", 0, 0, FALSE, NoWorker, 0, NoError)]
    <3>1. JobRow("queued", 0, 0, FALSE, NoWorker, 0, NoError).state = "queued"
      BY DEF JobRow
    <3> QED
      BY <1>0, <2>2, <3>1 DEF TypeOK
  <2> QED
    BY <1>2, <2>1, <2>2 DEF Enqueue
<1>3. CASE SweepEnqueue
  BY <1>2, <1>3 DEF PipeInv, InHand, SweepEnqueue
<1>4. ASSUME NEW j \in Keys, ClaimReview(j) PROVE row[k].state = "succeeded"
  <2>1. row' = [row EXCEPT ![j] = Claimed(Reviewer, j)]
    BY <1>4 DEF ClaimReview, Claim
  <2> QED
    BY <1>0, <2>1, ClaimedFields DEF TypeOK
<1>5. CASE FailReview
  <2>1. task \in Keys /\ note \in Categories /\ Retry(Reviewer, task, note)
    BY <1>5 DEF FailReview, PipeInv, InHand, Holding
  <2>2. row'[task].state \in {"queued", "failed"}
    BY <1>0, <2>1, RetryEnds
  <2>3. k # task => row'[k] = row[k]
    BY <1>0, <2>1 DEF Retry, TypeOK
  <2> QED
    BY <2>2, <2>3
<1>6. ASSUME NEW batch \in SUBSET Keys, ReclaimExpired(batch) PROVE row[k].state = "succeeded"
  <2>1. Reclaimed(k).state \in {"queued", "failed"}
    BY RequeuedFields, FinishedFields DEF Reclaimed
  <2>2. row'[k] = IF k \in batch THEN Reclaimed(k) ELSE row[k]
    BY <1>6 DEF ReclaimExpired
  <2> QED
    BY <2>1, <2>2
<1>7. CASE Tick
  BY <1>7, AgedFields DEF Tick
<1>8. CASE Housekeeping
  BY <1>6, <1>7, <1>8 DEF Housekeeping
<1>9. CASE \/ BeginStep \/ EndSweep \/ EndStep \/ Load \/ AskReviewer \/ RecordEvidence
            \/ StoreReview \/ ProcessRaises \/ MarkFailed \/ WorkerCrash \/ ReviewLeaseLost
  BY <1>1, <1>9 DEF BeginStep, EndSweep, EndStep, Load, AskReviewer, RecordEvidence,
     StoreReview, ProcessRaises, MarkFailed, Raises, WorkerCrash, ReviewLeaseLost, LeaseLost,
     queueVars
<1>10. ASSUME NEW j \in Keys,
              SweepRequest(j) \/ SubmitSelfReview(j) \/ Request(j) \/ RequestDropped(j)
       PROVE  UNCHANGED row
  BY <1>10 DEF SweepRequest, SubmitSelfReview, Request, RequestDropped, queueVars
<1>11. ASSUME NEW j \in Keys, RequestEnqueue(j) PROVE row[k].state = "succeeded"
  BY <1>2, <1>11 DEF RequestEnqueue
<1>12. CASE UNCHANGED pipeVars
  BY <1>1, <1>12 DEF pipeVars
<1> QED
  BY <1>1, <1>3, <1>4, <1>5, <1>8, <1>9, <1>10, <1>11, <1>12 DEF PipelineStep, WorkerStep

-----------------------------------------------------------------------------
(* While the reviews and what agrees with them stay as they are, so does what the       *)
(* properties say of them, unless a job succeeds.                                       *)
LEMMA StoreStays ==
  ASSUME PipeInv, [PipelineStep]_pipeVars, UNCHANGED storeVars, CompleteReview => review[task] # NoReview
  PROVE  ReviewedIsReady' /\ SucceededHasReview' /\ RecordedIsInLedger'
<1>0. UNCHANGED <<activity, status, review, ledger, announced>>
  BY DEF storeVars
<1>1. \A k \in Keys : row'[k].state = "succeeded" => review[k] # NoReview
  <2> SUFFICES ASSUME NEW k \in Keys, row'[k].state = "succeeded" PROVE review[k] # NoReview
    OBVIOUS
  <2>1. CASE row[k].state = "succeeded"
    BY <2>1 DEF PipeInv, SucceededHasReview
  <2>2. CASE CompleteReview
    <3>1. k # task => row'[k] = row[k]
      BY <2>2 DEF CompleteReview, Complete, PipeInv, ReviewTypeOK, TypeOK
    <3> QED
      BY <2>1, <2>2, <3>1
  <2> QED
    BY <2>1, <2>2, OnlyCompleteSucceeds
<1> QED
  BY <1>0, <1>1 DEF PipeInv, ReviewedIsReady, SucceededHasReview, RecordedIsInLedger

(* The queue stays well typed. *)
LEMMA QueueTypeStays ==
  ASSUME PipeInv, [PipelineStep]_pipeVars
  PROVE  TypeOK'
BY QueueSimulated, TypeStep DEF PipeInv, ReviewTypeOK

(* The worker's moves that leave the store and the queue as they are. *)
LEMMA MoveStep ==
  ASSUME PipeInv, BeginStep \/ EndSweep \/ EndStep \/ Load \/ AskReviewer \/ ProcessRaises
  PROVE  PipeInv'
<1>0. [PipelineStep]_pipeVars
  BY DEF PipelineStep, WorkerStep
<1>1. UNCHANGED <<activity, status, review, ledger, announced, row, outbox, held, reply, asking>>
  BY DEF BeginStep, EndSweep, EndStep, Load, AskReviewer, ProcessRaises, Raises, storeVars,
     queueVars
<1>2. CASE BeginStep \/ EndSweep \/ EndStep
  <2>1. pc' \in {"sweep", "claim", "idle"} /\ listed' \in SUBSET Keys
    BY <1>2 DEF BeginStep, EndSweep, EndStep, PipeInv, ReviewTypeOK
  <2>2. ReviewTypeOK'
    BY <1>0, <1>1, <2>1, QueueTypeStays DEF PipeInv, ReviewTypeOK, Places
  <2>3. InHand'
    BY <2>1 DEF InHand, Holding
  <2> QED
    BY <1>0, <1>1, <1>2, <2>2, <2>3, StoreStays DEF PipeInv, storeVars, CompleteReview,
       BeginStep, EndSweep, EndStep
<1>3. CASE Load \/ AskReviewer \/ ProcessRaises
  <2>1. /\ UNCHANGED <<task, listed>> /\ pc \in {"load", "ask", "record", "store"}
        /\ \/ pc' = "complete" /\ review[task] # NoReview
           \/ pc' \in {"ask", "record"} /\ review[task] = NoReview
           \/ pc' = "fail" /\ note' \in Categories
    <3>1. CASE Load
      BY <3>1 DEF Load, Raises, Categories, NotRetryable
    <3>2. CASE AskReviewer
      <4>1. UnavailableCategories \cup {"invalid_input"} \subseteq Categories
        BY DEF UnavailableCategories, Categories, Retryable, NotRetryable
      <4> QED
        BY <3>2, <4>1 DEF AskReviewer, Raises, PipeInv, InHand
    <3>3. CASE ProcessRaises
      BY <3>3 DEF ProcessRaises, Raises, Categories, NotRetryable
    <3> QED
      BY <1>3, <3>1, <3>2, <3>3
  <2>2. ReviewTypeOK'
    BY <1>0, <1>1, <2>1, QueueTypeStays DEF PipeInv, ReviewTypeOK, Places, Holding
  <2>3. InHand'
    BY <1>1, <2>1 DEF PipeInv, InHand, Holding
  <2>4. ~CompleteReview
    BY <2>1 DEF CompleteReview
  <2> QED
    BY <1>0, <1>1, <2>2, <2>3, <2>4, StoreStays DEF PipeInv, storeVars
<1> QED
  BY <1>2, <1>3

(* The steps of the queue: what the worker holds is dropped with its answer. *)
LEMMA QueueStep ==
  ASSUME PipeInv,
         \/ SweepEnqueue \/ CompleteReview \/ FailReview \/ ReviewLeaseLost \/ WorkerCrash
         \/ Housekeeping \/ \E k \in Keys : ClaimReview(k) \/ RequestEnqueue(k) \/ RequestDropped(k)
  PROVE  PipeInv'
<1>0. [PipelineStep]_pipeVars
  BY DEF PipelineStep, WorkerStep
<1>1. /\ UNCHANGED <<activity, status, review, ledger, announced, listed, note>>
      /\ asking' \in SUBSET Keys
  BY DEF SweepEnqueue, CompleteReview, FailReview, ReviewLeaseLost, WorkerCrash, Housekeeping,
     ClaimReview, RequestEnqueue, RequestDropped, storeVars, workVars, reviewVars,
     PipeInv, ReviewTypeOK
<1>2. CompleteReview => review[task] # NoReview
  BY DEF CompleteReview, PipeInv, InHand
<1>3. pc' \in Places /\ InHand'
  <2>1. CASE SweepEnqueue \/ CompleteReview \/ ReviewLeaseLost \/ WorkerCrash
    <3>1. pc' \in {"sweep", "idle", "claim"}
      BY <2>1 DEF SweepEnqueue, CompleteReview, ReviewLeaseLost, WorkerCrash
    <3> QED
      BY <3>1 DEF InHand, Places, Holding
  <2>2. CASE FailReview
    <3>1. pc' \in {"mark", "claim"} /\ task' \in Keys
      BY <2>2 DEF FailReview, PipeInv, InHand, Holding
    <3> QED
      BY <3>1 DEF InHand, Places, Holding
  <2>3. ASSUME NEW k \in Keys, ClaimReview(k) PROVE pc' \in Places /\ InHand'
    <3>1. pc' = "load" /\ task' = k /\ held'[Reviewer] = <<k, row[k].attempts + 1>>
      BY <2>3, ReviewAssumption DEF ClaimReview, Claim, PipeInv, ReviewTypeOK, TypeOK
    <3>2. row[k].attempts + 1 \in Nat
      BY RowFields DEF PipeInv, ReviewTypeOK
    <3> QED
      BY <3>1, <3>2 DEF InHand, Places, Holding
  <2>4. CASE Housekeeping \/ \E k \in Keys : RequestEnqueue(k) \/ RequestDropped(k)
    <3>1. UNCHANGED <<pc, task, held>>
      BY <2>4 DEF Housekeeping, RequestEnqueue, RequestDropped, Enqueue, ReclaimExpired, Tick,
         reviewVars, workVars, queueVars
    <3> QED
      BY <1>1, <3>1 DEF PipeInv, ReviewTypeOK, InHand
  <2> QED
    BY <2>1, <2>2, <2>3, <2>4
<1>4. ReviewTypeOK'
  BY <1>0, <1>1, <1>3, QueueTypeStays DEF PipeInv, ReviewTypeOK
<1> QED
  BY <1>0, <1>1, <1>2, <1>3, <1>4, StoreStays DEF PipeInv, storeVars

(* _request and the self-review touch an activity that has no review; the worker's      *)
(* listing may be stale, and both callers check again.                                  *)
LEMMA RequestStep ==
  ASSUME PipeInv, NEW k \in Keys, SubmitSelfReview(k) \/ Request(k) \/ SweepRequest(k)
  PROVE  PipeInv'
<1>0. [PipelineStep]_pipeVars
  BY DEF PipelineStep, WorkerStep
<1>1. /\ UNCHANGED <<review, ledger, announced, row, held, note>>
      /\ listed' \in SUBSET Keys /\ asking' \in SUBSET Keys
  BY DEF SubmitSelfReview, Request, SweepRequest, MoveToProcessing, storeVars, queueVars,
     workVars, PipeInv, ReviewTypeOK
<1>2. \/ UNCHANGED <<activity, status>>
      \/ /\ review[k] = NoReview /\ UNCHANGED status
         /\ activity[k] # "feedback_ready"
         /\ activity' = [activity EXCEPT ![k] = "self_review_complete"]
      \/ /\ review[k] = NoReview
         /\ activity' = [activity EXCEPT ![k] = "ai_processing"]
         /\ status' = [status EXCEPT ![k] = StatusRow("analyzing", NoError)]
  BY DEF SubmitSelfReview, Request, SweepRequest, MoveToProcessing, Requestable, storeVars,
     PipeInv, ReviewTypeOK, ReviewedIsReady
<1>3. ReviewedIsReady'
  <2>1. CASE UNCHANGED <<activity, status>>
    BY <1>1, <2>1 DEF PipeInv, ReviewedIsReady
  <2>2. CASE /\ review[k] = NoReview /\ UNCHANGED status
             /\ activity' = [activity EXCEPT ![k] = "self_review_complete"]
    BY <1>1, <2>2 DEF PipeInv, ReviewTypeOK, ReviewedIsReady
  <2>3. CASE /\ review[k] = NoReview
             /\ activity' = [activity EXCEPT ![k] = "ai_processing"]
             /\ status' = [status EXCEPT ![k] = StatusRow("analyzing", NoError)]
    <3>1. StatusRow("analyzing", NoError).state = "analyzing"
      BY DEF StatusRow
    <3>2. \A j \in Keys : /\ status'[j] = IF j = k THEN StatusRow("analyzing", NoError)
                                                   ELSE status[j]
                          /\ activity'[j] = IF j = k THEN "ai_processing" ELSE activity[j]
      BY <2>3 DEF PipeInv, ReviewTypeOK
    <3> QED
      BY <1>1, <2>3, <3>1, <3>2 DEF PipeInv, ReviewedIsReady
  <2> QED
    BY <1>2, <2>1, <2>2, <2>3
<1>4. SucceededHasReview' /\ RecordedIsInLedger'
  BY <1>1 DEF PipeInv, SucceededHasReview, RecordedIsInLedger
<1>5. activity' \in [Keys -> ActivityStates] /\ DOMAIN status' = Keys
  BY <1>2 DEF PipeInv, ReviewTypeOK, ActivityStates
<1>6. pc' \in Places /\ InHand'
  <2>1. CASE UNCHANGED <<pc, task>>
    BY <1>1, <2>1 DEF PipeInv, ReviewTypeOK, InHand
  <2>2. CASE pc' = "enqueue" /\ task' = k
    BY <2>2 DEF InHand, Places, Holding
  <2> QED
    BY <2>1, <2>2 DEF SubmitSelfReview, Request, SweepRequest, workVars
<1>7. ReviewTypeOK'
  BY <1>0, <1>1, <1>5, <1>6, QueueTypeStays DEF PipeInv, ReviewTypeOK
<1> QED
  BY <1>3, <1>4, <1>6, <1>7 DEF PipeInv

(* record_atomic: what the ledger holds under the key is this attempt's or stays. *)
LEMMA RecordStep ==
  ASSUME PipeInv, RecordEvidence
  PROVE  PipeInv'
<1>0. [PipelineStep]_pipeVars
  BY DEF PipelineStep, WorkerStep
<1>1. /\ UNCHANGED <<activity, status, review, announced, task, listed, asking, row, held>>
      /\ pc = "record" /\ pc' = "store"
  BY DEF RecordEvidence, queueVars
<1>2. /\ task \in Keys /\ held[Reviewer] \in Keys \X Nat /\ held[Reviewer][1] = task
      /\ review[task] = NoReview /\ held[Reviewer][2] \in Nat
  BY <1>1 DEF PipeInv, InHand, Holding
<1>3. /\ ledger' \in [Keys -> Nat] /\ note' \in {"recorded", "unrecorded"}
      /\ note' = "recorded" => ledger'[task] = held[Reviewer][2]
      /\ \A k \in Keys : k # task => ledger'[k] = ledger[k]
  BY <1>2 DEF RecordEvidence, PipeInv, ReviewTypeOK
<1>4. ReviewTypeOK'
  BY <1>0, <1>1, <1>3, QueueTypeStays DEF PipeInv, ReviewTypeOK, Places, Holding
<1>5. InHand'
  BY <1>1, <1>2, <1>3 DEF InHand, Holding
<1>6. ReviewedIsReady' /\ SucceededHasReview'
  BY <1>1 DEF PipeInv, ReviewedIsReady, SucceededHasReview
<1>7. RecordedIsInLedger'
  BY <1>1, <1>2, <1>3 DEF PipeInv, RecordedIsInLedger, NoReview
<1> QED
  BY <1>4, <1>5, <1>6, <1>7 DEF PipeInv

(* The last transaction of process: the review, the activity, its status and its event *)
(* are written together.                                                                *)
LEMMA StoreStep ==
  ASSUME PipeInv, StoreReview
  PROVE  PipeInv'
<1>0. [PipelineStep]_pipeVars
  BY DEF PipelineStep, WorkerStep
<1> DEFINE new == [run |-> held[Reviewer][2], evidence |-> note]
<1>1. /\ UNCHANGED <<ledger, task, note, listed, asking, row, held>>
      /\ pc = "store" /\ pc' = "complete"
      /\ review' = [review EXCEPT ![task] = new]
      /\ activity' = [activity EXCEPT ![task] = "feedback_ready"]
      /\ status' = [status EXCEPT ![task] = StatusRow("ready", NoError)]
      /\ announced' = announced \cup {task}
  BY DEF StoreReview, queueVars
<1>2. /\ task \in Keys /\ held[Reviewer] \in Keys \X Nat /\ held[Reviewer][1] = task
      /\ held[Reviewer][2] \in Nat /\ note \in {"recorded", "unrecorded"}
      /\ note = "recorded" => ledger[task] = held[Reviewer][2]
  BY <1>1 DEF PipeInv, InHand, Holding
<1>3. new \in [run : Nat, evidence : {"none", "recorded", "unrecorded"}] /\ new # NoReview
      /\ new.run = held[Reviewer][2] /\ new.evidence = note
  BY <1>2 DEF NoReview
<1> HIDE DEF new
<1>4. \A k \in Keys :
        /\ review'[k] = IF k = task THEN new ELSE review[k]
        /\ activity'[k] = IF k = task THEN "feedback_ready" ELSE activity[k]
        /\ status'[k] = IF k = task THEN StatusRow("ready", NoError) ELSE status[k]
        /\ k \in announced' <=> k = task \/ k \in announced
  BY <1>1, <1>2 DEF PipeInv, ReviewTypeOK
<1>5. ReviewTypeOK'
  <2>1. review' \in [Keys -> [run : Nat, evidence : {"none", "recorded", "unrecorded"}]]
    BY <1>1, <1>2, <1>3 DEF PipeInv, ReviewTypeOK
  <2>2. activity' \in [Keys -> ActivityStates] /\ DOMAIN status' = Keys
        /\ announced' \in SUBSET Keys
    BY <1>1, <1>2 DEF PipeInv, ReviewTypeOK, ActivityStates
  <2> QED
    BY <1>0, <1>1, <2>1, <2>2, QueueTypeStays DEF PipeInv, ReviewTypeOK, Places, Holding
<1>6. InHand'
  BY <1>1, <1>2, <1>3, <1>4 DEF InHand, Holding
<1>7. ReviewedIsReady'
  <2>1. StatusRow("ready", NoError).state = "ready"
    BY DEF StatusRow
  <2> QED
    BY <1>3, <1>4, <2>1 DEF PipeInv, ReviewedIsReady
<1>8. SucceededHasReview'
  BY <1>1, <1>3, <1>4 DEF PipeInv, SucceededHasReview
<1>9. RecordedIsInLedger'
  BY <1>1, <1>2, <1>3, <1>4 DEF PipeInv, RecordedIsInLedger
<1> QED
  BY <1>5, <1>6, <1>7, <1>8, <1>9 DEF PipeInv

(* mark_failed: validate_processing_status refuses a failed status without details, so  *)
(* the transaction rolls back whatever the category.                                    *)
LEMMA MarkFailedChangesNothing ==
  ASSUME MarkFailed
  PROVE  UNCHANGED status /\ pc' = "idle"
<1>1. ~StatusAccepted(StatusRow("needs_attention", note))
  BY DEF StatusAccepted, StatusRow
<1> QED
  BY <1>1 DEF MarkFailed

LEMMA MarkStep ==
  ASSUME PipeInv, MarkFailed
  PROVE  PipeInv'
<1>0. [PipelineStep]_pipeVars
  BY DEF PipelineStep, WorkerStep
<1>1. UNCHANGED <<activity, status, review, ledger, announced, listed, asking, row, held>>
      /\ pc' = "idle"
  BY MarkFailedChangesNothing DEF MarkFailed, queueVars
<1>2. ReviewTypeOK'
  BY <1>0, <1>1, QueueTypeStays DEF PipeInv, ReviewTypeOK, Places
<1>3. InHand'
  BY <1>1 DEF InHand, Holding
<1> QED
  BY <1>1, <1>2, <1>3 DEF PipeInv, ReviewedIsReady, SucceededHasReview, RecordedIsInLedger

(* Every step keeps the invariant. *)
LEMMA PipeInductive ==
  ASSUME PipeInv, [PipelineStep]_pipeVars
  PROVE  PipeInv'
<1>1. CASE UNCHANGED pipeVars
  <2> USE <1>1 DEF pipeVars
  <2>1. ReviewTypeOK'
    BY QueueTypeStays DEF PipeInv, ReviewTypeOK
  <2>2. InHand'
    BY DEF PipeInv, InHand
  <2> QED
    BY <2>1, <2>2 DEF PipeInv, ReviewedIsReady, SucceededHasReview, RecordedIsInLedger
<1>2. CASE WorkerStep
  BY <1>2, MoveStep, QueueStep, RequestStep, RecordStep, StoreStep, MarkStep DEF WorkerStep
<1>3. CASE \/ WorkerCrash \/ Housekeeping
  BY <1>3, QueueStep
<1>4. ASSUME NEW k \in Keys, SubmitSelfReview(k) \/ Request(k) PROVE PipeInv'
  BY <1>4, RequestStep
<1>5. ASSUME NEW k \in Keys, RequestEnqueue(k) \/ RequestDropped(k) PROVE PipeInv'
  BY <1>5, QueueStep
<1> QED
  BY <1>1, <1>2, <1>3, <1>4, <1>5 DEF PipelineStep

-----------------------------------------------------------------------------
(* The gate only says when a step may begin.                                             *)
LEMMA GateAside == [ReviewNext]_allVars => [PipelineStep]_pipeVars
BY DEF ReviewNext, GateMoves, allVars

(* Where ReviewService and review_step are, and what the worker knows there. *)
THEOREM PipeInvariant == ReviewSpec => []PipeInv
<1>1. ReviewInit => PipeInv
  BY PipeInitial
<1>2. PipeInv /\ [PipelineStep]_pipeVars => PipeInv'
  BY PipeInductive
<1> QED
  BY <1>1, <1>2, GateAside, PTL DEF ReviewSpec

(* The pipeline implements the job queue: review_step and the API use claim, complete,   *)
(* retry and enqueue only as the queue's protocol allows, crashes included.              *)
THEOREM PipelineImplementsQueue == ReviewSpec => ImplementsQueue
<1>1. ReviewInit => Init
  BY PipeInitial
<1>2. PipeInv /\ [PipelineStep]_pipeVars => [Next]_queueVars
  BY QueueSimulated
<1> QED
  BY <1>1, <1>2, GateAside, PipeInvariant, PTL DEF ReviewSpec, Spec, ImplementsQueue

(* So a review's job that waits can be claimed, and no constraint, no unique event key   *)
(* and no update guard of background_jobs ever rolls a step of the pipeline back.        *)
THEOREM QueuePromisesHold ==
  ReviewSpec => /\ [](QueuedIsClaimable /\ LifecycleCoherent /\ EventsNeverCollide)
                /\ FencedTransition /\ UpdatesAccepted
<1>1. ReviewSpec => Spec
  BY PipelineImplementsQueue DEF ImplementsQueue
<1> QED
  BY <1>1, QueuedStaysClaimable, ConstraintsNeverBite, OutboxKeysAreFresh, LeaseFences,
     GuardNeverRejects, PTL

(* process: a stored review, its activity, its status and its event agree, whatever late *)
(* request, retry or failed attempt follows.                                             *)
THEOREM ReviewedIsReadyHolds == ReviewSpec => []ReviewedIsReady
<1>1. PipeInv => ReviewedIsReady
  BY DEF PipeInv
<1> QED
  BY <1>1, PipeInvariant, PTL

(* complete: a job that succeeded left a review.                                         *)
THEOREM SucceededHasReviewHolds == ReviewSpec => []SucceededHasReview
<1>1. PipeInv => SucceededHasReview
  BY DEF PipeInv
<1> QED
  BY <1>1, PipeInvariant, PTL

(* record_atomic: a review that says "recorded" shows the scores the ledger holds,       *)
(* however many attempts the job took.                                                   *)
THEOREM RecordedIsInLedgerHolds == ReviewSpec => []RecordedIsInLedger
<1>1. PipeInv => RecordedIsInLedger
  BY DEF PipeInv
<1> QED
  BY <1>1, PipeInvariant, PTL

=============================================================================
