------------------------------ MODULE JobQueue ------------------------------
(***************************************************************************)
(* The durable PostgreSQL job queue: jobs/repository.py (one transaction   *)
(* per operation), the retry policy of jobs/policy.py, the background_jobs *)
(* and outbox_events tables of notifications/models.py, and the processes  *)
(* that claim and finish jobs (workers/claude.py, workers/speech.py) or    *)
(* reclaim them (workers/general.py).                                      *)
(*                                                                         *)
(* Time is relative to now: a row stores how far its available_at and its  *)
(* lease_expires_at still lie ahead, and Tick brings both one unit closer. *)
(* A row is named by its idempotency key, which the table keeps unique;    *)
(* kind, priority and max_attempts are functions of the key, because every *)
(* caller derives them from what it derives the key from.  Only            *)
(* available_at differs between two requests under one key.                *)
(***************************************************************************)
EXTENDS Integers, FiniteSets

CONSTANTS
  Keys,           \* idempotency keys, one background_jobs row each
  Workers,        \* worker processes, each with its own worker_id
  KindOf,         \* the kind of the job a key stands for
  KindsOf,        \* the kinds a worker registers for
  PriorityOf,     \* 100 ingest, 60 speech, 40 Claude
  MaxAttempts,    \* max_attempts of the job of a key
  LeaseLength,    \* lease_seconds of a claim and of a heartbeat
  LeaseCap,       \* bound: how far ahead heartbeats may push a lease
  BackoffBase,    \* the 5 seconds of the exponential backoff
  DelayCap,       \* its ceiling of 300 seconds
  RetryCap,       \* the most a failure may ask for: 86400 seconds
  RetryAfter,     \* the retry_after_seconds failures name, which no ceiling cuts
  ReclaimLimit,   \* rows one reclaim_expired transaction may take
  NoWorker,       \* lease_owner IS NULL
  NoJob           \* a worker process with no claimed job

ASSUME JobQueueAssumption ==
  /\ IsFiniteSet(Keys) /\ IsFiniteSet(Workers)
  /\ NoWorker \notin Workers
  /\ NoJob \notin Keys \X Nat
  /\ MaxAttempts \in [Keys -> Nat \ {0}]
  /\ PriorityOf \in [Keys -> 0..100]
  /\ LeaseLength \in Nat \ {0} /\ LeaseCap \in Nat /\ LeaseLength <= LeaseCap
  /\ BackoffBase \in Nat /\ DelayCap \in Nat
  /\ RetryCap \in Nat /\ DelayCap <= RetryCap /\ RetryAfter \subseteq 0..RetryCap
  /\ ReclaimLimit \in Nat \ {0}

Retryable    == {"transient_dependency", "resource_exhausted"}
NotRetryable == {"invalid_input", "permission_required", "processing_failure",
                 "internal_error"}
Categories   == Retryable \cup NotRetryable
NoError      == "none"

VARIABLES
  row,      \* background_jobs, one record per key
  outbox,   \* idempotency keys of the outbox_events the queue has written
  held,     \* the job and attempt each live worker process believes it runs
  reply     \* the last enqueue under a key: did it repeat the first command, the answer

queueVars == <<row, outbox, held, reply>>

States   == {"absent", "queued", "running", "succeeded", "failed", "canceled"}
Terminal == {"succeeded", "failed", "canceled"}

\* One background_jobs row.  "rescheduled" records that retry or reclaim has
\* overwritten the available_at the job was enqueued with.
Row == [state: States, attempts: Nat, wait: 0..RetryCap, rescheduled: BOOLEAN,
        owner: Workers \cup {NoWorker}, lease: 0..LeaseCap,
        error: Categories \cup {NoError}]

JobRow(state, attempts, wait, rescheduled, owner, lease, error) ==
  [state |-> state, attempts |-> attempts, wait |-> wait, rescheduled |-> rescheduled,
   owner |-> owner, lease |-> lease, error |-> error]

NoRow == JobRow("absent", 0, 0, FALSE, NoWorker, 0, NoError)

EventTypes == {"queued", "running", "retry_wait", "succeeded",
               "needs_attention", "canceled"}

\* validate_background_job and the CHECK constraints, on the modelled columns.
Coherent(r) ==
  /\ (r.state = "running") = (r.owner # NoWorker)
  /\ r.state # "running" => r.lease = 0
  /\ r.state \in {"running", "succeeded", "failed"} => r.attempts > 0
  /\ r.state \in {"running", "succeeded", "canceled"} => r.error = NoError
  /\ r.state = "failed" => r.error # NoError

JobTransitions == {<<"queued", "running">>, <<"queued", "canceled">>} \cup
                  ({"running"} \X {"queued", "succeeded", "failed", "canceled"})

\* validate_background_job_update: may the row old become new?
UpdateAccepted(old, new) ==
  /\ old.state \notin Terminal
  /\ new.state # old.state => <<old.state, new.state>> \in JobTransitions
  /\ new.attempts = IF old.state = "queued" /\ new.state = "running"
                      THEN old.attempts + 1 ELSE old.attempts
  /\ (old.state = "running" /\ new.state = "running") =>
       /\ new.owner = old.owner /\ new.error = old.error /\ new.wait = old.wait
       /\ new.lease >= old.lease
  /\ (old.state = "running" /\ new.state = "queued") =>
       (old.lease = 0 \/ new.error \in Retryable)

(* Every column holds a value of its type; in particular the wait of a row  *)
(* stays within the day that schemas.py lets a failure ask for, because     *)
(* retry cuts the doubling backoff at its ceiling.                          *)
TypeOK ==
  /\ row \in [Keys -> Row]
  /\ outbox \subseteq Keys \X EventTypes \X Nat
  /\ held \in [Workers -> {NoJob} \cup (Keys \X Nat)]
  /\ reply \in [Keys -> [same: BOOLEAN, answer: {"none", "created", "replayed", "conflict"}]]

Init ==
  /\ row = [k \in Keys |-> NoRow]
  /\ outbox = {}
  /\ held = [w \in Workers |-> NoJob]
  /\ reply = [k \in Keys |-> [same |-> FALSE, answer |-> "none"]]

-----------------------------------------------------------------------------
(* The event a transition writes in its own transaction.  Its idempotency   *)
(* key is unique in the table: a second insert fails and rolls the          *)
(* transition back.                                                         *)
StatusEvent(k, type, attempt) ==
  /\ <<k, type, attempt>> \notin outbox
  /\ outbox' = outbox \cup {<<k, type, attempt>>}

UncappedBackoff(attempt) == BackoffBase * 2^(attempt - 1)

\* The delay before a retry when the failure names none.
Backoff(attempt) ==
  LET delay == BackoffBase * 2^(attempt - 1)
  IN  IF delay \in 0..DelayCap THEN delay ELSE DelayCap

RetryPastLimit(k, category) ==
  IF category \in Retryable /\ row[k].attempts <= MaxAttempts[k]
    THEN "retry_wait" ELSE "needs_attention"

\* retry_disposition: whether a failed attempt is tried again.
RetryDisposition(k, category) ==
  IF category \in Retryable /\ row[k].attempts < MaxAttempts[k]
    THEN "retry_wait" ELSE "needs_attention"

\* A replay must repeat the row's current available_at.
SameEnqueue(k, sameAvailableAt) == sameAvailableAt /\ ~row[k].rescheduled

Enqueue(k, delay, sameAvailableAt) ==
  /\ \/ /\ row[k].state = "absent"
        /\ row' = [row EXCEPT ![k] = JobRow("queued", 0, delay, FALSE, NoWorker, 0, NoError)]
        /\ reply' = [reply EXCEPT ![k] = [same |-> TRUE, answer |-> "created"]]
        /\ StatusEvent(k, "queued", 0)
     \/ /\ row[k].state # "absent"
        /\ reply' = [reply EXCEPT ![k] =
             [same |-> sameAvailableAt,
              answer |-> IF SameEnqueue(k, sameAvailableAt) THEN "replayed" ELSE "conflict"]]
        /\ UNCHANGED <<row, outbox>>
  /\ UNCHANGED held

\* The rows the claim query selects for worker w.
Claimable(w) ==
  {k \in Keys : /\ row[k].state = "queued"
                /\ row[k].wait = 0
                /\ row[k].attempts < MaxAttempts[k]
                /\ KindOf[k] \in KindsOf[w]}

ClaimedKeepingError(w, k) ==
  JobRow("running", row[k].attempts + 1, row[k].wait, row[k].rescheduled,
         w, LeaseLength, row[k].error)

Claimed(w, k) ==
  JobRow("running", row[k].attempts + 1, row[k].wait, row[k].rescheduled,
         w, LeaseLength, NoError)

\* The query takes the highest priority among the rows that no concurrent
\* transaction has locked (SKIP LOCKED); FIFO among equals is left open.
Claim(w, k) ==
  /\ held[w] = NoJob
  /\ \E locked \in SUBSET (Claimable(w) \ {k}) :
       /\ Cardinality(locked) < Cardinality(Workers)
       /\ k \in Claimable(w)
       /\ \A other \in Claimable(w) \ locked : PriorityOf[k] >= PriorityOf[other]
  /\ row' = [row EXCEPT ![k] = Claimed(w, k)]
  /\ held' = [held EXCEPT ![w] = <<k, row[k].attempts + 1>>]
  /\ StatusEvent(k, "running", row[k].attempts + 1)
  /\ UNCHANGED reply

OwnsAnyLease(w, k) ==
  /\ row[k].state = "running"
  /\ row[k].lease > 0

\* _running_job: the row is running, under this worker's unexpired lease.
OwnsLease(w, k) ==
  /\ row[k].state = "running"
  /\ row[k].owner = w
  /\ row[k].lease > 0

\* The row with other distances to its available_at and its lease_expires_at.
Aged(k, wait, lease) ==
  JobRow(row[k].state, row[k].attempts, wait, row[k].rescheduled,
         row[k].owner, lease, row[k].error)

Heartbeat(w, k) ==
  /\ held[w] # NoJob /\ held[w][1] = k
  /\ OwnsLease(w, k)
  /\ row[k].lease + LeaseLength <= LeaseCap
  /\ row' = [row EXCEPT ![k] = Aged(k, row[k].wait, row[k].lease + LeaseLength)]
  /\ UNCHANGED <<outbox, held, reply>>

Finished(k, state, error) ==
  JobRow(state, row[k].attempts, row[k].wait, row[k].rescheduled, NoWorker, 0, error)

Requeued(k, delay, error) ==
  JobRow("queued", row[k].attempts, delay, TRUE, NoWorker, 0, error)

Complete(w, k) ==
  /\ held[w] # NoJob /\ held[w][1] = k
  /\ OwnsLease(w, k)
  /\ row' = [row EXCEPT ![k] = Finished(k, "succeeded", row[k].error)]
  /\ StatusEvent(k, "succeeded", row[k].attempts)
  /\ held' = [held EXCEPT ![w] = NoJob]
  /\ UNCHANGED reply

Retry(w, k, category) ==
  /\ held[w] # NoJob /\ held[w][1] = k
  /\ OwnsLease(w, k)
  /\ IF RetryDisposition(k, category) = "retry_wait"
       THEN \E delay \in RetryAfter \cup {Backoff(row[k].attempts)} :
              row' = [row EXCEPT ![k] = Requeued(k, delay, category)]
       ELSE row' = [row EXCEPT ![k] = Finished(k, "failed", category)]
  /\ StatusEvent(k, RetryDisposition(k, category), row[k].attempts)
  /\ held' = [held EXCEPT ![w] = NoJob]
  /\ UNCHANGED reply

\* complete and retry raise JobConflict when the lease is gone: the step ends.
LeaseLost(w, k) ==
  /\ held[w] # NoJob /\ held[w][1] = k
  /\ ~OwnsLease(w, k)
  /\ held' = [held EXCEPT ![w] = NoJob]
  /\ UNCHANGED <<row, outbox, reply>>

\* The process dies between its claim and its answer.
Crash(w) ==
  /\ held[w] # NoJob
  /\ held' = [held EXCEPT ![w] = NoJob]
  /\ UNCHANGED <<row, outbox, reply>>

CancelFinished(k) ==
  /\ row[k].state \notin {"absent", "canceled"}
  /\ row' = [row EXCEPT ![k] = Finished(k, "canceled", NoError)]
  /\ StatusEvent(k, "canceled", row[k].attempts)
  /\ UNCHANGED <<held, reply>>

\* cancel answers a canceled job unchanged and refuses a finished one.
Cancel(k) ==
  /\ row[k].state \in {"queued", "running"}
  /\ row' = [row EXCEPT ![k] = Finished(k, "canceled", NoError)]
  /\ StatusEvent(k, "canceled", row[k].attempts)
  /\ UNCHANGED <<held, reply>>

ExpiredWithAttemptsLeft ==
  {k \in Keys : /\ row[k].state = "running" /\ row[k].lease = 0
                /\ row[k].attempts < MaxAttempts[k]}

\* The rows reclaim_expired selects.
Expired == {k \in Keys : row[k].state = "running" /\ row[k].lease = 0}

ReclaimedForFree(k) ==
  JobRow("queued", row[k].attempts - 1, 0, TRUE, NoWorker, 0, "transient_dependency")

\* The row and the event reclaim_expired leaves for one expired lease.
Reclaimed(k) ==
  IF row[k].attempts < MaxAttempts[k]
    THEN Requeued(k, 0, "transient_dependency")
    ELSE Finished(k, "failed", "processing_failure")

ReclaimEvent(k) ==
  <<k, IF row[k].attempts < MaxAttempts[k] THEN "retry_wait" ELSE "needs_attention",
    row[k].attempts>>

\* One transaction over a batch of expired leases; rows another transaction
\* has locked are skipped.
ReclaimExpired(batch) ==
  /\ batch # {} /\ batch \subseteq Expired /\ Cardinality(batch) <= ReclaimLimit
  /\ \A k \in batch : ReclaimEvent(k) \notin outbox
  /\ row' = [k \in Keys |-> IF k \in batch THEN Reclaimed(k) ELSE row[k]]
  /\ outbox' = outbox \cup {ReclaimEvent(k) : k \in batch}
  /\ UNCHANGED <<held, reply>>

Closer(n) == IF n > 0 THEN n - 1 ELSE 0

Tick ==
  /\ \E k \in Keys : row[k].wait > 0 \/ row[k].lease > 0
  /\ row' = [k \in Keys |-> Aged(k, Closer(row[k].wait), Closer(row[k].lease))]
  /\ UNCHANGED <<outbox, held, reply>>

Next ==
  \* available_at is now, as every caller has it, or lies ahead
  \/ \E k \in Keys, same \in BOOLEAN, delay \in {0, DelayCap} : Enqueue(k, delay, same)
  \/ \E w \in Workers, k \in Keys :
       \/ Claim(w, k)
       \/ Heartbeat(w, k)
       \/ Complete(w, k)
       \/ \E category \in Categories : Retry(w, k, category)
       \/ LeaseLost(w, k)
  \/ \E w \in Workers : Crash(w)
  \/ \E k \in Keys : Cancel(k)
  \/ \E batch \in SUBSET Keys : ReclaimExpired(batch)
  \/ Tick

Spec == Init /\ [][Next]_queueVars

(***************************************************************************)
(* The worker loops of workers/runtime.py run their step again and again,  *)
(* so a worker that can claim eventually does (the Claude worker while its *)
(* gate is open: ReviewPipeline has the gate) and the housekeeping worker  *)
(* eventually reclaims; a claimed job's processing ends, because every     *)
(* handler closes its job in each of its except branches, or the process   *)
(* dies.  Time passes.  Nobody has to enqueue, cancel or send a heartbeat. *)
(***************************************************************************)
Fairness ==
  /\ WF_queueVars(Tick)
  /\ WF_queueVars(\E batch \in SUBSET Keys : ReclaimExpired(batch))
  /\ \A w \in Workers :
       /\ WF_queueVars(\E k \in Keys : Claim(w, k))
       /\ WF_queueVars(\/ Crash(w)
                       \/ \E k \in Keys : \/ Complete(w, k)
                                         \/ \E category \in Categories : Retry(w, k, category)
                                         \/ LeaseLost(w, k))

FairSpec == Spec /\ Fairness

-----------------------------------------------------------------------------
(* A job that is waiting can still be claimed: the claim query's bound on   *)
(* attempt_count never strands a row in the queue, whatever mix of retries  *)
(* and reclaims brought it back there.                                      *)
QueuedIsClaimable ==
  \A k \in Keys : /\ row[k].state = "queued" => row[k].attempts < MaxAttempts[k]
                  /\ row[k].attempts <= MaxAttempts[k]

(* The CHECK constraints of background_jobs and validate_background_job     *)
(* hold after every operation, so none of them ever rejects a row that the  *)
(* repository wants to write.                                               *)
LifecycleCoherent == \A k \in Keys : Coherent(row[k])

\* The events the transitions open to the row of k would write.
NextEvents(k) ==
  CASE row[k].state = "absent"  -> {<<k, "queued", 0>>}
    [] row[k].state = "queued"  -> {<<k, "running", row[k].attempts + 1>>,
                                    <<k, "canceled", row[k].attempts>>}
    [] row[k].state = "running" -> {<<k, t, row[k].attempts>> :
                                      t \in {"retry_wait", "succeeded",
                                            "needs_attention", "canceled"}}
    [] OTHER -> {}

(* The unique key job:<id>:<event_type>:<attempt_count> of a status event   *)
(* is fresh for every transition a job can make next: the outbox insert     *)
(* never collides and never rolls a claim, an answer or a reclaim back.     *)
EventsNeverCollide == \A k \in Keys : NextEvents(k) \cap outbox = {}

(* What _running_job and FOR UPDATE promise together: while a lease is live *)
(* only its holder's current attempt (or the owner's cancellation) moves    *)
(* the row, and nobody else takes it over; once it has run out only a       *)
(* reclaim or a cancellation does.                                          *)
FencedTransition ==
  [][\A k \in Keys : (row[k].state = "running" /\ row'[k].owner # row[k].owner) =>
       \/ row'[k].state = "canceled"
       \/ /\ row[k].lease = 0
          /\ row'[k] = Reclaimed(k)
       \/ /\ row[k].lease > 0
          /\ row'[k].state # "running"
          /\ held[row[k].owner] = <<k, row[k].attempts>>]_queueVars

(* The guard on updates never rejects what the repository does: whatever    *)
(* answer, reclaim or cancellation comes late, a finished job never changes *)
(* again, attempt_count moves only on a claim, a heartbeat never shortens   *)
(* a lease, and only a retryable failure or an expired lease requeues.      *)
UpdatesAccepted ==
  [][Tick \/ \A k \in Keys : (row[k].state # "absent" /\ row'[k] # row[k])
                              => UpdateAccepted(row[k], row'[k])]_queueVars

(* Every job that was enqueued ends, through any number of crashes, lost    *)
(* leases and retries.                                                      *)
JobsEnd == \A k \in Keys : row[k].state = "queued" ~> row[k].state \in Terminal

(* speech/jobs.py: "one recording and one transcript enqueue the same job   *)
(* however many times the request is replayed" - an enqueue that repeats    *)
(* the first command under its key is answered with the existing job.       *)
ReplayReturnsJob ==
  \A k \in Keys : reply[k].same => reply[k].answer \in {"created", "replayed"}
=============================================================================
