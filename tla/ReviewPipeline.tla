--------------------------- MODULE ReviewPipeline ---------------------------
(***************************************************************************)
(* AI reviews of activities: ReviewService of reviews/service.py, driven   *)
(* by review_step of workers/claude.py (one process) and by the API, on    *)
(* top of the job queue.  A key of JobQueue is here the activity whose     *)
(* claude_review job it names.                                             *)
(*                                                                         *)
(* The review request is two transactions (move the activity, then enqueue *)
(* the job), and processing is four (load, evidence, store, answer) around *)
(* one call of the model; a process may stop between any two of them.      *)
(***************************************************************************)
EXTENDS JobQueue

CONSTANTS
  Reviewer,      \* the Claude worker process ("claude-reviewer")
  JobsPerStep    \* REVIEW_JOBS_PER_STEP

ASSUME ReviewAssumption ==
  /\ Workers = {Reviewer}
  /\ JobsPerStep \in Nat \ {0}

VARIABLES
  activity,   \* activity_instances.state
  status,     \* activity_processing_statuses: state, category, are there details
  review,     \* activity_reviews: the attempt of the job that scored it, evidence_status
  ledger,     \* the evidence recorded under the review's key: by which attempt (0: none)
  announced,  \* activities whose activity.feedback_ready event is in the outbox
  pc, task, note, listed, turns,   \* where the worker is in review_step
  asking,     \* API requests between their two transactions
  gate        \* what the beat's gate_step found: attestation, credential and probe allow work

workVars   == <<pc, task, note, listed, turns>>
storeVars  == <<activity, status, review, ledger, announced>>
reviewVars == <<activity, status, review, ledger, announced, pc, task, note,
                listed, turns, asking>>
pipeVars   == <<row, outbox, held, reply, activity, status, review, ledger,
                announced, pc, task, note, listed, turns, asking>>
allVars    == <<pipeVars, gate>>

ActivityStates == {"output_committed", "self_review_complete", "ai_processing",
                   "feedback_ready"}
StatusRow(state, category) == [state |-> state, category |-> category, details |-> FALSE]
NoStatus == StatusRow("absent", NoError)
NoReview == [run |-> 0, evidence |-> "none"]

\* validate_processing_status, run on every insert and update of a status.
StatusAccepted(s) ==
  IF s.state = "needs_attention" THEN s.category \in Categories /\ s.details
                                 ELSE s.category = NoError /\ ~s.details

\* How process can fail, and the categories the worker gives those failures.
UnavailableCategories == {"resource_exhausted", "permission_required", "transient_dependency"}

ReviewInit ==
  /\ Init
  /\ activity = [k \in Keys |-> "output_committed"]
  /\ status = [k \in Keys |-> NoStatus]
  /\ review = [k \in Keys |-> NoReview]
  /\ ledger = [k \in Keys |-> 0]
  /\ announced = {} /\ asking = {}
  /\ pc = "idle" /\ task = NoJob /\ note = NoError /\ listed = {} /\ turns = 0
  /\ gate \in BOOLEAN

-----------------------------------------------------------------------------
(* Asking for a review.                                                     *)

\* The learner submits the self-review of a committed attempt.
SubmitSelfReview(k) ==
  /\ activity[k] = "output_committed"
  /\ activity' = [activity EXCEPT ![k] = "self_review_complete"]
  /\ UNCHANGED <<status, review, ledger, announced, workVars, asking, queueVars>>

\* The checks of _request that both callers share.
Requestable(k) ==
  /\ review[k] = NoReview
  /\ activity[k] \in {"self_review_complete", "ai_processing"}

\* The first transaction of _request.
MoveToProcessing(k) ==
  /\ activity' = [activity EXCEPT ![k] = "ai_processing"]
  /\ status' = [status EXCEPT ![k] = StatusRow("analyzing", NoError)]
  /\ UNCHANGED <<review, ledger, announced>>

\* The API's request is strict: it goes on to the enqueue even when the job
\* exists.  A request that is not Requestable is refused and changes nothing.
Request(k) ==
  /\ k \notin asking /\ Requestable(k)
  /\ MoveToProcessing(k)
  /\ asking' = asking \cup {k}
  /\ UNCHANGED <<workVars, queueVars>>

\* The second transaction; available_at is now, so it never repeats a row's.
RequestEnqueue(k) ==
  /\ k \in asking
  /\ Enqueue(k, 0, FALSE)
  /\ asking' = asking \ {k}
  /\ UNCHANGED <<storeVars, workVars>>

\* The API process stops, or loses the database, between the two.
RequestDropped(k) ==
  /\ k \in asking
  /\ asking' = asking \ {k}
  /\ UNCHANGED <<storeVars, workVars, queueVars>>

-----------------------------------------------------------------------------
(* review_step: sweep, then claim and process up to JobsPerStep jobs.       *)

\* gate_step returns before any step while the gate is closed; a step that has
\* begun does not look at it again.
BeginStep ==
  /\ pc = "idle" /\ gate
  /\ pc' = "sweep" /\ turns' = JobsPerStep
  /\ listed' = {k \in Keys : activity[k] = "self_review_complete"}
  /\ task' = NoJob /\ note' = NoError
  /\ UNCHANGED <<storeVars, asking, queueVars>>

\* The listing was read in an earlier transaction: _request checks again.
SweepRequest(k) ==
  /\ pc = "sweep" /\ k \in listed
  /\ listed' = listed \ {k}
  /\ IF Requestable(k) /\ row[k].state \notin {"queued", "running"}
       THEN MoveToProcessing(k) /\ pc' = "enqueue" /\ task' = k
       ELSE UNCHANGED <<storeVars, pc, task>>
  /\ UNCHANGED <<note, turns, asking, queueVars>>

\* A JobConflict is not caught: it ends the step.
SweepEnqueue ==
  /\ pc = "enqueue"
  /\ Enqueue(task, 0, FALSE)
  /\ pc' = IF row[task].state = "absent" THEN "sweep" ELSE "idle"
  /\ task' = NoJob
  /\ UNCHANGED <<storeVars, note, listed, turns, asking>>

EndSweep ==
  /\ pc = "sweep" /\ listed = {}
  /\ pc' = "claim"
  /\ UNCHANGED <<storeVars, task, note, listed, turns, asking, queueVars>>

ClaimReview(k) ==
  /\ pc = "claim" /\ turns > 0
  /\ Claim(Reviewer, k)
  /\ pc' = "load" /\ task' = k /\ turns' = turns - 1
  /\ UNCHANGED <<storeVars, note, listed, asking>>

EndStep ==
  /\ pc = "claim" /\ (turns = 0 \/ Claimable(Reviewer) = {})
  /\ pc' = "idle"
  /\ UNCHANGED <<storeVars, task, note, listed, turns, asking, queueVars>>

-----------------------------------------------------------------------------
(* process, called with the claimed job.                                    *)

\* An exception of process, and the category the worker gives it.
Raises(category) ==
  /\ pc' = "fail" /\ note' = category
  /\ UNCHANGED <<storeVars, task, listed, turns, asking, queueVars>>

\* Load the attempt: a review that exists already is the answer.
Load ==
  /\ pc = "load"
  /\ \/ /\ pc' = IF review[task] # NoReview THEN "complete" ELSE "ask"
        /\ UNCHANGED <<storeVars, task, note, listed, turns, asking, queueVars>>
     \/ review[task] = NoReview /\ Raises("invalid_input")

AskSwallowingFailure ==
  /\ pc = "ask"
  /\ \/ /\ pc' \in {"record", "complete"}
        /\ UNCHANGED <<storeVars, task, note, listed, turns, asking, queueVars>>
     \/ \E category \in UnavailableCategories \cup {"invalid_input"} : Raises(category)

\* One turn of the model, outside any transaction.
AskReviewer ==
  /\ pc = "ask"
  /\ \/ /\ pc' = "record"
        /\ UNCHANGED <<storeVars, task, note, listed, turns, asking, queueVars>>
     \/ \E category \in UnavailableCategories \cup {"invalid_input"} : Raises(category)

RecordIgnoringHash ==
  /\ pc = "record"
  /\ \/ ledger' = [ledger EXCEPT ![task] = IF @ = 0 THEN held[Reviewer][2] ELSE @]
        /\ note' = "recorded"
     \/ ledger' = ledger /\ note' = "unrecorded"
  /\ pc' = "store"
  /\ UNCHANGED <<activity, status, review, announced, task, listed, turns, asking, queueVars>>

\* record_atomic under the review's key.  evaluated_at is part of the command,
\* so what an earlier attempt left under the key is never a duplicate of it but
\* an EvidenceConflict; any EvidenceError leaves the review unrecorded.
RecordEvidence ==
  /\ pc = "record"
  /\ \/ /\ ledger[task] = 0
        /\ ledger' = [ledger EXCEPT ![task] = held[Reviewer][2]]
        /\ note' = "recorded"
     \/ ledger' = ledger /\ note' = "unrecorded"
  /\ pc' = "store"
  /\ UNCHANGED <<activity, status, review, announced, task, listed, turns, asking, queueVars>>

StoreWithoutMoving ==
  /\ pc = "store" /\ review[task] = NoReview
  /\ review' = [review EXCEPT ![task] = [run |-> held[Reviewer][2], evidence |-> note]]
  /\ status' = [status EXCEPT ![task] = StatusRow("ready", NoError)]
  /\ announced' = announced \cup {task}
  /\ pc' = "complete"
  /\ UNCHANGED <<activity, ledger, task, note, listed, turns, asking, queueVars>>

\* The last transaction of process.
StoreReview ==
  /\ pc = "store" /\ review[task] = NoReview
  /\ review' = [review EXCEPT ![task] = [run |-> held[Reviewer][2], evidence |-> note]]
  /\ activity' = [activity EXCEPT ![task] = "feedback_ready"]
  /\ status' = [status EXCEPT ![task] = StatusRow("ready", NoError)]
  /\ announced' = announced \cup {task}
  /\ pc' = "complete"
  /\ UNCHANGED <<ledger, task, note, listed, turns, asking, queueVars>>

\* Anything else that process raises, a lost database included.
ProcessRaises ==
  /\ pc \in {"load", "ask", "record", "store"}
  /\ Raises("processing_failure")

-----------------------------------------------------------------------------
(* Answering the queue.                                                     *)

CompleteReview ==
  /\ pc = "complete"
  /\ Complete(Reviewer, task)
  /\ pc' = "claim"
  /\ UNCHANGED <<storeVars, task, note, listed, turns, asking>>

FailReview ==
  /\ pc = "fail"
  /\ Retry(Reviewer, task, note)
  /\ pc' = IF RetryDisposition(task, note) = "needs_attention" THEN "mark" ELSE "claim"
  /\ UNCHANGED <<storeVars, task, note, listed, turns, asking>>

\* The answer finds the lease gone: JobConflict ends the step.
ReviewLeaseLost ==
  /\ pc \in {"complete", "fail"}
  /\ LeaseLost(Reviewer, task)
  /\ pc' = "idle"
  /\ UNCHANGED <<storeVars, task, note, listed, turns, asking>>

\* mark_failed: a status that is not accepted rolls back and ends the step.
MarkFailed ==
  /\ pc = "mark"
  /\ LET new == StatusRow("needs_attention", note)
     IN  IF StatusAccepted(new)
           THEN status' = [status EXCEPT ![task] = new] /\ pc' = "claim"
           ELSE status' = status /\ pc' = "idle"
  /\ UNCHANGED <<activity, review, ledger, announced, task, note, listed, turns,
                 asking, queueVars>>

CrashRequeueing ==
  /\ pc \in {"enqueue", "load", "ask", "record", "store", "complete", "fail", "mark"}
  /\ pc' = "idle"
  /\ held' = [held EXCEPT ![Reviewer] = NoJob]
  /\ row' = [k \in Keys |-> IF row[k].owner = Reviewer THEN Requeued(k, 0, NoError) ELSE row[k]]
  /\ UNCHANGED <<outbox, reply, storeVars, task, note, listed, turns, asking>>

\* The worker process dies and systemd starts it again.  Where it holds nothing
\* and is in the middle of nothing, a restart is just the next step.
WorkerCrash ==
  /\ pc \in {"enqueue", "load", "ask", "record", "store", "complete", "fail", "mark"}
  /\ pc' = "idle"
  /\ held' = [held EXCEPT ![Reviewer] = NoJob]
  /\ UNCHANGED <<row, outbox, reply, storeVars, task, note, listed, turns, asking>>

WorkerStep ==
  \/ BeginStep \/ EndSweep \/ EndStep \/ SweepEnqueue
  \/ \E k \in Keys : SweepRequest(k) \/ ClaimReview(k)
  \/ Load \/ AskReviewer \/ RecordEvidence \/ StoreReview \/ ProcessRaises
  \/ CompleteReview \/ FailReview \/ ReviewLeaseLost \/ MarkFailed

Housekeeping ==
  \/ (\E batch \in SUBSET Keys : ReclaimExpired(batch)) /\ UNCHANGED reviewVars
  \/ Tick /\ UNCHANGED reviewVars

PipelineStep ==
  \/ WorkerStep \/ WorkerCrash \/ Housekeeping
  \/ \E k \in Keys : SubmitSelfReview(k) \/ Request(k) \/ RequestEnqueue(k) \/ RequestDropped(k)

\* An attestation is approved or expires, the credential is installed or refused,
\* the probe fails or recovers: the next beat finds the gate the other way.
GateMoves == gate' = ~gate /\ UNCHANGED pipeVars

ReviewNext == (PipelineStep /\ UNCHANGED gate) \/ GateMoves

ReviewSpec == ReviewInit /\ [][ReviewNext]_allVars

(***************************************************************************)
(* The worker's loop runs its step again and again where the gate lets it, *)
(* the housekeeping worker reclaims, a request in progress ends, and time  *)
(* passes.  Nobody has to ask for a review, and nothing opens the gate.    *)
(***************************************************************************)
FairReviewSpec ==
  /\ ReviewSpec
  /\ WF_allVars(WorkerStep /\ UNCHANGED gate)
  /\ WF_allVars((\E batch \in SUBSET Keys : ReclaimExpired(batch)) /\ UNCHANGED <<reviewVars, gate>>)
  /\ WF_allVars(Tick /\ UNCHANGED <<reviewVars, gate>>)
  /\ WF_allVars((\E k \in Keys : RequestEnqueue(k) \/ RequestDropped(k)) /\ UNCHANGED gate)

-----------------------------------------------------------------------------
(* The review, the activity, its processing status and its announcement     *)
(* agree: an activity is feedback_ready exactly when its review is stored,  *)
(* and from then on no late request, retry or failed attempt takes its      *)
(* status away from ready.                                                  *)
ReviewedIsReady ==
  \A k \in Keys : /\ review[k] # NoReview <=> activity[k] = "feedback_ready"
                  /\ review[k] # NoReview <=> k \in announced
                  /\ review[k] # NoReview <=> status[k].state = "ready"

(* A job that succeeded left a review: read, which shows "running" for a    *)
(* succeeded job without one, never does so for good.                       *)
SucceededHasReview ==
  \A k \in Keys : row[k].state = "succeeded" => review[k] # NoReview

(* A review that says its evidence is recorded shows the scores the ledger  *)
(* holds, however many attempts the job took.                               *)
RecordedIsInLedger ==
  \A k \in Keys : review[k].evidence = "recorded" => ledger[k] = review[k].run

(* Every step of the pipeline is a step of the job queue or leaves it       *)
(* alone, so what JobQueue promises holds here.                             *)
ImplementsQueue == Spec

(* Once the gate stays open every queued review is settled: it is stored,   *)
(* or its job is parked.  While gate_step finds the gate closed it waits.   *)
ReviewSettles ==
  <>[]gate => \A k \in Keys : row[k].state = "queued" ~>
                                  (review[k] # NoReview \/ row[k].state = "failed")

-----------------------------------------------------------------------------
(* reviews/service.py: "the rubric scores are recorded through the evidence *)
(* ledger" and a review that cannot be recorded is shown "with the reason,  *)
(* so nothing is silently lost" - a review the learner is shown as          *)
(* unrecorded has nothing in the ledger.                                    *)
UnrecordedLeftNothing ==
  \A k \in Keys : review[k].evidence = "unrecorded" => ledger[k] = 0

(* reviews/service.py: mark_failed is to "Surface a parked job on the       *)
(* activity's processing status".                                           *)
MarkFailedSurfaces ==
  [][MarkFailed => status'[task].state = "needs_attention"]_allVars

(* reviews/service.py: "Queue a review for every self-reviewed activity     *)
(* that has none yet."                                                      *)
SelfReviewedIsQueued ==
  <>[]gate => \A k \in Keys : activity[k] = "self_review_complete" ~> row[k].state # "absent"
=============================================================================
