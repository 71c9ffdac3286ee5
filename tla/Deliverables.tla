--------------------------- MODULE Deliverables ---------------------------
(***************************************************************************)
(* The documents the Claude worker writes on request: debriefs of real     *)
(* interviews and analyses of English classes (one document per record,    *)
(* rewritten when the transcript changes), reviews of practice answers     *)
(* (written once), and periodic reports (one per week or month, queued by  *)
(* the worker's own beat and mailed before they are stored).               *)
(*                                                                         *)
(* A transcript is known by its SHA-256, here a small number, and an       *)
(* earlier text may come back: the text of a record is the sequence of     *)
(* digests it has had, a revision is a place in it, and the key of a job   *)
(* names a digest.  A report has the one text 1.  The queue below them is  *)
(* JobQueue, here with a state and the attempts: a step's worker_id is a   *)
(* constant of its function, so two processes that overlap share it and    *)
(* the lease does not tell them apart.  A request is two transactions      *)
(* (check, enqueue); so is the worker's answer (store, complete), and the  *)
(* agent's turn and the mail lie in between.                               *)
(***************************************************************************)
EXTENDS Naturals, Sequences, FiniteSets

CONSTANTS
    Records,      \* interviews and English classes
    Answers,      \* recorded practice answers
    MaxPeriod,    \* weeks (or months) that may end
    MaxTexts,     \* different texts a record's transcript may have
    MaxRevisions, \* bound: how often the transcript of a record is written
    MaxJobs,      \* bound: jobs that are queued in all
    MaxAsks,      \* bound: requests under way at once
    Workers,      \* worker processes: more than one while a deployment overlaps
    MaxAttempts,  \* max_attempts of every job (3)
    MaxFaults     \* failures, crashes and leases that expire on a live worker

ASSUME DeliverablesAssumption ==
    /\ MaxPeriod \in Nat /\ MaxTexts \in Nat \ {0} /\ MaxRevisions \in Nat
    /\ MaxJobs \in Nat /\ MaxAsks \in Nat
    /\ MaxAttempts \in Nat \ {0} /\ MaxFaults \in Nat
    /\ Records \cap Answers = {} /\ (Records \cup Answers) \cap (1 .. MaxPeriod) = {}
    /\ IsFiniteSet(Workers)

Reports == 1 .. MaxPeriod
Docs    == Records \cup Answers \cup Reports
Keys    == (Records \X (1 .. MaxTexts)) \cup ((Answers \cup Reports) \X {1})

VARIABLES
    now,      \* periods that have ended
    text,     \* text[d]: digests of the transcript of d over time, the current one last
    row,      \* row[d]: revision of the transcript the stored document was written from,
              \* 0 = no document; its transcript_sha256 is text[d][row[d]]
    mails,    \* mails[d]: how often a report was handed to the mail provider
    jobs,     \* jobs[k]: state and attempts of the job with key k, and the revision it
              \* was asked for; a running job whose lease ran out is "expired"
    asks,     \* requests between their check and their enqueue: key and revision
    work,     \* work[w]: the job a worker runs, and how far it is
    faults,
    gate      \* what the beat's gate_step found: attestation, credential, probe

vars == <<now, text, row, mails, jobs, asks, work, faults, gate>>

Idle == [key |-> <<>>, stage |-> "idle", v |-> 0]
NoJob == [state |-> "none", attempts |-> 0, asked |-> 0]

\* The current revision of a transcript, 0 when there is none, and its digest
Rev(d) == Len(text[d])
Current(d) == text[d][Rev(d)]

Init ==
    /\ now = 0
    /\ text = [d \in Docs |-> IF d \in Records \cup Answers THEN <<>> ELSE <<1>>]
    /\ row = [d \in Docs |-> 0]
    /\ mails = [d \in Docs |-> 0]
    /\ jobs = [k \in Keys |-> NoJob]
    /\ asks = {}
    /\ work = [w \in Workers |-> Idle]
    /\ faults = 0
    /\ gate \in BOOLEAN

Fault == faults < MaxFaults /\ faults' = faults + 1

-----------------------------------------------------------------------------
(***************************************************************************)
(* The world: recordings are transcribed, transcripts pasted, periods end, *)
(* the gate opens and closes.                                              *)
(***************************************************************************)
\* SpeechAnalysisService.process of an attached recording, attach_recording,
\* attach_transcript: the text changes, perhaps to one it has had before.  The
\* first takes no lock on the record, so neither does the action.
Transcribe(d, t) ==
    /\ d \in Records \cup Answers /\ <<d, t>> \in Keys
    /\ Rev(d) < MaxRevisions
    /\ Rev(d) # 0 => Current(d) # t
    /\ text' = [text EXCEPT ![d] = Append(@, t)]
    /\ UNCHANGED <<now, row, mails, jobs, asks, work, faults, gate>>

\* An attestation is approved or expires, the credential is installed or refused,
\* the probe fails or recovers: the next beat finds the gate the other way.
GateMoves ==
    /\ gate' = ~gate
    /\ UNCHANGED <<now, text, row, mails, jobs, asks, work, faults>>

PeriodEnds ==
    /\ now < MaxPeriod
    /\ now' = now + 1
    /\ UNCHANGED <<text, row, mails, jobs, asks, work, faults, gate>>

-----------------------------------------------------------------------------
(***************************************************************************)
(* Requests.  A worker that processes a record or an answer holds its row  *)
(* lock through the agent's turn, and a request waits for it; the lock is  *)
(* gone when the database ends a transaction that was idle for too long.   *)
(***************************************************************************)
Locked(d) == \E w \in Workers : work[w].stage = "composed"
                                /\ d \notin Reports /\ work[w].key[1] = d

Ask(d, t, r) ==
    /\ Cardinality(asks) < MaxAsks
    /\ asks' = asks \cup {<<<<d, t>>, r>>}
    /\ UNCHANGED <<now, text, row, mails, jobs, work, faults, gate>>

\* InterviewDebriefService.request, EnglishClassAnalysisService.request
RequestAnalysis(d) ==
    /\ d \in Records /\ ~Locked(d)
    /\ Rev(d) # 0
    /\ row[d] # 0 => text[d][row[d]] # Current(d)
    /\ Ask(d, Current(d), Rev(d))

\* PracticeAnswerService.submit, once the transcripts it needs exist
SubmitAnswer(d) ==
    /\ d \in Answers /\ ~Locked(d)
    /\ Rev(d) # 0 /\ row[d] = 0
    /\ Ask(d, Current(d), Rev(d))

\* WeeklyReportQueue.request, MonthlyReportQueue.request: a period that ended
RequestReport(d) ==
    /\ d \in Reports /\ d <= now /\ row[d] = 0
    /\ Ask(d, 1, 1)

\* schedule_due with due_week / due_month: the most recent period only, in a step
\* of the worker
ScheduleDue ==
    /\ gate
    /\ now # 0 /\ row[now] = 0
    /\ Ask(now, 1, 1)

RoomFor(k) == jobs[k].state = "none" =>
                Cardinality({j \in Keys : jobs[j].state # "none"}) < MaxJobs

\* Mutant: a request under a key whose job has failed starts the job again.
EnqueueReviving(a) ==
    /\ a \in asks /\ RoomFor(a[1])
    /\ asks' = asks \ {a}
    /\ jobs' = IF jobs[a[1]].state \in {"none", "failed"}
               THEN [jobs EXCEPT ![a[1]] = [state |-> "queued", attempts |-> 0, asked |-> a[2]]]
               ELSE jobs
    /\ UNCHANGED <<now, text, row, mails, work, faults, gate>>

\* JobService.enqueue: under a key that exists it replays or raises JobConflict,
\* which every caller swallows.
Enqueue(a) ==
    /\ a \in asks /\ RoomFor(a[1])
    /\ asks' = asks \ {a}
    /\ jobs' = IF jobs[a[1]].state = "none"
               THEN [jobs EXCEPT ![a[1]].state = "queued", ![a[1]].asked = a[2]]
               ELSE jobs
    /\ UNCHANGED <<now, text, row, mails, work, faults, gate>>

-----------------------------------------------------------------------------
(***************************************************************************)
(* The worker's steps.                                                     *)
(***************************************************************************)
\* A step of gate_step, which looks at the gate before it runs any.
Claim(w, k) ==
    /\ gate /\ work[w].stage = "idle" /\ jobs[k].state = "queued"
    /\ jobs' = [jobs EXCEPT ![k].state = "running", ![k].attempts = @ + 1]
    /\ work' = [work EXCEPT ![w] = [key |-> k, stage |-> "claimed", v |-> 0]]
    /\ UNCHANGED <<now, text, row, mails, asks, faults, gate>>

\* Mutant: the transcript is read before the lock is taken.
OpenUnlocked(w) ==
    /\ work[w].stage = "claimed"
    /\ work' = [work EXCEPT ![w].stage = IF work[w].key[1] \in Reports THEN "mail" ELSE "composed",
                            ![w].v = Rev(work[w].key[1])]
    /\ UNCHANGED <<now, text, row, mails, jobs, asks, faults, gate>>

\* process, up to the agent's answer: lock the record or the answer, read the
\* transcript as it is now and run the turn under the lock.  A report locks nothing.
Open(w) ==
    /\ work[w].stage = "claimed" /\ ~Locked(work[w].key[1])
    /\ LET d == work[w].key[1]
       IN  work' = [work EXCEPT ![w].stage = IF d \in Reports THEN "mail" ELSE "composed",
                                ![w].v = Rev(d)]
    /\ UNCHANGED <<now, text, row, mails, jobs, asks, faults, gate>>

\* ReportSender.send never raises: the provider took the mail, or it did not.
Mail(w) ==
    /\ work[w].stage = "mail"
    /\ mails' \in {mails, [mails EXCEPT ![work[w].key[1]] = @ + 1]}
    /\ work' = [work EXCEPT ![w].stage = "composed"]
    /\ UNCHANGED <<now, text, row, jobs, asks, faults, gate>>

\* The transaction that writes the document: insert, or overwrite
Store(w) ==
    /\ work[w].stage = "composed"
    /\ row' = [row EXCEPT ![work[w].key[1]] = work[w].v]
    /\ work' = [work EXCEPT ![w].stage = "stored"]
    /\ UNCHANGED <<now, text, mails, jobs, asks, faults, gate>>

\* idle_in_transaction_session_timeout: the database ends the transaction that
\* holds the lock while the agent's turn takes its time, and the store will raise.
Sever(w) ==
    /\ work[w].stage = "composed" /\ work[w].key[1] \notin Reports /\ Fault
    /\ work' = [work EXCEPT ![w].stage = "severed"]
    /\ UNCHANGED <<now, text, row, mails, jobs, asks, gate>>

\* _running_job for the step's worker_id: the job runs under an unexpired lease,
\* which need not be the lease of this process.
Holds(w) == jobs[work[w].key].state = "running"

\* Mutant: the job is completed before its document is stored.
CompleteUnstored(w) ==
    /\ work[w].stage \in {"composed", "stored"}
    /\ jobs' = IF Holds(w) THEN [jobs EXCEPT ![work[w].key].state = "succeeded"] ELSE jobs
    /\ work' = [work EXCEPT ![w] = Idle]
    /\ UNCHANGED <<now, text, row, mails, asks, faults, gate>>

\* jobs.complete; when the lease is gone it raises and the step ends
Complete(w) ==
    /\ work[w].stage = "stored"
    /\ jobs' = IF Holds(w) THEN [jobs EXCEPT ![work[w].key].state = "succeeded"] ELSE jobs
    /\ work' = [work EXCEPT ![w] = Idle]
    /\ UNCHANGED <<now, text, row, mails, asks, faults, gate>>

\* What jobs.retry and reclaim_expired make of an attempt that did not succeed.
Given(j, retryable) ==
    [j EXCEPT !.state = IF retryable /\ j.attempts < MaxAttempts THEN "queued" ELSE "failed"]

\* An exception before the commit: rollback, then retry with its category
Raise(w) ==
    /\ \E retryable \in BOOLEAN :
         jobs' = IF Holds(w) THEN [jobs EXCEPT ![work[w].key] = Given(@, retryable)]
                 ELSE jobs
    /\ work' = [work EXCEPT ![w] = Idle]
    /\ UNCHANGED <<now, text, row, mails, asks, gate>>

Fail(w) == work[w].stage \in {"claimed", "mail", "composed"} /\ Fault /\ Raise(w)

\* The store finds its transaction gone.
StoreRaises(w) == work[w].stage = "severed" /\ UNCHANGED faults /\ Raise(w)

Crash(w) ==
    /\ work[w].stage # "idle" /\ Fault
    /\ work' = [work EXCEPT ![w] = Idle]
    /\ UNCHANGED <<now, text, row, mails, jobs, asks, gate>>

Abandoned(k) == jobs[k].state = "running" /\ \A w \in Workers : work[w].key # k

\* The lease runs out: surely when nobody works on the job any more, and on a live
\* worker too, since the steps send no heartbeat during the agent's turn.
Expire(k) ==
    /\ jobs[k].state = "running"
    /\ IF Abandoned(k) THEN UNCHANGED faults ELSE Fault
    /\ jobs' = [jobs EXCEPT ![k].state = "expired"]
    /\ UNCHANGED <<now, text, row, mails, asks, work, gate>>

\* Mutant: an expired job with one attempt left is not reclaimed.
ReclaimUnspent(k) ==
    /\ jobs[k].state = "expired" /\ jobs[k].attempts + 1 < MaxAttempts
    /\ jobs' = [jobs EXCEPT ![k] = Given(@, TRUE)]
    /\ UNCHANGED <<now, text, row, mails, asks, work, faults, gate>>

\* reclaim_expired
Reclaim(k) ==
    /\ jobs[k].state = "expired"
    /\ jobs' = [jobs EXCEPT ![k] = Given(@, TRUE)]
    /\ UNCHANGED <<now, text, row, mails, asks, work, faults, gate>>

-----------------------------------------------------------------------------
WorkerStep(w) ==
    \/ \E k \in Keys : Claim(w, k)
    \/ Open(w) \/ Mail(w) \/ Store(w) \/ StoreRaises(w) \/ Complete(w)

Next ==
    \/ \E d \in Docs : RequestAnalysis(d) \/ SubmitAnswer(d) \/ RequestReport(d)
    \/ \E d \in Docs, t \in 1 .. MaxTexts : Transcribe(d, t)
    \/ PeriodEnds \/ ScheduleDue \/ GateMoves
    \/ \E a \in asks : Enqueue(a)
    \/ \E k \in Keys : Expire(k) \/ Reclaim(k)
    \/ \E w \in Workers : WorkerStep(w) \/ Sever(w) \/ Fail(w) \/ Crash(w)

MachineStep ==
    \/ \E w \in Workers : WorkerStep(w)
    \/ \E k \in Keys : Reclaim(k) \/ (Abandoned(k) /\ Expire(k))

\* The worker beats every thirty seconds and steps where the gate lets it, a lease
\* nobody works under runs out and the maintenance worker reclaims: weak fairness of
\* the three together.  Nothing opens the gate, and nobody has to ask.
Fairness == WF_vars(MachineStep)

Spec == Init /\ [][Next]_vars /\ Fairness

-----------------------------------------------------------------------------
\* A job that succeeded left a document written from a transcript at least as recent
\* as the one the request that queued it saw, whichever worker stored it, whatever
\* transcript it read and however often texts change and come back.
SucceededIsStored ==
    \A k \in Keys : jobs[k].state = "succeeded" => row[k[1]] >= jobs[k].asked

\* A stored document is never replaced by one written from an earlier revision.
RowNeverRegresses == [][\A d \in Docs : row'[d] >= row[d]]_vars

\* A report is mailed at most once per attempt of its job, so at most three times,
\* although it is mailed before it is stored and a crash or a lost lease in between
\* starts the attempt again.
MailedPerAttempt == \A d \in Reports : mails[d] <= jobs[<<d, 1>>].attempts

\* Once the gate stays open, whatever is asked for is settled: with faults, overlapping
\* workers and leases lost in between, no job is requeued or held for ever, and since
\* a key that failed is not started again, the jobs come to rest.
RequestsSettle ==
    <>[]gate => <>[](\A k \in Keys : jobs[k].state \in {"none", "succeeded", "failed"})

-----------------------------------------------------------------------------
\* interviews/debriefs.py: request is to "Queue a debrief for an interview that has a
\* transcript" - when the job of the current transcript has succeeded, the debrief
\* that is stored is of that transcript.
SucceededIsCurrent ==
    \A k \in Keys : /\ jobs[k].state = "succeeded" /\ Rev(k[1]) # 0
                    /\ Current(k[1]) = k[2]
                    => text[k[1]][row[k[1]]] = k[2]

\* reports/resend.py: "the report is already stored, so a failed send is a status on
\* the row".
StoredBeforeMailed == \A d \in Reports : mails[d] > 0 => row[d] # 0

=============================================================================
