# TAM Forge: TLA+ models, checks and proofs

TAM Forge is a study coach: a FastAPI backend on PostgreSQL with three worker
processes, and a native macOS app that records interviews and English classes,
uploads them and shows the results. This directory models the parts of it whose
correctness depends on the order of steps of several processes: the durable job
queue, the reviews and documents produced on top of it, the outbox and its event
stream, a recording from the audio callback through the Mac's encrypted spool to
the server, sign-in and token rotation, a study day worked on from two devices,
and the way of a package to the roadmap that plans the days.

`PROJECT.json` lists the components, runs, mutants, hazards, findings and
theorems, and maps every definition to the source lines it models. Paths below
are relative to `src/apps/backend/src/tamforge_backend/` unless they end in
`.swift` (those are under `src/apps/macos/TAMForge/`).

## 1. Inventory

| Component | State it keeps | Operations | What is hard | What makes it correct |
|---|---|---|---|---|
| Job queue (`jobs/`, `notifications/models.py`, `workers/`) | `background_jobs` rows: state, attempts, lease, `available_at`, error; one outbox row per transition | enqueue, claim, heartbeat, complete, retry, cancel, reclaim_expired | several workers, leases that expire under a running job, crashes, late answers, backoff | a live lease fences; no constraint or unique key rejects a transition; each job ends |
| AI reviews (`reviews/service.py`, `workers/claude.py`) | activity state, processing status, review, evidence, announcement | request, sweep, load, ask, record, store, complete or park | six transactions around one model call, crash between any two, API requests in parallel | review, activity, status and ledger agree; a queued review is settled |
| Outbox and status stream (`notifications/repository.py`, `sse.py`, `Features/Notifications/StatusStreamClient.swift`) | events, `published_at`, notifications, the stream's cursor, the client's last id | insert and commit, deliver_outbox, poll, emit, receive, reconnect, mark_read | ids drawn before commit, delivery by another clock, broken connections, bounded batches | one notification per mapped event; ordered hand-over without repeats; nothing starves |
| Recording ingest (`recordings/`) | recording and part rows, immutable objects | create, reserve/put/finalize a part, prepare/verify/manifest/finalize a seal, status | database and object store in turn, retries beside abandoned handlers | only whole recordings are sealed; a stored one is final |
| Transcript submission (`speech/service.py`, `speech/repository.py`) | transcript, lineage flag, analysis job | resolve, store, accept lineage, enqueue | four steps that commit on their own | one transcript per recording; an accepted one is analysed |
| macOS uploader (`Features/Recording/*.swift`) | spool, release gates, upload journal, transcript cache, tasks | pass (create, parts, seal or status, submit), mark, release, resume, discard | lost answers, cancellation, crash, discard during a pass | the only copy is destroyed only when the server has everything; it is released in the end |
| Authentication (`auth/`, `Core/Auth/NativeAuthentication.swift`, `App/ShellSessionModel.swift`) | OAuth flows, exchange codes, refresh families, sessions; the app's two keychain items, its tokens and tasks | start, callback, exchange, refresh, revoke; login, restore, sign-out, quarantine | lost answers to a rotation, an actor and the main actor on one keychain, stale tasks, crashes | one usable token per session; no session the app held is orphaned; no late refresh brings a session back |
| Learning activities (`learning/`, `Features/Activities/`) | activity state and version, timer, receipts; each device's workspace and journal | start, heartbeat, pause, resume, visibility, classify, commit, self-review | two devices, requests lost and sent again, receipts replayed late, time limits | time is counted once; devices show states that existed; no accepted command is refused |
| Today and corrections (`today/`) | study day, hand-off, corrections, statuses | materialise, close | closing while commands are under way; planning during an activation | a closed day is quiet; a planned day is frozen |
| Evidence ledger (`evidence/`) | events, skill states | record_atomic, fold | idempotency by content hash | scores are a function of the ledger |
| Roadmaps (`roadmaps/`) | imports, versions, mirror status, the learner's setting, the mirror branch | stage, validate, approve, mirror, retry, activate | requests of several transactions, a parser release in between, row locks in opposite orders, a push beside another | one chain of versions; one active version, the selected one; dates owned in order; a synced version stays mirrored |
| Agent runtime (`agents/`) | token slots, model runs | acquire, run, record | limits, slot rotation | a run is recorded once |
| Interviews, classes, practice, reports | their documents, jobs and mails | request, schedule, process, mail, store | a transcript that changes during the agent's turn, a mail before the row, overlapping worker processes | a succeeded job left its document; no document is set back; mails are bounded |
| Capture (`Features/Recording/`) | phase, callback handoff, pipeline, event stream, gap writes, spool | start, offer, process, write, register gap, stop, seal | two bounded queues, failures inside the writer, every way to stop | a sealed spool tiles its timeline; a closed spool is quiet; every stop ends |
| Notes, cards, shadowing, coaching, memory, workspaces, read models, HTTP surface, evals, infrastructure | - | - | one transaction per request, numerical work, or no state | - |

How they interact: the API and the workers share nothing but the database and
the object store. Every service that needs background work enqueues a row of
`background_jobs`; every transition of a job writes an outbox event in the same
transaction; the housekeeping worker publishes outbox events and turns some of
them into notifications; the app follows them over SSE. The app's recorder
talks to the recording and transcript endpoints only; the transcript endpoint
enqueues the speech analysis.

## 2. Plan

1. **Done.** `JobQueue` (with its proofs), since all background work rests on it.
2. **Done.** `ReviewPipeline`, which EXTENDS `JobQueue` and is checked and proved
   to implement it (`ImplementsQueue`): the abstract specification of background
   work is the queue's own `Spec`.
3. **Done.** `OutboxDelivery` (with its proofs).
4. **Done.** `RecordingUpload` (with its proofs), and the abstract
   `RecordingCustody` that it implements, checked and proved.
5. **Done.** `NativeAuth`, `StudyDay` and `RecordingCapture` (with their proofs).
6. **Done.** `Deliverables` (with its proofs): debriefs, classes, practice and
   reports as clients of the queue.
7. **Done.** `Roadmaps` (with its proofs): import, approval, mirror, activation, planned days.
8. **Done.** Proofs of every safety property that a passing run checks, of
   every module, and of both refinements. Liveness stays with TLC.
9. Evidence ledger: `record_atomic` with its replay rule, refined by the
   `RecordEvidence` step that `ReviewPipeline` models as one action.
10. Artifact upload (presign, put, confirm), browser sessions, token slots.

## 3. Modules

| Module | Models | Checked by | Proved in |
|---|---|---|---|
| `JobQueue` | `jobs/repository.py`, `jobs/policy.py`, the table's constraints and listeners | `MC_JobQueue` | `ReviewPipelineProofs` (first part) |
| `ReviewPipeline` | `reviews/service.py`, `review_step` of `workers/claude.py`, on `JobQueue` | `MC_ReviewPipeline` | `ReviewPipelineProofs` |
| `OutboxDelivery` | `notifications/repository.py`, `sse.py`, `StatusStreamClient.swift` | `MC_OutboxDelivery` | `OutboxDeliveryProofs` |
| `RecordingUpload` | `recordings/`, `speech/service.py`, `RecordingUploader.swift`, `RecordingCoordinator.swift`, the gates of `EncryptedRecordingSpool.swift` | `MC_RecordingUpload` | `RecordingUploadProofs` |
| `RecordingCustody` | what app and server promise together about a recording | `MC_RecordingUpload` (`ImplementsCustody`) | `RecordingUploadProofs` |
| `NativeAuth` | the native half of `auth/`, `NativeAuthentication.swift`, `ShellSessionModel.swift` | `MC_NativeAuth` | `NativeAuthProofs` |
| `StudyDay` | `learning/service.py`, `learning/timers.py`, `close_day`, `ActivityWorkspaceModel.swift`, `ActivityTimer.swift` | `MC_StudyDay` | `StudyDayProofs` |
| `RecordingCapture` | `ScreenCaptureAudioSource.swift`, `RecordingTimeline.swift`, `RecordingCoordinator.swift`, the appends and the seal of `EncryptedRecordingSpool.swift` | `MC_RecordingCapture` | `RecordingCaptureProofs` |
| `Deliverables` | `interviews/debriefs.py`, `classes/analysis.py`, `practice/service.py`, `reports/`, their steps in `workers/claude.py` | `MC_Deliverables` | `DeliverablesProofs` |
| `Roadmaps` | `roadmaps/service.py`, `roadmaps/repository.py`, `roadmaps/github_mirror.py`, the planning of `learning/repository.py` | `MC_Roadmaps` | `RoadmapsProofs` |

Definitions that are used by no specification (`PushForced`,
`ReleaseOnAudio`, ...) are mutants: versions of the definition that follows them
with a plausible bug. Replacing the definition by its mutant must break the
property that `PROJECT.json` names; this is how we know the property can fail.

### JobQueue

`row` is `background_jobs`, one record per idempotency key; `outbox` the set of
outbox keys `(job, event, attempt)` already used; `held` what each live worker
process believes it is running; `reply` the answer to the last enqueue under a
key. Each action is one transaction of `SqlAlchemyJobRepository`: `Enqueue`,
`Claim`, `Heartbeat`, `Complete`, `Retry`, `Cancel`, `ReclaimExpired`. `Crash`
loses a worker's memory, `LeaseLost` is a worker learning that its answer came
too late. Time is relative: a row keeps how far `available_at` and
`lease_expires_at` lie ahead, and `Tick` brings them closer, so no clock has to
be bounded. A wait is at most `RetryCap`, the day that `retry_after_seconds` may
ask for (`jobs/schemas.py:68`, applied without a cap); `DelayCap` is the ceiling
of the backoff alone (300 seconds, `jobs/repository.py:196`). `Coherent` and `UpdateAccepted` translate the CHECK constraints and
the ORM listeners; they are not guards of the actions, so the invariants can
say that they never reject what the repository does.

### ReviewPipeline

Adds the activity, its processing status, the review, the evidence ledger and
the announcement, the worker's position in `review_step` (`pc`) and the API
requests between their two transactions (`asking`). The request is two
transactions, processing is load, ask, record, store, answer; `WorkerCrash` may
come between any two. The model call is a nondeterministic answer or failure.
`gate` is what `gate_step` finds before it lets the worker step: an attestation,
a credential, a probe that answers; `GateMoves` changes it at any time, and a
step that has begun goes on.

### OutboxDelivery

`event[e]` follows one outbox row from drawing its id through commit or
rollback to publication; `OccurredAt` is a constant order that need not agree
with the ids. `cursor`, `page`, `wire` are the server's stream, `last` and
`seen` the client. `Disconnect` may lose whatever is on the wire. `EndRun` is
`StatusStreamClient.run` returning for good, on a token error, a 401 or the end
of its task; `StartStatusStream` is the next sign-in, whose run knows nothing of
the last one: `lastEventID` is a local of `run`, so order and repeats are promised
per run.

### RecordingUpload

The server: `state`, `part`, `objects`, `transcript`, `lineage`, `analysis`.
Requests: a request is a record in `handlers` that moves through the stages of
its endpoint, one transaction or object-store call per step, and finally
answers its caller. A caller that gives up turns its handler into one that
works for `"nobody"`; it keeps running beside the handler of the retry. The
app's disk: `spool`, `gates`, `created`, `completed` (the upload journal),
`saved` (the durable transcript). Its memory: the pass (`pc`, `found`,
`pending`), `cached`, `speech` (the transcription), `discard`.

One pass at a time runs, as the upload worker guarantees. A pass without the
audio gate creates, sends the missing parts and seals; one with it reads the
status and resubmits the transcript it can find. `PassFails` is an error the
code meets; `PassInterrupted`, `CoordinatorTimesOut`, `TranscriptionFails`,
`HandlerFails` and `Crash` are the faults, which `MaxFaults` bounds. The
content of a retried request does not change: ranges, hashes and even the
part's nonce are derived from the sealed spool and its key, so the conflicts of
reused identities cannot occur between a client and itself, and they are left
out. The object store is external; a put of an existing key finds the same
bytes, because the key contains their hash.

### RecordingCustody

Four variables: is the original readable on the Mac, has the server the audio,
which transcript has it accepted, has the learner discarded. Four actions:
`Store`, `Accept`, `Release` (only with both) and `Discard`. The mapping in
`RecordingUpload` reads them off the spool, `recordings.state`, the transcript
with its lineage flag and the discard; `ImplementsCustody` says that everything
else, from requests to journals, is stuttering.

### NativeAuth

Access and refresh tokens are minted together, so a number names a pair and a
session is named by its first pair. Each repository method locks the rows it
decides on and is one action (`ServeExchange`, `ServeRefresh` with `Rotate` or,
for a consumed token, `CloseSession`, `ServeRevoke`). The app's coordinator is an actor and
runs from await to await, but `quarantineActiveRefreshCredential` writes the
keychain from the main actor, so a refresh keeps its keychain calls apart
(`RefreshAnswered`, `RefreshChecked`, `RefreshStored`, `RefreshRechecked`,
`RefreshRemoved`). Any keychain call of a refresh may fail (`RefreshKeychainFails`, and
the failing branch of `RefreshAnswered`). The keychain calls of a sign-out and of
its logout task fail only together with the task. `rotateAccessToken` has two ways in, both in
`StartRefresh`: `currentAccessToken`, which refuses while a revocation is pending, and
`refreshedAccessTokenAfterUnauthorized`, which does not ask but needs a lease of the
present generation, so it ends with the sign-out's `logout()`. No refresh starts with a
credential that a task of an older generation still refreshes: each invalidation
quarantines the active credential or leaves it beside one that is pending.
A caller that
gives up leaves its request to nobody; the server may still serve it.

### StudyDay

The server's transactions begin by locking the activity and its day, so each
command is one action, `Serve`, over the guards of the state machine, the timer
arithmetic (`Added`, with the gap limit and what the day may still count) and
the receipts. A device issues commands with the version it shows; only
heartbeats and pauses are journalled and sent again under their key; an answer that
is not seen leaves the journal as it is, and a 401 empties it (`GiveUp`). `worked`
and `past` are history: how long a timer was open, what each version was.

### RecordingCapture

Audio is ranges of samples in units of a source buffer. `source` and `handoff`
are the callback's side of the first queue, `batch` and `pipe` the processing
queue with the startup gate, origin and one-second accumulator, `stream` and
`writer` the second queue, `gaps` the registered and unwritten gaps, `disk` the
spool. An offer that is refused is recorded as dropped in a second step, as in
the code. `closer` is a stop, which may begin at the button, the time limit, an
environment loss, the source, or inside the writer. `InOrder` is Swift's
`sorted(by:)`: any order in which no element comes before an earlier one. One
source buffer is one sample, so the conversion of nanoseconds to samples and its
rounding are left out; the tiling is about positions after that conversion.
`StartupInputs` is the limit of the startup gate (256 in `RecordingTimeline.swift:111`).
`reentered` is history: it becomes true when a call of `start()` passes its test
of the phase while another call is suspended in the pause before the phase is set
(`Reenters`). No guard reads it.

### Deliverables

The text of a record is the sequence of SHA-256 digests it has had, small numbers
that may recur (`attach_transcript` can put an earlier text back); a revision is
a place in that sequence, a job's key names a digest, and `asked` is the revision
that the request which queued the job saw. A report has one text. A request is two
transactions (`Ask`, `Enqueue`), a worker's job is `Claim`, `Open` (take the row
lock and run the agent), `Mail` for reports, `Store`, then `Complete` or `Fail`.
`Sever` is PostgreSQL ending a transaction that has been idle for thirty seconds
during the agent's turn (`database.py:56`): the lock is free and the store will
raise (`StoreRaises`). `gate` is the gate of `gate_step`, as in `ReviewPipeline`.
The queue appears with state and attempts only: a step's `worker_id` is a
constant of its function, so for two overlapping processes the lease is no
fence, and `Holds` asks only whether the job is running.

### Roadmaps

A request is a handler at a stage (`reqs`), one transaction or GitHub call per
action. A package's normalized hash is the parser version that read it; `Deploy`
changes the parser between a preview and its approval. `versions` keeps state,
first date and mirror status; `branch` is the sequence of commits, each a set of
snapshots, which moves only from the head that was read. Activation and planning
are split where they take their row locks, in opposite orders; `BreakDeadlock`
is PostgreSQL ending either. Activation names the rows it will lock in the
snapshot in which its statement began, so `Activate` looks for the active version among
those alone and the unique index decides. A first activation that names no time
zone is rolled back as a whole. The exit review that a later month asks for is not
modelled: `roadmaps/parser.py:389` puts every task into month 1.

## 4. Runs

Passing runs:

| Run | Instance | What it shows |
|---|---|---|
| `queue` | 2 jobs (3 and 2 attempts), 2 workers of one kind, lease 1 (2 with heartbeats), backoff base 3 capped at 1, a worker may ask for 0 or 2, one row per reclaim | types (waits and leases within bounds), `QueuedIsClaimable`, `LifecycleCoherent`, `EventsNeverCollide`, `FencedTransition`, `UpdatesAccepted`, and `JobsEnd` |
| `review` | 2 activities (2 and 1 attempts), one reviewer, 2 jobs per step | `ReviewedIsReady`, `SucceededHasReview`, `RecordedIsInLedger`, the refinement `ImplementsQueue`, and `ReviewSettles` |
| `outbox` | 4 events, the first stamped last, batches and pages of 2, any number of runs | `NotifiedOnce`, `SeenInOrder`, `CommittedIsReached` |
| `recording` | 2 parts, 3 transcripts (one rejected), 2 faults, discard at any time, symmetry of parts and of acceptable transcripts | `SealedIsComplete`, `NeverLost`, `JournalIsTrue`, `StoredIsFinal`, the refinement `ImplementsCustody` |
| `recording_release` | 1 part, 2 transcripts (one rejected), 2 faults | `SpoolReleased` |
| `auth` | 3 token pairs, 2 attempt slots for a capacity of 1, 1 rotation, 1 sign-out, 2 faults | types with the flow capacity, `OneLiveToken`, `StoredIsKept`, `HandedOutIsCurrent` |
| `study` | 2 devices, 2 activities, 4 commands, clock up to 2, day limit 3, 1 fault | `FocusIsMeasured`, `ClosedDayIsQuiet`, `SeenWasTrue`, `NoFalseConflict` |
| `capture` | 1 recording, 2 buffers a track, both capacities 1, 1 fault | `TilesUnlessThrown`, `ClosedIsQuiet`, `StopEnds` |
| `deliverables` | 1 record with 2 texts in up to 3 revisions, 1 answer, 1 report, 2 jobs and 2 requests at once, 2 workers, 2 attempts, 1 fault | `SucceededIsStored`, `MailedPerAttempt`, `RowNeverRegresses`, `RequestsSettle` |
| `roadmaps` | 2 requests, 4 packages (two with one key, one with a rest day, one invalid), 2 imports, 2 parsers, 2 dates, 2 commits, 1 fault | `VersionsAreOneChain`, `ActiveIsSelected`, `DaysFollowActivation`, `SyncedIsMirrored` |

Violation runs. Each states what the repository says of itself; TLC finds the
behaviour of the code that contradicts it.

| Run | Statement | What happens |
|---|---|---|
| `recording_analysis` | a failed analysis hook makes the client retry (`speech/service.py`) | the lineage is accepted before the hook runs, so the client sees it accepted and never retries |
| `capture_hole` | dropped ranges become explicit gaps (`docs/superpowers/plans/2026-09-01-tam-forge-native-recording-batch-03.md`) | a dropped range recorded after the origin was set makes the pipeline throw with flushed audio in hand; the sealed spool has a hole without a gap. `TilesUnlessThrown` says that this is the only way |

Further statements of the repository that the code does not keep. The modules
state them, and TLC refutes them when they are added to the configuration of
the component's run; they have no run of their own.

| Definition | Statement | What happens |
|---|---|---|
| `JobQueue!ReplayReturnsJob` | an enqueue that is replayed returns the job (`speech/jobs.py`) | after a retry or a reclaim `available_at` differs and the replay is a conflict |
| `ReviewPipeline!UnrecordedLeftNothing` | an unrecorded review left nothing in the ledger (`reviews/service.py`) | an attempt dies after recording; the retry conflicts with its own evidence and stores "unrecorded" |
| `ReviewPipeline!MarkFailedSurfaces` | `mark_failed` surfaces a parked job | its status has no error details, the listener rejects it, the activity stays "analyzing" |
| `ReviewPipeline!SelfReviewedIsQueued` | every self-reviewed activity gets a queued review | a crash between the move and the enqueue leaves it where the sweep does not look |
| `OutboxDelivery!NothingSkipped` | the status stream is an ordered stream of all events | an event that commits, or is delivered, after a higher id was streamed is never sent |
| `Deliverables!SucceededIsCurrent` | a request queues a debrief of the transcript (`interviews/debriefs.py:95`) | a text A is replaced by B, debriefed and put back: the request for A finds the succeeded job of A's key, and the stored debrief stays that of B |
| `Deliverables!StoredBeforeMailed` | "the report is already stored, so a failed send is a status on the row" (`reports/resend.py:4`; also `reports/service.py:197`) | the mail goes out first (`reports/service.py:209`) and the row is stored after it |
| `RecordingUpload!NoTranscriptAfterDiscard` | after a discard no transcript reaches the server (`RecordingCoordinator.swift`) | the upload pass is not cancelled; with the payload in hand it submits after the discard |
| `Roadmaps!MirrorIsRetryable` | a mirror failure is left "visible/retryable" (`docs/superpowers/plans/2026-08-25-tam-forge-01-foundation-learning.md`) | a request that dies after the approval leaves the mirror pending or syncing, and `retry_mirror` takes only a failed one |

Two more are visible without a model: `schedule_due` queues the most recent due
week only, where `reports/service.py` says "and again for any earlier week that
has none"; and an import whose request dies while it is staged or validating is
what its Idempotency-Key answers from then on.

### Bounds

- Two jobs and two workers: every conflict in the queue is between two parties
  about one row; the second job makes priorities and reclaim limits matter. Two
  and three attempts reach the last attempt through any mix of retry and reclaim.
- Four events: two batches, two pages, and an event stamped and delivered out
  of the order of its id.
- Two parts: one stored while the other is in flight or abandoned. Two
  acceptable transcripts conflict, the third is rejected for good. In
  `recording_release` one is acceptable and one is rejected; two acceptable ones,
  and all three with one fault, passed offline and take longer than a run should.
- Two faults: a fault and a second one during the recovery from the first.
  Liveness is checked with the same number of faults and a smaller instance,
  because checking it needs the whole graph without symmetry.

- `auth`: three pairs are a login, a rotation and a second login; one slot more
  than the capacity, so that admission is refused; two faults, such as a lost
  answer and a crash before the recovery.
- `study`: two devices on one activity, or each on its own with the day's limit
  between them; four commands are a start, a heartbeat that is lost and sent
  again, and a command of the other device in between.
- `capture`: capacity one makes each queue overflow at once; two buffers on two
  tracks give every order of origin, drop and stop. The run has one start;
  `TilesUnlessThrown` and `ClosedIsQuiet` are proved for any number. Both stop
  at a re-entered start, because the code does: `start()` tests
  `phase.isActive` before it awaits `pauseUploadsForCapture` and sets the phase
  after it (`RecordingCoordinator.swift:256`), so a second call in that pause
  goes on as well (its callers, `RecordingView.swift:208` and `CardsModel.swift:112`,
  start a plain task). When its spool cannot be created, its catch block drops the
  first recording's `pendingGapWrites`, the stop of the first no longer waits for
  them, and a gap may be written to the spool after it was closed. When it can,
  the stop of the first recording seals the empty spool of the second with the
  timeline of the first. TLC shows both with `MaxStarts = 2` when the condition
  `~reentered` is taken off the properties.
- `deliverables`: two texts in three revisions are what a text that comes back
  needs, and two workers what an overwrite needs; the second attempt is the last
  one. `MaxJobs` and `MaxAsks` keep two jobs and two requests at a time.
- `roadmaps`: two imports make one predecessor, one rival and one successor;
  two dates and a rest day make the first open date differ from today; two
  requests because each conflict is between two. `MaxCommits` stops retries,
  which could otherwise fail each other without end.

Deadlock checking is off where the system really may stop: all jobs ended, all
the spool gone, the learner away.

### Fairness

- `JobQueue`: the worker loops of `workers/runtime.py` run their step again and
  again, so claims and reclaims are weakly fair; a claimed job is answered or
  its process dies, since each handler answers in all its except branches. Time
  passes. Nobody has to enqueue, cancel or send a heartbeat.
- `ReviewPipeline`: the worker's loop where the gate lets it step, the reclaiming
  worker, time, and the end of an API request. Nothing opens the gate: while the
  attestation, the credential or the probe is missing a queued review stays queued,
  and `ReviewSettles` says what happens once the gate stays open.
- `OutboxDelivery`: delivery and reconnecting are weakly fair; polling,
  emitting and receiving are strongly fair, which says that not every
  connection breaks before it has carried anything. A run that has ended is not
  begun again by any fairness: that is a sign-in of the learner.
  `CommittedIsReached` promises that a published event is reached, or the run that
  should have reached it has ended.
- `RecordingUpload`: the server serves the requests of each caller, the tasks
  of the app run, and a pass starts again: on launch, on Retry, or after the
  next recording (`enqueueAllPendingUploads`). A settled transcript panel is
  dismissed some day, because `resumeTranscriptionIfNeeded` waits for it.
  Faults are bounded, so the network is stable in the end. `SpoolReleased` is
  conditional (`TurnedDown`): a transcript that the server rejects for good "will
  never resolve itself on a later pass" (`RecordingUploader.swift:571`) and keeps
  the spool, and so does one that differs from a transcript which was stored but
  not accepted and then lost locally. Permanent refusals of the audio itself are
  not modelled; they keep the spool as well.
- `RecordingCapture`: the tasks and queues of the app run when they have
  something to do (`MachineStep`): nobody has to press a button, and the source
  need not deliver anything.
- `Deliverables`: the worker beats again and steps where the gate lets it, a claimed job goes on or its process
  dies, an abandoned lease runs out and the maintenance step reclaims it. Nobody
  has to ask for anything and nothing opens the gate: `RequestsSettle` is about a
  gate that stays open in the end.
- `NativeAuth`, `StudyDay` and `Roadmaps` claim no liveness and assume no
  fairness: whether a learner comes back is not the code's to say.

## 5. Proofs

All theorems hold for every value of the constants allowed by the named
assumptions (`JobQueueAssumption`, `ReviewAssumption`, `OutboxAssumption`,
`RecordingAssumption`, `AuthAssumption`, `StudyAssumption`,
`CaptureAssumption`, `DeliverablesAssumption`, `RoadmapsAssumption`), which only
exclude nonsense: positive limits, distinct sentinels, typed tables. No theorem has
a hypothesis on the behaviour beyond its module's specification.

**ReviewPipelineProofs, the queue.** `TypeCorrect`, then `QueuedStaysClaimable`,
`ConstraintsNeverBite`, `OutboxKeysAreFresh`, `LeaseFences`,
`GuardNeverRejects`. None of the invariants is inductive by itself. `QueueInv`
adds `OutboxRecordsPath` (an event in the outbox is about an attempt the row has
started, and closing events are there only for closed attempts), which makes the
next key fresh; `HeldIsCurrent` (a worker whose lease is intact holds the
current attempt), which makes the fence hold; and `AbsentIsFresh`. The two
action properties follow from it step by step.

**OutboxDeliveryProofs.** `DeliveryTypeCorrect`, `DeliveredExactlyOnce`,
`StreamIsOrdered`. `DeliveryInv` adds that whatever is on the page or the wire
has been published.

**RecordingUploadProofs.** `RecordingTypes`, `SealsAreComplete`,
`JournalsAreTrue`, `NoRecordingIsLost`, `RecordingsAreFinal` and
`UploadImplementsCustody`. `UploadInv` adds
three things. `StoreInv`: rows and objects agree. `HandlerOK`: what a handler
has behind it at its stage is done and cannot be undone, whether somebody waits
for it or not. `AnswerOK` and `PassInv`: what the app has been told, and is
about to mark, is true. The argument has two halves. `Kept` lists what no step
takes back; `ServerSound` shows it, one case per transaction, together with the
truth of every answer. `ClientSound` shows that the app touches nothing on the
server and marks, journals and deletes only on such facts. Facts that are never
taken back carry over to any later moment, which is why lost, late and repeated
requests do no harm.

The refinement is a step simulation from the same invariant: each step of
uploader and server is a step of `RecordingCustody` or changes nothing that the
mapping sees; the guard of `Release` is `NeverLost`'s argument once more.

**DeliverablesProofs.** `SucceededJobsAreStored`, `RowsNeverRegress`,
`MailedOncePerAttempt`. `DocInv` adds to the types and to `SucceededIsStored`:
`AskedIsKnown` (a job, or a request on its way, is about a revision that
exists), `InHand` (what a worker has read is at least as late as the revision its
job was asked for and as the stored document, and no later than the current one)
and `OneComposes` (the row lock admits one worker to a document). The mails need a
counting argument: `MailBudget` says that the mails sent and the workers that
may still send one are together at most the attempts; a claim raises both sides
by one, and a mail moves one from the second term to the first.

**ReviewPipelineProofs, the pipeline.** `PipeInvariant`, `PipelineImplementsQueue`,
`QueuePromisesHold`, `ReviewedIsReadyHolds`, `SucceededHasReviewHolds`,
`RecordedIsInLedgerHolds`. `PipeInv` adds to the three properties and the types
`InHand`: what the worker knows at each place of `review_step`. There is no
review of its task from the load to the store, "recorded" in its hand is about
its own attempt, and at the answer there is a review. This stays true because one process stores
reviews, whatever the API, the clock and the reclaims do to the job meanwhile.
The refinement is a step simulation: an answer is about the job that is held, a
failure has a category that the queue knows, all else leaves the queue's
variables alone. `QueuePromisesHold` then draws the queue's theorems over to the
pipeline.

**NativeAuthProofs.** `AuthInvariant`, `TypeOKHolds`, `OneLiveTokenHolds`,
`StoredIsKeptHolds`, `HandedOutIsCurrentHolds`. On the server, `SessionsInv`: the
pairs of a session form a family, closing revokes all of it, and an open one has
exactly one pair that is not consumed. On the app's side `AuthInv` has four
layers. `MailInv`: a message that somebody waits for belongs to the one task that
waits. `TasksInv`: at most one refresh is about the credentials now in use.
`FreshInv`: a pair on its way is known to nobody else, so what is stored is
never a copy of what another task is about to revoke. `KeysInv`: every task that
is about to write the keychain works for the session whose credentials the
keychain holds. Two parts of `KeysInv` were found by failed proof steps: while
`login()` runs with no active credential no refresh is current, and none is when
a sign-out about to remove its credential finds nothing pending (`CurrentStops`
follows a refresh whose keychain fails to its end). Otherwise a
rotation could store its pair unnoticed by the task that leaves. `OneSessionInv`,
proved beside `AuthInv`, is what a refresh needs that starts although a revocation
is pending: the two keychain items are of one session, and a sign-in that still
counts has no refresh beside it. TLC was run on the strengthened invariant, with two
rotations as well, before it was proved.

**StudyDayProofs.** `StudyInvariant`, `FocusIsMeasuredHolds`,
`ClosedDayIsQuietHolds`, `SeenWasTrueHolds`, `NoFalseConflictHolds`. `StudyInv`
has a server's half (a timer is open exactly while its activity is active; what
it counted and may still count is time that passed; the history has one entry
per version) and a devices' half: `TruthInv` (views, receipts and answers hold
versions that existed), `KeysInv` (a key names one command of one device) and
`AnswersInv` (an answer is the only one to its command, and the command is not
under way again while its device waits). `FocusIsMeasured` needs the sum over the
activities: lemmas about the library's fold show that it adds up and what
changing one term does to it.

**RoadmapsProofs.** `RoadInvariant`, `VersionsAreOneChainHolds`,
`ActiveIsSelectedHolds`, `DaysFollowActivationHolds`, `SyncedIsMirroredHolds`.
`RoadInv` adds what a request holds at its stage and why nobody takes it away
(`RequestsInv`: one request validates an import, an import it approves keeps the
parse that was previewed, the row locks exclude each other), that commits only
add snapshots (`BranchInv`), and that the active version was activated last and
starts after every day planned for another (`ActiveInv`). That an activation's
first open date exists and is the first uses a least-number lemma.

**RecordingCaptureProofs.** `CaptureInvariant`, `StartsOverlapByReentryOnly`,
`SealedSpoolsTile`, `ClosedSpoolsAreQuiet`. The inductive invariant is
`UntilReentered`: as long as no start was re-entered, `CaptureInv` holds and starts
do not overlap. `ApartStep` shows that no step but a re-entry makes two starts
overlap, so nothing is assumed about the callers. `CaptureInv` has two halves.

- `ControlInv`: `CallsInv` relates the phase, the suspended calls of `start()`
  and the stop under way; `RefsInv` says that the coordinator and the source
  refer to nothing but the current recording; `LiveInv` says which of these
  references it has at each stage of `close()` and which of its tasks have ended
  by then; `TasksInv` and `HandoffInv` say what a task that has ended, or a
  closed handoff, left behind (nothing). `ClosedIsQuiet` follows: a task that can
  still write belongs to the current recording, and a closed one is not current.
- `DataInv`: `Sound` is an account. For every track and every position, the
  records, the journal, the event stream, the taken gaps and the registered gaps
  hold the position exactly once if the pipeline has emitted it and not at all
  otherwise, unless the pipeline threw or a write failed. At the seal all
  queues are empty and the accumulator is flushed, so the account is all on disk:
  this is `TilesUnlessThrown`.

The account rests on one fact about the pipeline, `Delivers`: whatever it
processes (a chunk, an interval, the replay of the startup inputs, the final
flush), the events it returns continue each track where the last one ended
(`Chain`), or it threw. Hence an event that the full stream drops touches at most
the gap it continues, and `Register` may merge the two without covering a
position twice. The folds (`FoldLeft` over events and over startup inputs) are
handled by `FoldYieldTable` and its like: the library's recursive definition is
shown to have the values of an explicit table over the prefixes, and properties
go along the prefixes with `UpToN`, an induction on sets of numbers.

The condition `~reentered` is needed: a second call in the pause takes the
references of the first (see Bounds). Two parts of the invariant were
found by failed proof steps: a recording whose `start()` has not returned has no
stop but the undoing of that call, and the writer that fails is itself the one
its stop must not wait for. TLC checked `CaptureInv` on two recordings that do
not overlap, with one buffer a track, capacities of one and one fault, before it
was proved.

Induction over data. The library's induction theorems take an operator as a
parameter and cannot be instantiated by the provers at hand. Where a proof needs
an induction on a set (the least number of a set in `RoadmapsProofs`, the sum
over a finite set in `StudyDayProofs`, a fold over a sequence in
`RecordingCaptureProofs`), it takes a minimal counterexample with `WFMin`, which
is about sets and can be cited.

Only model-checked: all liveness (`JobsEnd`, `ReviewSettles`,
`CommittedIsReached`, `SpoolReleased`, `StopEnds`, `RequestsSettle`), which is
outside the reach of the prover.

## 6. Not modelled

By far most lines of the repository have no state of their own to get wrong in
an interleaving, and the map leaves them out: table columns and their CHECK
constraints, migrations, request and response schemas, routes, SwiftUI views,
prompts, test fakes, scripts and infrastructure. Of what remains:

- Requests that are one transaction over rows they lock: CRUD of interviews,
  classes, notes, cards, shadowing clips, reference material and coach threads.
- Numerical and textual functions: rubric scoring and the fold of the evidence
  ledger, speech metrics, embeddings, card schedules, the package inspector, the
  roadmap parser, its content rules and its diff, report aggregation, the
  content of a planned day.
- The evidence ledger's `record_atomic` enters as one action of
  `ReviewPipeline`; its replay rule is planned. Browser sessions, artifact
  upload and the agents' token slots are planned as well.
- Cryptography and file formats: an encrypted spool is present, shredded or
  gone, and while it is recorded it is a list of ranges; the recovery of an
  unsealed spool only reads.
- Corrections and month exit reviews, which no production caller writes; the
  parser knows month 1 only.
- The nondeterminism of the speech model: a transcript that is stored but not
  accepted, and whose local copies are lost, conflicts with a recomputed one
  that differs, and the app resubmits it for ever.
- Several owners: all rows are scoped by owner and locked per row.
