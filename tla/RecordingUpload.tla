--------------------------- MODULE RecordingUpload ---------------------------
(***************************************************************************)
(* One sealed recording on its way from the Mac's encrypted spool to the   *)
(* server: RecordingUploadPipeline (RecordingUploader.swift) and the       *)
(* transcription half of RecordingCoordinator.swift on the client,         *)
(* RecordingService (recordings/service.py and repository.py) and          *)
(* TranscriptService (speech/service.py) behind the API.                   *)
(*                                                                         *)
(* A request becomes a handler on the server, which runs one transaction   *)
(* or one object-store call per step.  A client that gives up - timeout,   *)
(* lost response, cancellation, crash - leaves its handler running for     *)
(* nobody, next to the handler of its own retry.  Gaps, sample ranges and  *)
(* hashes are functions of the sealed spool, so a retried request repeats  *)
(* its content; "stored" stands for stored and stored_with_gaps.           *)
(***************************************************************************)
EXTENDS Integers, FiniteSets

CONSTANTS
  Parts,        \* the upload parts of the recording, both tracks
  Payloads,     \* transcripts a transcription may compute
  Acceptable,   \* the ones whose body passes the server's validation
  NoPayload,
  MaxFaults     \* bound: give-ups, crashes and failed handlers in a behaviour

ASSUME RecordingAssumption ==
  /\ Parts \cap {"create", "seal", "status", "transcript", "none", "waiting", "done",
                 "refused", "rejected", "nothing", "audio", "both", "manifest"} = {}
  /\ NoPayload \notin Payloads
  /\ Acceptable \subseteq Payloads
  /\ MaxFaults \in Nat

VARIABLES
  \* the server's database and object store
  state,        \* recordings.state ("none": no row)
  part,         \* recording_parts.state of each part
  objects,      \* immutable objects written: parts and the track manifests
  transcript,   \* speech_transcripts: the stored body
  lineage,      \* recordings.transcript_lineage_accepted
  analysis,     \* is the speech analysis job enqueued
  \* requests
  handlers,     \* request handlers at work
  answer,       \* what each caller on the client has been answered
  \* the client's disk
  spool,        \* "present", "shredded" (its key is deleted), "gone"
  gates,        \* the release gates of state.json
  created, completed,   \* createAccepted and completedParts of the upload journal
  saved,        \* transcript-payload.tfe
  \* the client's memory
  pc, found, pending,   \* the upload pass, its gates to mark, its transcript to submit
  cached,       \* the transcript cache
  speech,       \* the coordinator's transcription task ("settled": over, still on screen)
  discard,      \* how far a confirmed discard has come
  faults

serverVars  == <<state, part, objects, transcript, lineage, analysis>>
requestVars == <<handlers, answer>>
diskVars    == <<spool, gates, created, completed, saved>>
passVars    == <<pc, found, pending>>
recordingVars ==
  <<state, part, objects, transcript, lineage, analysis, handlers, answer, spool, gates,
    created, completed, saved, pc, found, pending, cached, speech, discard, faults>>

Callers == {"pipeline", "coordinator"}
Calls   == {"create", "seal", "status", "transcript"} \cup Parts
Stages  == {"run", "reserve", "put", "finalize", "prepare", "verify", "manifest", "commit",
            "resolve", "store", "accept", "enqueue"}
Answers == {"none", "waiting", "done", "refused", "rejected", "nothing", "audio", "both"}
             \cup Parts
Gates   == [audio: BOOLEAN, lineage: BOOLEAN]
Handler == [call: Calls, payload: Payloads \cup {NoPayload}, stage: Stages,
            caller: Callers \cup {"nobody"}]

TypeOK ==
  /\ state \in {"none", "reserved", "uploading", "sealing", "stored"}
  /\ part \in [Parts -> {"absent", "reserved", "stored"}]
  /\ objects \subseteq Parts \cup {"manifest"}
  /\ transcript \in Payloads \cup {NoPayload}
  /\ lineage \in BOOLEAN /\ analysis \in BOOLEAN
  /\ handlers \subseteq Handler
  /\ answer \in [Callers -> Answers]
  /\ spool \in {"present", "shredded", "gone"}
  /\ gates \in Gates /\ found \in Gates
  /\ created \in BOOLEAN /\ completed \subseteq Parts
  /\ {saved, pending, cached} \subseteq Payloads \cup {NoPayload}
  /\ pc \in {"idle", "create", "parts", "seal", "status", "submit", "submitting", "mark",
             "release", "remove", "resume"}
  /\ speech \in {"none", "running", "submitting", "settled"}
  /\ discard \in {"no", "directory", "cache", "done"}
  /\ faults \in 0..MaxFaults

Init ==
  /\ state = "none" /\ part = [p \in Parts |-> "absent"] /\ objects = {}
  /\ transcript = NoPayload /\ lineage = FALSE /\ analysis = FALSE
  /\ handlers = {} /\ answer = [c \in Callers |-> "none"]
  /\ spool = "present" /\ gates = [audio |-> FALSE, lineage |-> FALSE]
  /\ created = FALSE /\ completed = {} /\ saved = NoPayload
  /\ pc = "idle" /\ found = gates /\ pending = NoPayload /\ cached = NoPayload
  /\ speech \in {"none", "running"}     \* stop() transcribes unless it had a reason
  /\ discard = "no" /\ faults = 0

-----------------------------------------------------------------------------
(* Requests.                                                                *)

FirstStage(call) ==
  CASE call \in Parts -> "reserve" [] call = "seal" -> "prepare"
    [] call = "transcript" -> "resolve" [] OTHER -> "run"

Send(c, call, payload) ==
  /\ handlers' = handlers \cup {[call |-> call, payload |-> payload,
                                 stage |-> FirstStage(call), caller |-> c]}
  /\ answer' = [answer EXCEPT ![c] = "waiting"]

Proceed(h, stage) ==
  /\ handlers' = (handlers \ {h}) \cup {[h EXCEPT !.stage = stage]}
  /\ UNCHANGED answer

Reply(h, result) ==
  /\ handlers' = handlers \ {h}
  /\ answer' = IF h.caller = "nobody" THEN answer ELSE [answer EXCEPT ![h.caller] = result]

\* The callers in C stop waiting; what they asked for goes on without them.
Abandon(C) ==
  /\ handlers' = {IF h.caller \in C THEN [h EXCEPT !.caller = "nobody"] ELSE h : h \in handlers}
  /\ answer' = [c \in Callers |-> IF c \in C THEN "none" ELSE answer[c]]

Taken(c) == answer' = [answer EXCEPT ![c] = "none"] /\ UNCHANGED handlers

Fault == faults < MaxFaults /\ faults' = faults + 1

-----------------------------------------------------------------------------
(* The server: one action per transaction or object-store call.             *)

clientVars == <<spool, gates, created, completed, saved, pc, found, pending, cached,
                speech, discard>>

CreateRecording(h) ==
  /\ h.call = "create"
  /\ state' = IF state = "none" THEN "reserved" ELSE state
  /\ Reply(h, "done")
  /\ UNCHANGED <<part, objects, transcript, lineage, analysis, clientVars, faults>>

ReserveAnsweringReserved(h) ==
  /\ h.call \in Parts /\ h.stage = "reserve"
  /\ CASE state \notin {"reserved", "uploading"} ->
            Reply(h, "refused") /\ UNCHANGED <<state, part>>
       [] state \in {"reserved", "uploading"} /\ part[h.call] = "absent" ->
            /\ part' = [part EXCEPT ![h.call] = "reserved"]
            /\ state' = "uploading"
            /\ Proceed(h, "put")
       [] OTHER -> Reply(h, h.call) /\ UNCHANGED <<state, part>>
  /\ UNCHANGED <<objects, transcript, lineage, analysis, clientVars, faults>>

ReserveSkippingObject(h) ==
  /\ h.call \in Parts /\ h.stage = "reserve"
  /\ CASE state \notin {"reserved", "uploading"} ->
            Reply(h, "refused") /\ UNCHANGED <<state, part>>
       [] state \in {"reserved", "uploading"} /\ part[h.call] = "absent" ->
            /\ part' = [part EXCEPT ![h.call] = "reserved"]
            /\ state' = "uploading"
            /\ Proceed(h, "put")
       [] OTHER -> Proceed(h, "finalize") /\ UNCHANGED <<state, part>>
  /\ UNCHANGED <<objects, transcript, lineage, analysis, clientVars, faults>>

ReservePart(h) ==
  /\ h.call \in Parts /\ h.stage = "reserve"
  /\ \/ /\ state \notin {"reserved", "uploading"}
        /\ Reply(h, "refused")
        /\ UNCHANGED <<state, part>>
     \/ /\ state \in {"reserved", "uploading"} /\ part[h.call] = "absent"
        /\ part' = [part EXCEPT ![h.call] = "reserved"]
        /\ state' = "uploading"
        /\ Proceed(h, "put")
     \/ /\ state \in {"reserved", "uploading"} /\ part[h.call] = "reserved"
        /\ Proceed(h, "put")
        /\ UNCHANGED <<state, part>>
     \/ /\ state \in {"reserved", "uploading"} /\ part[h.call] = "stored"
        /\ Reply(h, h.call)
        /\ UNCHANGED <<state, part>>
  /\ UNCHANGED <<objects, transcript, lineage, analysis, clientVars, faults>>

\* An object that exists already is the same one: its key holds its hash.
EnsurePartObject(h) ==
  /\ h.call \in Parts /\ h.stage = "put"
  /\ objects' = objects \cup {h.call}
  /\ Proceed(h, "finalize")
  /\ UNCHANGED <<state, part, transcript, lineage, analysis, clientVars, faults>>

FinalizeAgain(h) ==
  /\ h.call \in Parts /\ h.stage = "finalize"
  /\ part' = [part EXCEPT ![h.call] = "stored"]
  /\ state' = "uploading"
  /\ Reply(h, h.call)
  /\ UNCHANGED <<objects, transcript, lineage, analysis, clientVars, faults>>

\* A part that is stored already is answered from its row; otherwise the
\* recording is set to uploading, whatever its state.
FinalizePart(h) ==
  /\ h.call \in Parts /\ h.stage = "finalize"
  /\ IF part[h.call] = "stored"
       THEN UNCHANGED <<state, part>>
       ELSE part' = [part EXCEPT ![h.call] = "stored"] /\ state' = "uploading"
  /\ Reply(h, h.call)
  /\ UNCHANGED <<objects, transcript, lineage, analysis, clientVars, faults>>

\* The manifest names every part of the spool: a part that is reserved or
\* missing refuses the seal.
PrepareSeal(h) ==
  /\ h.call = "seal" /\ h.stage = "prepare"
  /\ CASE state = "stored" -> Reply(h, "audio") /\ UNCHANGED state
       [] state \notin {"none", "stored"} /\ (\A p \in Parts : part[p] = "stored") ->
            state' = "sealing" /\ Proceed(h, "verify")
       [] OTHER -> Reply(h, "refused") /\ UNCHANGED state
  /\ UNCHANGED <<part, objects, transcript, lineage, analysis, clientVars, faults>>

VerifyPcmHashes(h) ==
  /\ h.call = "seal" /\ h.stage = "verify"
  /\ IF Parts \subseteq objects THEN Proceed(h, "manifest") ELSE Reply(h, "refused")
  /\ UNCHANGED <<serverVars, clientVars, faults>>

PutManifests(h) ==
  /\ h.call = "seal" /\ h.stage = "manifest"
  /\ objects' = objects \cup {"manifest"}
  /\ Proceed(h, "commit")
  /\ UNCHANGED <<state, part, transcript, lineage, analysis, clientVars, faults>>

\* The answer is the stored result, whose transcript_lineage_accepted is false.
FinalizeSeal(h) ==
  /\ h.call = "seal" /\ h.stage = "commit"
  /\ IF state \in {"sealing", "stored"}
       THEN state' = "stored" /\ Reply(h, "audio")
       ELSE Reply(h, "refused") /\ UNCHANGED state
  /\ UNCHANGED <<part, objects, transcript, lineage, analysis, clientVars, faults>>

ReadStatus(h) ==
  /\ h.call = "status"
  /\ Reply(h, CASE state = "none" -> "refused" [] lineage -> "both"
                [] state = "stored" -> "audio" [] OTHER -> "nothing")
  /\ UNCHANGED <<serverVars, clientVars, faults>>

ResolveTranscript(h) ==
  /\ h.call = "transcript" /\ h.stage = "resolve"
  /\ CASE h.payload \notin Acceptable -> Reply(h, "rejected")
       [] h.payload \in Acceptable /\ state = "stored" -> Proceed(h, "store")
       [] OTHER -> Reply(h, "refused")
  /\ UNCHANGED <<serverVars, clientVars, faults>>

\* One transcript per recording: the same body replays, another conflicts.
StoreTranscript(h) ==
  /\ h.call = "transcript" /\ h.stage = "store"
  /\ IF transcript \in {NoPayload, h.payload}
       THEN transcript' = h.payload /\ Proceed(h, "accept")
       ELSE Reply(h, "refused") /\ UNCHANGED transcript
  /\ UNCHANGED <<state, part, objects, lineage, analysis, clientVars, faults>>

AcceptLineage(h) ==
  /\ h.call = "transcript" /\ h.stage = "accept"
  /\ lineage' = TRUE
  /\ Proceed(h, "enqueue")
  /\ UNCHANGED <<state, part, objects, transcript, analysis, clientVars, faults>>

EnqueueAnalysis(h) ==
  /\ h.call = "transcript" /\ h.stage = "enqueue"
  /\ analysis' = TRUE
  /\ Reply(h, "both")
  /\ UNCHANGED <<state, part, objects, transcript, lineage, clientVars, faults>>

\* The database or the object store fails, or the API process stops.
HandlerFails(h) ==
  /\ Fault
  /\ Reply(h, "refused")
  /\ UNCHANGED <<serverVars, clientVars>>

ServerStep(h) ==
  \/ CreateRecording(h)
  \/ ReservePart(h) \/ EnsurePartObject(h) \/ FinalizePart(h)
  \/ PrepareSeal(h) \/ VerifyPcmHashes(h) \/ PutManifests(h) \/ FinalizeSeal(h)
  \/ ReadStatus(h)
  \/ ResolveTranscript(h) \/ StoreTranscript(h) \/ AcceptLineage(h) \/ EnqueueAnalysis(h)

-----------------------------------------------------------------------------
(* The upload pass: one worker, so one pass at a time.                      *)

GatesOf(a) == [audio |-> a \in {"audio", "both"}, lineage |-> a = "both"]

\* The transcript cache: memory first, then the file the spool's key opens.
Payload == CASE cached # NoPayload -> cached
             [] cached = NoPayload /\ spool = "present" -> saved
             [] OTHER -> NoPayload

StartPass ==
  /\ pc = "idle" /\ spool = "present"
  /\ IF gates.audio THEN pc' = "status" /\ Send("pipeline", "status", NoPayload)
     ELSE IF created THEN pc' = "parts" /\ UNCHANGED requestVars
     ELSE pc' = "create" /\ Send("pipeline", "create", NoPayload)
  /\ UNCHANGED <<serverVars, diskVars, found, pending, cached, speech, discard, faults>>

CreateAccepted ==
  /\ pc = "create" /\ answer["pipeline"] = "done" /\ spool # "gone"
  /\ created' = TRUE
  /\ pc' = "parts"
  /\ Taken("pipeline")
  /\ UNCHANGED <<serverVars, spool, gates, completed, saved, found, pending, cached,
                 speech, discard, faults>>

SendPart(p) ==
  /\ pc = "parts" /\ answer["pipeline"] = "none" /\ spool # "gone"
  /\ p \notin completed
  /\ Send("pipeline", p, NoPayload)
  /\ UNCHANGED <<serverVars, clientVars, faults>>

PartAccepted(p) ==
  /\ pc = "parts" /\ answer["pipeline"] = p /\ spool # "gone"
  /\ completed' = completed \cup {p}
  /\ Taken("pipeline")
  /\ UNCHANGED <<serverVars, spool, gates, created, saved, passVars, cached, speech,
                 discard, faults>>

SendSeal ==
  /\ pc = "parts" /\ answer["pipeline"] = "none" /\ completed = Parts
  /\ pc' = "seal"
  /\ Send("pipeline", "seal", NoPayload)
  /\ UNCHANGED <<serverVars, diskVars, found, pending, cached, speech, discard, faults>>

SealAccepted ==
  /\ pc = "seal" /\ answer["pipeline"] \in {"audio", "both"} /\ spool # "gone"
  /\ found' = GatesOf(answer["pipeline"])
  /\ pc' = "mark"
  /\ Taken("pipeline")
  /\ UNCHANGED <<serverVars, diskVars, pending, cached, speech, discard, faults>>

StatusOnly ==
  /\ pc = "status" /\ answer["pipeline"] \in {"nothing", "audio", "both"}
  /\ found' = GatesOf(answer["pipeline"])
  /\ pc' = "mark"
  /\ Taken("pipeline")
  /\ UNCHANGED <<serverVars, diskVars, pending, cached, speech, discard, faults>>

\* Without an accepted transcript the pass takes the cached one to submit.
StatusRead ==
  /\ pc = "status" /\ answer["pipeline"] \in {"nothing", "audio", "both"}
  /\ found' = GatesOf(answer["pipeline"])
  /\ IF answer["pipeline"] # "both" /\ Payload # NoPayload
       THEN pc' = "submit" /\ pending' = Payload /\ cached' = Payload
       ELSE pc' = "mark" /\ UNCHANGED <<pending, cached>>
  /\ Taken("pipeline")
  /\ UNCHANGED <<serverVars, diskVars, speech, discard, faults>>

\* The bearer lease, refreshed over the network if need be, comes first.
SubmitTranscript ==
  /\ pc = "submit"
  /\ pc' = "submitting" /\ pending' = NoPayload
  /\ Send("pipeline", "transcript", pending)
  /\ UNCHANGED <<serverVars, diskVars, found, cached, speech, discard, faults>>

\* Accepted, or a failure that is logged and leaves the gates of the status.
TranscriptAnswered ==
  /\ pc = "submitting" /\ answer["pipeline"] \in {"both", "refused"}
  /\ found' = IF answer["pipeline"] = "both" THEN GatesOf("both") ELSE found
  /\ pc' = "mark"
  /\ Taken("pipeline")
  /\ UNCHANGED <<serverVars, diskVars, pending, cached, speech, discard, faults>>

TranscriptRejected ==
  /\ pc = "submitting" /\ answer["pipeline"] = "rejected"
  /\ cached' = NoPayload /\ saved' = NoPayload
  /\ pc' = "idle"
  /\ Taken("pipeline")
  /\ UNCHANGED <<serverVars, spool, gates, created, completed, found, pending, speech,
                 discard, faults>>

\* markReleaseGates: a delivered gate never closes again.
MarkGates ==
  /\ pc = "mark" /\ spool = "present"
  /\ gates.audio => found.audio
  /\ gates.lineage => found.lineage
  /\ gates' = found
  /\ pc' = "release"
  /\ UNCHANGED <<serverVars, requestVars, spool, created, completed, saved, found, pending,
                 cached, speech, discard, faults>>

ReleaseOnAudio ==
  /\ pc = "release" /\ spool = "present"
  /\ IF gates.audio
       THEN spool' = "shredded" /\ pc' = "remove"
       ELSE pc' = "resume" /\ UNCHANGED spool
  /\ UNCHANGED <<serverVars, requestVars, gates, created, completed, saved, found, pending,
                 cached, speech, discard, faults>>

\* releaseIfEligible: the key goes first, the directory after it.
Release ==
  /\ pc = "release" /\ spool = "present"
  /\ IF gates.audio /\ gates.lineage
       THEN spool' = "shredded" /\ pc' = "remove"
       ELSE pc' = "resume" /\ UNCHANGED spool
  /\ UNCHANGED <<serverVars, requestVars, gates, created, completed, saved, found, pending,
                 cached, speech, discard, faults>>

RemoveDirectory ==
  /\ pc = "remove"
  /\ spool' = "gone" /\ saved' = NoPayload /\ cached' = NoPayload
  /\ pc' = "idle"
  /\ UNCHANGED <<serverVars, requestVars, gates, created, completed, found, pending,
                 speech, discard, faults>>

\* resumeTranscriptionIfNeeded; a run over a spool that is gone fails at once.
ResumeTranscription ==
  /\ pc = "resume"
  /\ speech' = IF found.audio /\ Payload = NoPayload /\ speech = "none"
                 THEN IF spool = "present" THEN "running" ELSE "settled"
                 ELSE speech
  /\ cached' = IF found.audio THEN Payload ELSE cached
  /\ pc' = "idle"
  /\ UNCHANGED <<serverVars, requestVars, diskVars, found, pending, discard, faults>>

\* A refused request, or a disk step on a spool that has gone, ends the pass.
PassFails ==
  /\ \/ pc \in {"create", "parts", "seal", "status"} /\ answer["pipeline"] = "refused"
     \/ pc \in {"create", "parts", "seal"} /\ spool = "gone" /\ answer["pipeline"] # "waiting"
     \/ pc \in {"mark", "release"} /\ spool # "present"
  /\ pc' = "idle"
  /\ Taken("pipeline")
  /\ UNCHANGED <<serverVars, diskVars, found, pending, cached, speech, discard, faults>>

\* Timeout, lost connection or cancellation.  A resubmission swallows all but
\* the last.
PassInterrupted ==
  /\ Fault
  /\ pc # "idle"
  /\ pc' \in {"idle"} \cup {q \in {"mark"} : pc = "submitting"}
  /\ Abandon({"pipeline"})
  /\ pending' = NoPayload
  /\ UNCHANGED <<serverVars, diskVars, found, cached, speech, discard>>

PipelineStep ==
  \/ CreateAccepted \/ SendSeal \/ SealAccepted
  \/ \E p \in Parts : SendPart(p) \/ PartAccepted(p)
  \/ StatusRead \/ SubmitTranscript \/ TranscriptAnswered \/ TranscriptRejected
  \/ MarkGates \/ Release \/ RemoveDirectory \/ ResumeTranscription \/ PassFails

-----------------------------------------------------------------------------
(* The coordinator: transcription, discard, and the process itself.         *)

\* Writing the durable copy may fail; the submission goes out all the same.
TranscriptionDone(v) ==
  /\ speech = "running"
  /\ speech' = "submitting" /\ cached' = v
  /\ saved' \in {saved} \cup {w \in {v} : spool = "present"}
  /\ Send("coordinator", "transcript", v)
  /\ UNCHANGED <<serverVars, spool, gates, created, completed, passVars, discard, faults>>

TranscriptionFails ==
  /\ Fault
  /\ speech = "running"
  /\ speech' = "settled"
  /\ UNCHANGED <<serverVars, requestVars, diskVars, passVars, cached, discard>>

CoordinatorAnswered ==
  /\ speech = "submitting" /\ answer["coordinator"] \in {"both", "refused", "rejected"}
  /\ speech' = "settled"
  /\ IF answer["coordinator"] = "rejected"
       THEN cached' = NoPayload /\ saved' = NoPayload
       ELSE UNCHANGED <<cached, saved>>
  /\ Taken("coordinator")
  /\ UNCHANGED <<serverVars, spool, gates, created, completed, passVars, discard, faults>>

CoordinatorTimesOut ==
  /\ Fault
  /\ speech = "submitting"
  /\ speech' = "settled"
  /\ Abandon({"coordinator"})
  /\ UNCHANGED <<serverVars, diskVars, passVars, cached, discard>>

\* The transcript's panel is dismissed or claimed by the next recording.
ClearTranscript ==
  /\ speech = "settled"
  /\ speech' = "none"
  /\ UNCHANGED <<serverVars, requestVars, diskVars, passVars, cached, discard, faults>>

CoordinatorStep == (\E v \in Payloads : TranscriptionDone(v)) \/ CoordinatorAnswered

\* discardPending: the key, the directory, then the transcription and the
\* cache.  The upload worker is not cancelled.
DiscardKey ==
  /\ discard \in {"no", "done"} /\ spool # "gone"
  /\ spool' = "shredded" /\ discard' = "directory"
  /\ UNCHANGED <<serverVars, requestVars, gates, created, completed, saved, passVars,
                 cached, speech, faults>>

DiscardDirectory ==
  /\ discard = "directory"
  /\ spool' = "gone" /\ saved' = NoPayload /\ discard' = "cache"
  /\ UNCHANGED <<serverVars, requestVars, gates, created, completed, passVars, cached,
                 speech, faults>>

DiscardFinish ==
  /\ discard = "cache"
  /\ speech' = "none" /\ cached' = NoPayload /\ discard' = "done"
  /\ Abandon({"coordinator"})
  /\ UNCHANGED <<serverVars, diskVars, passVars, faults>>

DiscardStep == DiscardKey \/ DiscardDirectory \/ DiscardFinish

\* The app quits or dies: memory is lost, the disk and the server stay.
Crash ==
  /\ Fault
  /\ pc' = "idle" /\ pending' = NoPayload /\ cached' = NoPayload /\ speech' = "none"
  /\ discard' = IF discard = "no" THEN "no" ELSE "done"
  /\ Abandon(Callers)
  /\ UNCHANGED <<serverVars, diskVars, found>>

Faults ==
  \/ \E h \in handlers : HandlerFails(h)
  \/ PassInterrupted \/ TranscriptionFails \/ CoordinatorTimesOut \/ Crash

Next ==
  \/ \E h \in handlers : ServerStep(h)
  \/ StartPass \/ PipelineStep
  \/ CoordinatorStep \/ ClearTranscript
  \/ DiscardStep
  \/ Faults

Spec == Init /\ [][Next]_recordingVars

\* Requests are served, the tasks of the app run, a pass starts again on
\* launch, on Retry or after the next recording, and panels get dismissed.
FairSpec ==
  /\ Spec
  /\ \A c \in Callers \cup {"nobody"} :
       WF_recordingVars(\E h \in handlers : h.caller = c /\ ServerStep(h))
  /\ WF_recordingVars(StartPass) /\ WF_recordingVars(PipelineStep)
  /\ WF_recordingVars(CoordinatorStep) /\ WF_recordingVars(ClearTranscript)

-----------------------------------------------------------------------------
(* Properties.                                                              *)

\* A recording the server seals is whole: every part's row is stored and its
\* object written, also when an abandoned upload of a part still runs, and a
\* stored one has its manifests (prepare_seal, finalize_seal).
SealedIsComplete ==
  /\ state \in {"sealing", "stored"} =>
       \A p \in Parts : part[p] = "stored" /\ p \in objects
  /\ state = "stored" => "manifest" \in objects

\* Unless the user discards it, the local original is shredded only when the
\* server holds the whole recording and an accepted transcript of it,
\* whatever was lost, retried or failed on the way (releaseIfEligible).
NeverLost ==
  spool # "present" /\ discard = "no" =>
    /\ state = "stored" /\ Parts \cup {"manifest"} \subseteq objects
    /\ lineage /\ transcript \in Acceptable

\* What the client has on disk about the server is true there: a part its
\* journal skips is stored, an open gate has its fact (uploadGroup, updateReleaseGates).
JournalIsTrue ==
  /\ \A p \in completed : part[p] = "stored"
  /\ gates.audio => state = "stored"
  /\ gates.lineage => lineage /\ transcript # NoPayload

\* A stored recording stays stored and an accepted transcript stays what it
\* is, whatever abandoned handlers still do (finalize_part, store).
StoredIsFinal ==
  [][/\ state = "stored" => state' = "stored"
     /\ transcript # NoPayload => transcript' = transcript
     /\ lineage => lineage']_recordingVars

\* The whole exchange implements RecordingCustody: with every abandoned handler,
\* retried request and crash, the original leaves the Mac only for a server that has
\* stored the audio and accepted a transcript, or by a discard, and the server never
\* gives back what it took over.
Custody == INSTANCE RecordingCustody WITH
  Transcripts <- Acceptable, NoTranscript <- NoPayload,
  original <- (spool = "present"), audio <- (state = "stored"),
  accepted <- (IF lineage THEN transcript ELSE NoPayload), discarded <- (discard # "no")
ImplementsCustody == Custody!Spec

\* The server will never take the transcript that the client has: its body fails
\* validation, or another body was stored before it and never accepted.
TurnedDown ==
  \/ \E c \in Callers : answer[c] = "rejected"
  \/ ~lineage /\ transcript # NoPayload /\ Payload \notin {NoPayload, transcript}

\* Once faults stop, the encrypted spool does not stay on the Mac: the passes
\* upload, resubmit or recompute the transcript until both gates open, unless
\* the server turns transcripts down again and again
\* (recheckStatusRetryingTranscriptIfNeeded, resumeTranscriptionIfNeeded).
SpoolReleased == <>[]~TurnedDown => (spool = "present" ~> spool # "present")

\* Documented (TranscriptService): a submission whose analysis hook fails is
\* retried by the client, so an accepted transcript gets its analysis.
AnalysisFollowsTranscript == lineage ~> analysis

\* Documented (discardPending): after a discard no transcript of the audio is
\* sent to the server.
NoTranscriptAfterDiscard ==
  [][discard = "done" =>
       \A h \in handlers' \ handlers :
         ~ (h.call = "transcript" /\ h.stage = "resolve" /\ h.caller # "nobody")]_recordingVars
=============================================================================
