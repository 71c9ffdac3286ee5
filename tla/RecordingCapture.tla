-------------------------- MODULE RecordingCapture --------------------------
(***************************************************************************)
(* One Mac records a conversation.  ScreenCaptureKit's callback queue      *)
(* offers sample buffers of two tracks to a bounded handoff; a processing  *)
(* queue converts them and runs the capture pipeline (startup gate,        *)
(* timeline, one-second accumulator); its events enter a bounded stream    *)
(* that a writer task on the main actor stores in the encrypted spool; what*)
(* the stream drops is registered as a gap and written by a task of its    *)
(* own.  RecordingCoordinator starts all this, and stops it on request, at *)
(* the time limit, on an environment loss or on a failure: it stops the    *)
(* source, drains every queue, and then seals the spool or leaves it       *)
(* unsealed.                                                               *)
(*                                                                         *)
(* Audio is abstracted to ranges [start, start + len) of canonical samples *)
(* counted in units of one source buffer, so that a presentation time in   *)
(* nanoseconds is its sample; levels, routes and cryptography are left     *)
(* out.  A start call and the recording it creates share an index.         *)
(* A range that the callback could not offer is recorded in a second step: *)
(* the processing queue may take a batch between the two.                  *)
(***************************************************************************)
EXTENDS Naturals, FiniteSets, SequencesExt

CONSTANTS
    MaxStarts,        \* calls of start(), and so recordings
    MaxBuffers,       \* positions the source may reach on a track
    Second,           \* buffers in one canonical second
    StartupInputs,    \* inputs of a track the startup gate buffers (256)
    HandoffCapacity,  \* sample buffers the callback handoff retains (16)
    StreamCapacity,   \* events the capture stream buffers (64)
    MaxFaults         \* failures of the file system, the source and conversion

ASSUME CaptureAssumption ==
    /\ MaxStarts \in Nat \ {0} /\ MaxBuffers \in Nat /\ MaxFaults \in Nat
    /\ Second \in Nat \ {0} /\ StartupInputs \in Nat
    /\ HandoffCapacity \in Nat \ {0} /\ StreamCapacity \in Nat \ {0}

Tracks == {"microphone", "system_audio"}
Starts == 1 .. MaxStarts
None   == 0

VARIABLES
    phase,     \* RecordingCoordinator.phase, without its payload
    calls,     \* calls[i]: where start() call i is suspended
    held,      \* the coordinator's references, failure flags and pending event
    closer,    \* closer[i]: how far the stop of recording i has come
    source,    \* ScreenCaptureAudioSource
    handoff,   \* BoundedCaptureHandoffQueue
    batch,     \* what the processing queue took from it and has not processed
    pipe,      \* RecordingCapturePipeline
    stream,    \* stream[i]: the AsyncStream of capture events
    writer,    \* writer[i]: the task that consumes it
    gaps,      \* gaps[i]: PendingGapWrites
    disk,      \* disk[i]: the spool directory
    faults,    \* failures so far
    reentered  \* history: was start() called while another call paused the uploads

vars == <<phase, calls, held, closer, source, handoff, batch, pipe, stream,
          writer, gaps, disk, faults>>
allVars == <<vars, reentered>>

coordinator == <<phase, calls, held, closer>>
capture     == <<source, handoff, batch, pipe>>
storage     == <<stream, writer, gaps, disk>>

Span(track, start, len, reason) ==
    [track |-> track, start |-> start, len |-> len, reason |-> reason]

Chunk(track, start, len)    == Span(track, start, len, "audio")
Failure(what)               == Span("none", 0, 0, what)
IsGap(e)   == e.track # "none" /\ e.reason # "audio"
IsChunk(e) == e.reason = "audio"

\* Swift's sorted(by:), with a definition that proofs can open: the elements of S,
\* none of them before an earlier one.
InOrder(S, before(_, _)) ==
    CHOOSE s \in SetToSeqs(S) :
        \A j, k \in 1 .. Cardinality(S) : j < k => ~before(s[k], s[j])

NoCloser == [kind |-> "none", stage |-> "none", by |-> None, wait |-> None,
             ok |-> TRUE]
NoGaps   == [pending |-> {}, batch |-> <<>>, running |-> FALSE, failed |-> FALSE]
NoSpool  == [there |-> FALSE, recs |-> [t \in Tracks |-> <<>>], torn |-> FALSE,
             journal |-> <<>>, sealed |-> FALSE,
             ends |-> [t \in Tracks |-> 0], lost |-> FALSE]
NoHeld   == [rec |-> None, spool |-> None, cont |-> None, writer |-> None,
             gaps |-> None, failed |-> FALSE, fatal |-> FALSE, env |-> FALSE]

NewHandoff == [retained |-> <<>>, late |-> {}, dropped |-> [t \in Tracks |-> {}],
               scheduled |-> FALSE, closed |-> FALSE]
NewPipe    == [open |-> FALSE, failed |-> FALSE, inputs |-> <<>>, origin |-> {},
               ends |-> [t \in Tracks |-> 0],
               pending |-> [t \in Tracks |-> {}], lost |-> FALSE]
NoSource   == [receiver |-> None, alive |-> FALSE, at |-> [t \in Tracks |-> 0]]

Init ==
    /\ phase = "idle"
    /\ calls = [i \in Starts |-> "idle"]
    /\ held = NoHeld
    /\ closer = [i \in Starts |-> NoCloser]
    /\ source = NoSource
    /\ handoff = NewHandoff
    /\ batch = <<>>
    /\ pipe = NewPipe
    /\ stream = [i \in Starts |-> [buf |-> <<>>, open |-> FALSE]]
    /\ writer = [i \in Starts |-> "none"]
    /\ gaps = [i \in Starts |-> NoGaps]
    /\ disk = [i \in Starts |-> NoSpool]
    /\ faults = 0
    /\ reentered = FALSE

Fault == faults < MaxFaults /\ faults' = faults + 1

-----------------------------------------------------------------------------
(***************************************************************************)
(* The pipeline: pure functions of its state.  A result is the new state,  *)
(* the events to yield, and whether Swift threw; what was assigned before a*)
(* throw stays assigned, and the events collected so far are lost; lost is  *)
(* a history variable that remembers that some were.                       *)
(***************************************************************************)
Result(p, events, threw) == [p |-> p, events |-> events, threw |-> threw]

Threw(p, events) == Result([p EXCEPT !.lost = @ \/ events # <<>>], <<>>, TRUE)

After(events, r) == Result(r.p, events \o r.events, r.threw)

\* RecordingChunkAccumulator.flush: a pending range is a one-element set.
Flushed(p, t) ==
    IF p.pending[t] = {} THEN <<>> ELSE SetToSeq(p.pending[t])

WithoutPending(p, t) == [p EXCEPT !.pending[t] = {}]

\* RecordingChunkAccumulator.accept: merge what touches, emit full seconds.
Accumulate(p, c) ==
    LET old     == p.pending[c.track]
        merges  == \E q \in old : q.start + q.len = c.start
        start   == IF merges THEN (CHOOSE q \in old : TRUE).start ELSE c.start
        total   == c.start + c.len - start
        full    == total \div Second
        emitted == [k \in 1 .. full |->
                        Chunk(c.track, start + (k - 1) * Second, Second)]
        rest    == total - full * Second
    IN  Result([p EXCEPT !.pending[c.track] =
                    IF rest = 0 THEN {}
                    ELSE {Chunk(c.track, start + full * Second, rest)}],
               (IF merges THEN <<>> ELSE Flushed(p, c.track)) \o emitted, FALSE)

WithOrigin(p, at) == IF p.origin = {} THEN [p EXCEPT !.origin = {at}] ELSE p
OriginOf(p) == CHOOSE o \in p.origin : TRUE

\* RecordingTimelineAssembler.accept(chunk) and the pipeline step around it.
ProcessChunk(p0, c) ==
    LET p        == WithOrigin(p0, c.start)
        expected == p.ends[c.track]
        at       == c.start - OriginOf(p)
        placed   == Chunk(c.track, at, c.len)
        moved    == [p EXCEPT !.ends[c.track] = at + c.len]
    IN  IF c.start < OriginOf(p) \/ at < expected THEN Threw(p, <<>>)
        ELSE IF at = expected THEN Accumulate(moved, placed)
        ELSE After(Append(Flushed(moved, c.track),
                          Span(c.track, expected, at - expected,
                               "source_discontinuity")),
                   Accumulate(WithoutPending(moved, c.track), placed))

\* RecordingTimelineAssembler.accept(droppedSourceInterval:) after the flush.
ProcessInterval(p0, c, reason) ==
    LET flushed  == Flushed(p0, c.track)
        p        == WithOrigin(WithoutPending(p0, c.track), c.start)
        expected == p.ends[c.track]
        from     == c.start - OriginOf(p)
        to       == from + c.len
        begin    == IF expected > from THEN expected ELSE from
    IN  IF c.start < OriginOf(p) THEN Threw(p, flushed)
        ELSE IF to <= expected THEN Result(p, flushed, FALSE)
        ELSE Result([p EXCEPT !.ends[c.track] = to],
                    flushed
                    \o (IF expected < from
                        THEN <<Span(c.track, expected, from - expected,
                                     "source_discontinuity")>>
                        ELSE <<>>)
                    \o <<Span(c.track, begin, to - begin, reason)>>, FALSE)

\* RecordingCapturePipeline.process: item.reason says which kind of input it is.
ProcessInput(p, item) ==
    LET reported(r) == IF item.reason = "missing_audio" /\ ~r.threw
                       THEN [r EXCEPT !.events = Append(@, Failure("conversion"))]
                       ELSE r
    IN  IF IsChunk(item) THEN ProcessChunk(p, item)
        ELSE reported(ProcessInterval(p, item, item.reason))

\* The replay of the buffered startup inputs, by anchor and then by arrival.
Replay(p) ==
    LET before(x, y) == x[2].start < y[2].start
                        \/ (x[2].start = y[2].start /\ x[1] < y[1])
        numbered == {<<k, p.inputs[k]>> : k \in 1 .. Len(p.inputs)}
        ordered  == InOrder(numbered, before)
        step(acc, x) ==
            IF acc.threw THEN acc ELSE After(acc.events, ProcessInput(acc.p, x[2]))
        settled(r) == IF r.threw THEN Threw(r.p, r.events) ELSE r
    IN  settled(FoldLeft(step, Result([p EXCEPT !.open = TRUE, !.inputs = <<>>],
                                      <<>>, FALSE), ordered))

\* Startup is bounded per track: inputs, audio samples and span of the anchors.
StartupBounded(inputs, t) ==
    LET mine == SelectSeq(inputs, LAMBDA c : c.track = t)
        audio == {k \in 1 .. Len(mine) : IsChunk(mine[k])}
        anchors == {mine[k].start : k \in 1 .. Len(mine)}
    IN  /\ Len(mine) <= StartupInputs
        /\ Cardinality(audio) <= Second
        /\ \A a, b \in anchors : a - b <= Second

FailStartup(p) == [p EXCEPT !.failed = TRUE, !.inputs = <<>>]

\* RecordingCapturePipeline.gated
Gated(p, item) ==
    LET inputs == Append(p.inputs, item)
        seen   == {inputs[k].track : k \in 1 .. Len(inputs)}
    IN  IF p.failed THEN Result(p, <<>>, FALSE)
        ELSE IF p.open THEN ProcessInput(p, item)
        ELSE IF ~StartupBounded(inputs, item.track)
             THEN Result(FailStartup(p), <<Failure("required_tracks")>>, FALSE)
        ELSE IF seen = Tracks THEN Replay([p EXCEPT !.inputs = inputs])
        ELSE Result([p EXCEPT !.inputs = inputs], <<>>, FALSE)

\* RecordingCapturePipeline.finish
Finished(p) ==
    IF p.failed THEN Result(p, <<>>, FALSE)
    ELSE IF ~p.open
         THEN Result(FailStartup(p), <<Failure("required_tracks")>>, FALSE)
    ELSE LET rest == UNION {p.pending[t] : t \in Tracks}
             before(x, y) == x.start < y.start
                             \/ (x.start = y.start /\ x.track = "microphone"
                                 /\ y.track # "microphone")
         IN  Result([p EXCEPT !.pending = [t \in Tracks |-> {}]],
                    InOrder(rest, before), FALSE)

\* drainHandoff's body with emitFailure: an input that throws is offered again
\* as a failed interval, and when that throws too only the failure is yielded.
AsFailed(item) == [item EXCEPT !.reason = "missing_audio"]

OrFailure(r) == IF r.threw THEN Result(r.p, <<Failure("conversion")>>, FALSE) ELSE r

Handled(p, item) ==
    LET again(r) == IF r.threw /\ IsChunk(item) THEN Gated(r.p, AsFailed(item)) ELSE r
    IN  OrFailure(again(Gated(p, item)))

-----------------------------------------------------------------------------
(***************************************************************************)
(* From the pipeline to the disk: the bounded event stream, and the gaps   *)
(* that stand for what it dropped.                                         *)
(***************************************************************************)
\* PendingGapWrites.merge: only touching intervals become one.
Touch(g, h) == g.start <= h.start + h.len /\ h.start <= g.start + g.len

MergeGaps(g, h) ==
    LET from == IF g.start < h.start THEN g.start ELSE h.start
        gEnd == g.start + g.len
        hEnd == h.start + h.len
        to   == IF gEnd > hEnd THEN gEnd ELSE hEnd
    IN  Span(g.track, from, to - from, g.reason)

\* Mutant: the newer interval replaces the one already registered.
RegisterReplacing(w, g) ==
    LET same == {h \in w.pending : h.track = g.track /\ h.reason = g.reason}
    IN  IF w.failed THEN w
        ELSE [w EXCEPT !.pending = (@ \ same) \cup {g}, !.running = TRUE]

\* PendingGapWrites.register
Register(w, g) ==
    LET same == {h \in w.pending : h.track = g.track /\ h.reason = g.reason}
    IN  IF w.failed THEN w
        ELSE IF \E h \in same : ~Touch(h, g) THEN [w EXCEPT !.failed = TRUE]
        ELSE [w EXCEPT !.pending = (@ \ same)
                          \cup {FoldSet(LAMBDA h, acc : MergeGaps(h, acc), g, same)},
                       !.running = TRUE]

\* The receive closure: yield, and register what the stream dropped.
YieldOne(s, e) ==
    IF ~s.stream.open THEN s
    ELSE IF Len(s.stream.buf) < StreamCapacity
         THEN [s EXCEPT !.stream.buf = Append(@, e)]
    ELSE IF IsChunk(e)
         THEN [s EXCEPT !.gaps = Register(@, [e EXCEPT !.reason = "callback_overflow"])]
    ELSE IF IsGap(e) THEN [s EXCEPT !.gaps = Register(@, e)]
    ELSE s

Yield(events) ==
    LET i == source.receiver
        s == FoldLeft(YieldOne, [stream |-> stream[i], gaps |-> gaps[i]], events)
    IN  /\ stream' = [stream EXCEPT ![i] = s.stream]
        /\ gaps' = [gaps EXCEPT ![i] = s.gaps]

-----------------------------------------------------------------------------
(***************************************************************************)
(* RecordingCoordinator.start, one action per stretch between two awaits.  *)
(***************************************************************************)
Active == phase \in {"preflighting", "recording", "stopping"}

Called(i) ==
    /\ calls[i] = "idle" /\ ~Active
    /\ \A j \in Starts : j < i => calls[j] # "idle"

\* What follows pauseUploadsForCapture: the flags of the last recording go.
EnterPreflight(i) ==
    /\ calls' = [calls EXCEPT ![i] = "preflight"]
    /\ phase' = "preflighting"
    /\ held' = [held EXCEPT !.failed = FALSE, !.fatal = FALSE, !.env = FALSE]
    /\ UNCHANGED <<closer, capture, storage, faults>>

\* No upload worker runs: nothing suspends before the phase is set.
Start(i) == Called(i) /\ EnterPreflight(i)

\* The upload worker is cancelled and awaited first, the phase still inactive.
StartPausing(i) ==
    /\ Called(i)
    /\ calls' = [calls EXCEPT ![i] = "pausing"]
    /\ UNCHANGED <<phase, held, closer, capture, storage, faults>>

Paused(i) == calls[i] = "pausing" /\ EnterPreflight(i)

Blocked(i) ==
    /\ calls[i] = "preflight"
    /\ calls' = [calls EXCEPT ![i] = "done"]
    /\ phase' = "blocked"
    /\ UNCHANGED <<held, closer, capture, storage, faults>>

Ready(i) ==
    /\ calls[i] = "preflight"
    /\ calls' = [calls EXCEPT ![i] = "create"]
    /\ UNCHANGED <<phase, held, closer, capture, storage, faults>>

\* The catch block when the spool could not be created.
CreateFails(i) ==
    /\ calls[i] = "create" /\ Fault
    /\ calls' = [calls EXCEPT ![i] = "done"]
    /\ stream' = [j \in Starts |-> IF j = held.cont
                                   THEN [stream[j] EXCEPT !.open = FALSE]
                                   ELSE stream[j]]
    /\ held' = [held EXCEPT !.spool = None, !.cont = None, !.writer = None,
                            !.gaps = None]
    /\ phase' = "attention"
    /\ UNCHANGED <<closer, capture, writer, gaps, disk>>

Undo(i) ==
    /\ calls' = [calls EXCEPT ![i] = "undo"]
    /\ closer' = [closer EXCEPT ![i] = [NoCloser EXCEPT !.kind = "undo",
                                                        !.stage = "capture"]]

\* The spool exists, its link file does not.
LinkFails(i) ==
    /\ calls[i] = "create" /\ Fault
    /\ disk' = [disk EXCEPT ![i].there = TRUE]
    /\ held' = [held EXCEPT !.spool = i]
    /\ Undo(i)
    /\ UNCHANGED <<phase, capture, stream, writer, gaps>>

Create(i) ==
    /\ calls[i] = "create"
    /\ calls' = [calls EXCEPT ![i] = "source"]
    /\ disk' = [disk EXCEPT ![i].there = TRUE]
    /\ stream' = [stream EXCEPT ![i].open = TRUE]
    /\ writer' = [writer EXCEPT ![i] = "running"]
    /\ held' = [held EXCEPT !.spool = i, !.cont = i, !.writer = i, !.gaps = i]
    /\ UNCHANGED <<phase, closer, capture, gaps, faults>>

\* ScreenCaptureAudioSource.start; a second start finds the stream and returns.
SourceStart(i) ==
    /\ calls[i] = "source"
    /\ calls' = [calls EXCEPT ![i] = "begin"]
    /\ IF source.receiver # None THEN UNCHANGED capture
       ELSE /\ source' = [NoSource EXCEPT !.receiver = i, !.alive = TRUE]
            /\ handoff' = NewHandoff
            /\ batch' = <<>>
            /\ pipe' = NewPipe
    /\ UNCHANGED <<phase, held, closer, storage, faults>>

\* startCapture throws after it has reported the failure to the receiver.
SourceFails(i) ==
    /\ calls[i] = "source" /\ source.receiver = None /\ Fault
    /\ LET s == YieldOne([stream |-> stream[i], gaps |-> gaps[i]],
                         Failure("unavailable"))
       IN  stream' = [stream EXCEPT ![i] = s.stream]
    /\ Undo(i)
    /\ UNCHANGED <<phase, held, capture, writer, gaps, disk>>

\* The recording has begun; an environment loss seen on the way ends it.
Begin(i) ==
    /\ calls[i] = "begin"
    /\ calls' = [calls EXCEPT ![i] = "done"]
    /\ phase' = IF held.env THEN "stopping" ELSE "recording"
    /\ held' = [held EXCEPT !.rec = i, !.env = FALSE]
    /\ closer' = IF held.env
                 THEN [closer EXCEPT ![i] = [NoCloser EXCEPT !.kind = "env",
                                                             !.stage = "capture"]]
                 ELSE closer
    /\ UNCHANGED <<capture, storage, faults>>

-----------------------------------------------------------------------------
(***************************************************************************)
(* What ends a recording.                                                  *)
(***************************************************************************)
\* From .recording only: phase = .stopping, and a closer for its recording.
Close(kind, by) ==
    /\ phase' = "stopping"
    /\ closer' = [closer EXCEPT ![held.rec] =
                    [kind |-> kind, stage |-> "capture", by |-> by,
                     wait |-> held.writer, ok |-> TRUE]]

\* stop(), the learner's or the 120-minute limit's
Stop ==
    /\ phase = "recording"
    /\ \E kind \in {"stop", "limit"} : Close(kind, None)
    /\ UNCHANGED <<calls, held, capture, storage, faults>>

\* handle(event): permission lost, device or route changed, sleep
EnvironmentLost ==
    \/ /\ phase = "preflighting"
       /\ held' = [held EXCEPT !.env = TRUE]
       /\ UNCHANGED <<phase, calls, closer, capture, storage, faults>>
    \/ /\ phase = "recording"
       /\ Close("env", None)
       /\ UNCHANGED <<calls, held, capture, storage, faults>>

\* failActiveRecording, inside the writer task w, which consumes nothing meanwhile
FailActive(w) ==
    IF phase = "recording"
    THEN Close("fail", w) /\ writer' = [writer EXCEPT ![w] = "failing"]
    ELSE UNCHANGED <<phase, closer, writer>>

\* source.stop(): stopCapture, which throws on a stream that already stopped
StopCapture(i) ==
    /\ closer[i].stage = "capture"
    /\ IF source.receiver = None
       THEN /\ closer' = [closer EXCEPT ![i].stage = "drain"]
            /\ UNCHANGED faults
       ELSE \/ /\ source.alive
               /\ closer' = [closer EXCEPT ![i].stage = "closing"]
               /\ UNCHANGED faults
            \/ /\ IF source.alive THEN Fault ELSE UNCHANGED faults
               /\ closer' = [closer EXCEPT ![i].stage = "closing", ![i].ok = FALSE]
    /\ UNCHANGED <<phase, calls, held, capture, storage>>

\* output.finish(), on the callback queue: the acceptance boundary
CloseHandoff(i) ==
    /\ closer[i].stage = "closing" /\ handoff.late = {}
    /\ handoff' = [handoff EXCEPT !.closed = TRUE]
    /\ closer' = [closer EXCEPT ![i].stage = "finishing"]
    /\ UNCHANGED <<phase, calls, held, source, batch, pipe, storage, faults>>

HandoffEmpty == handoff.retained = <<>> /\ \A t \in Tracks : handoff.dropped[t] = {}

\* output.finish(), on the processing queue after the last drain
FinishPipeline(i) ==
    /\ closer[i].stage = "finishing" /\ batch = <<>> /\ HandoffEmpty
    /\ LET r == Finished(pipe)
       IN  pipe' = r.p /\ Yield(r.events)
    /\ source' = NoSource
    /\ handoff' = [handoff EXCEPT !.scheduled = FALSE]
    /\ closer' = [closer EXCEPT ![i].stage = "drain"]
    /\ UNCHANGED <<phase, calls, held, batch, writer, disk, faults>>

\* Mutant: the failing writer awaits itself and is never resumed.
FinishStreamInWriter(i) ==
    /\ closer[i].stage = "drain"
    /\ stream' = [j \in Starts |-> IF j = held.cont
                                   THEN [stream[j] EXCEPT !.open = FALSE]
                                   ELSE stream[j]]
    /\ held' = [held EXCEPT !.cont = None]
    /\ closer' = [closer EXCEPT ![i].stage = "writer",
                                ![i].wait = IF closer[i].kind = "fail" THEN @
                                            ELSE held.writer]
    /\ UNCHANGED <<phase, calls, capture, writer, gaps, disk, faults>>

\* eventContinuation.finish(); the failing writer consumes again from here
FinishStream(i) ==
    /\ closer[i].stage = "drain"
    /\ stream' = [j \in Starts |-> IF j = held.cont
                                   THEN [stream[j] EXCEPT !.open = FALSE]
                                   ELSE stream[j]]
    /\ held' = [held EXCEPT !.cont = None]
    /\ writer' = [w \in Starts |-> IF w = closer[i].by THEN "running" ELSE writer[w]]
    /\ closer' = [closer EXCEPT ![i].stage = "writer",
                                ![i].wait = IF closer[i].kind = "fail" THEN @
                                            ELSE held.writer]
    /\ UNCHANGED <<phase, calls, capture, gaps, disk, faults>>

WriterAwaited(i) ==
    /\ closer[i].stage = "writer"
    /\ \A w \in Starts : w = closer[i].wait => writer[w] = "done"
    /\ held' = [held EXCEPT !.writer = None]
    /\ closer' = [closer EXCEPT ![i].stage = "flush"]
    /\ UNCHANGED <<phase, calls, capture, storage, faults>>

\* pendingGapWrites.flush and the guards of stop and finishFailedRecording
MaySeal(i) ==
    /\ closer[i].kind \in {"stop", "limit", "fail"}
    /\ closer[i].ok
    /\ \A g \in Starts : g = held.gaps => ~gaps[g].failed
    /\ ~held.failed
    /\ ~held.fatal

\* Mutant: the registered gaps are not awaited.
GapsNotAwaited(i) ==
    /\ closer[i].stage = "flush"
    /\ held' = [held EXCEPT !.gaps = None]
    /\ closer' = [closer EXCEPT ![i].stage =
                    IF closer[i].kind = "undo" THEN "discard"
                    ELSE IF MaySeal(i) THEN "seal" ELSE "abandon"]
    /\ UNCHANGED <<phase, calls, capture, storage, faults>>

GapsAwaited(i) ==
    /\ closer[i].stage = "flush"
    /\ \A g \in Starts : g = held.gaps => ~gaps[g].running
    /\ held' = [held EXCEPT !.gaps = None]
    /\ closer' = [closer EXCEPT ![i].stage =
                    IF closer[i].kind = "undo" THEN "discard"
                    ELSE IF MaySeal(i) THEN "seal" ELSE "abandon"]
    /\ UNCHANGED <<phase, calls, capture, storage, faults>>

SealedSpool(d) == [d EXCEPT !.sealed = TRUE, !.ends = pipe.ends, !.lost = pipe.lost]

\* spool.seal: the state file is written last, and may be written by a call
\* that still throws; the coordinator then abandons a spool that is sealed.
Seal(i) ==
    /\ closer[i].stage = "seal"
    /\ LET sealed == [j \in Starts |-> IF j = held.spool THEN SealedSpool(disk[j])
                                       ELSE disk[j]]
       IN  \/ /\ disk' = sealed
              /\ held' = [held EXCEPT !.spool = None]
              /\ phase' = IF closer[i].kind = "stop" THEN "sealed" ELSE "attention"
              /\ closer' = [closer EXCEPT ![i].stage = "closed"]
              /\ UNCHANGED faults
           \/ /\ Fault
              /\ disk' \in {disk, sealed}
              /\ closer' = [closer EXCEPT ![i].stage = "abandon"]
              /\ UNCHANGED <<phase, held>>
    /\ UNCHANGED <<calls, capture, stream, writer, gaps>>

\* abandonActiveSpool
Abandon(i) ==
    /\ closer[i].stage = "abandon"
    /\ held' = [held EXCEPT !.spool = None, !.cont = None, !.writer = None,
                            !.gaps = None]
    /\ stream' = [j \in Starts |-> IF j = held.cont
                                   THEN [stream[j] EXCEPT !.open = FALSE]
                                   ELSE stream[j]]
    /\ phase' = "attention"
    /\ closer' = [closer EXCEPT ![i].stage = "closed"]
    /\ UNCHANGED <<calls, capture, writer, gaps, disk, faults>>

\* The rest of start's catch block: spoolFactory.discard, which may throw.
Discard(i) ==
    /\ closer[i].stage = "discard"
    /\ \/ disk' = [disk EXCEPT ![i] = NoSpool] /\ UNCHANGED faults
       \/ Fault /\ UNCHANGED disk
    /\ held' = [held EXCEPT !.spool = None, !.cont = None, !.writer = None,
                            !.gaps = None]
    /\ phase' = "attention"
    /\ calls' = [calls EXCEPT ![i] = "done"]
    /\ closer' = [closer EXCEPT ![i].stage = "closed"]
    /\ UNCHANGED <<capture, stream, writer, gaps>>

-----------------------------------------------------------------------------
(***************************************************************************)
(* The callback queue and the processing queue.                            *)
(***************************************************************************)
Callback(t) ==
    /\ source.alive /\ handoff.late = {} /\ source.at[t] < MaxBuffers
    /\ source' = [source EXCEPT !.at[t] = @ + 1]

\* The source loses a buffer before any callback.
Skip(t) ==
    /\ Callback(t) /\ Fault
    /\ UNCHANGED <<coordinator, handoff, batch, pipe, storage>>

\* handoff.offer: accepted, full (the range is recorded in a later step), closed
Deliver(t) ==
    /\ Callback(t)
    /\ LET c == Chunk(t, source.at[t], 1)
       IN  handoff' =
             IF handoff.closed THEN handoff
             ELSE IF Len(handoff.retained) < HandoffCapacity
                  THEN [handoff EXCEPT !.retained = Append(@, c), !.scheduled = TRUE]
             ELSE [handoff EXCEPT !.late = {c}]
    /\ UNCHANGED <<coordinator, batch, pipe, storage, faults>>

\* handoff.record(dropped:), scheduleDrain, and the overflow failure
RecordDropped ==
    /\ \E c \in handoff.late :
         LET t == c.track
             new == [c EXCEPT !.reason = "callback_overflow"]
         IN  handoff' = [handoff EXCEPT
                !.late = {},
                !.scheduled = TRUE,
                !.dropped[t] =
                    {FoldSet(LAMBDA h, acc : MergeGaps(h, acc), new, @)}]
    /\ Yield(<<Failure("overflow")>>)
    /\ UNCHANGED <<coordinator, source, batch, pipe, writer, disk, faults>>

\* SCStreamDelegate.didStopWithError: the source is dead, the failure is yielded.
StreamStops ==
    /\ source.alive /\ Fault
    /\ source' = [source EXCEPT !.alive = FALSE]
    /\ Yield(<<Failure("stopped")>>)
    /\ UNCHANGED <<coordinator, handoff, batch, pipe, writer, disk>>

\* takeDrainBatch: the retained samples, then the dropped intervals by start
TakeBatch ==
    /\ handoff.scheduled /\ batch = <<>>
    /\ LET dropped == UNION {handoff.dropped[t] : t \in Tracks}
       IN  batch' \in {handoff.retained \o d : d \in
                {e \in SetToSeqs(dropped) :
                    \A k \in 1 .. Len(e) - 1 : e[k].start <= e[k + 1].start}}
    /\ handoff' = [handoff EXCEPT !.retained = <<>>,
                                  !.dropped = [t \in Tracks |-> {}],
                                  !.scheduled = ~HandoffEmpty]
    /\ UNCHANGED <<coordinator, source, pipe, storage, faults>>

\* One item of the batch through drainHandoff, its events yielded; a conversion
\* that fails makes the item a failed interval.
ProcessItem ==
    /\ batch # <<>>
    /\ LET item == Head(batch)
       IN  \/ \E r \in {Handled(pipe, item)} :
                pipe' = r.p /\ Yield(r.events) /\ UNCHANGED faults
           \/ /\ IsChunk(item) /\ Fault
              /\ \E r \in {OrFailure(Gated(pipe, AsFailed(item)))} :
                   pipe' = r.p /\ Yield(r.events)
    /\ batch' = Tail(batch)
    /\ UNCHANGED <<coordinator, source, handoff, writer, disk>>

-----------------------------------------------------------------------------
(***************************************************************************)
(* The writer task and the gap worker.                                     *)
(***************************************************************************)
Store(d, e) ==
    IF d.sealed THEN d
    ELSE IF IsChunk(e) THEN [d EXCEPT !.recs[e.track] = Append(@, e)]
    ELSE [d EXCEPT !.journal = Append(@, e)]

NextEvent(w) == writer[w] = "running" /\ stream[w].buf # <<>>

\* consume: the chunk or the gap goes to the coordinator's current spool
ConsumeAudio(w) ==
    /\ NextEvent(w)
    /\ LET e == Head(stream[w].buf)
       IN  /\ e.track # "none"
           /\ \/ /\ disk' = [j \in Starts |-> IF j = held.spool THEN Store(disk[j], e)
                                              ELSE disk[j]]
                 /\ UNCHANGED <<phase, held, closer, writer, faults>>
              \/ /\ held.spool # None /\ Fault
                 /\ \E torn \in BOOLEAN :
                      disk' = [disk EXCEPT ![held.spool].torn = @ \/ torn]
                 /\ held' = [held EXCEPT !.failed = TRUE]
                 /\ FailActive(w)
    /\ stream' = [stream EXCEPT ![w].buf = Tail(@)]
    /\ UNCHANGED <<calls, capture, gaps>>

\* consume(.failure): an overflow only warns; missing tracks are fatal
ConsumeFailure(w) ==
    /\ NextEvent(w)
    /\ LET e == Head(stream[w].buf)
       IN  /\ e.track = "none"
           /\ held' = [held EXCEPT !.fatal = @ \/ e.reason = "required_tracks"]
           /\ IF e.reason = "overflow" THEN UNCHANGED <<phase, closer, writer>>
              ELSE FailActive(w)
    /\ stream' = [stream EXCEPT ![w].buf = Tail(@)]
    /\ UNCHANGED <<calls, capture, gaps, disk, faults>>

WriterEnds(w) ==
    /\ writer[w] = "running" /\ stream[w].buf = <<>> /\ ~stream[w].open
    /\ writer' = [writer EXCEPT ![w] = "done"]
    /\ UNCHANGED <<coordinator, capture, stream, gaps, disk, faults>>

\* writePending: a batch under the lock, or the end of the worker
TakeGaps(i) ==
    /\ gaps[i].running /\ gaps[i].batch = <<>>
    /\ gaps' = [gaps EXCEPT
         ![i].batch = InOrder(gaps[i].pending, LAMBDA g, h :
            \/ g.track = "microphone" /\ h.track # "microphone"
            \/ g.track = h.track /\ g.start < h.start),
         ![i].pending = {},
         ![i].running = gaps[i].pending # {}]
    /\ UNCHANGED <<coordinator, capture, stream, writer, disk, faults>>

WriteGap(i) ==
    /\ gaps[i].batch # <<>>
    /\ \/ /\ disk' = [disk EXCEPT ![i] = Store(@, Head(gaps[i].batch))]
          /\ gaps' = [gaps EXCEPT ![i].batch = Tail(@)]
          /\ UNCHANGED faults
       \/ /\ Fault
          /\ \E torn \in BOOLEAN : disk' = [disk EXCEPT ![i].torn = @ \/ torn]
          /\ gaps' = [gaps EXCEPT ![i].batch = <<>>, ![i].failed = TRUE,
                                  ![i].running = FALSE]
    /\ UNCHANGED <<coordinator, capture, stream, writer>>

\* The process dies: only the disk survives, with at most a torn tail.
Crash ==
    /\ Fault
    /\ \E i \in Starts : calls[i] \notin {"idle", "done"} \/ Active
    /\ phase' = "idle"
    /\ calls' = [i \in Starts |-> IF calls[i] = "idle" THEN "idle" ELSE "done"]
    /\ held' = NoHeld
    /\ closer' = [i \in Starts |-> IF closer[i].stage \in {"none", "closed"}
                                   THEN closer[i]
                                   ELSE [NoCloser EXCEPT !.stage = "closed"]]
    /\ source' = NoSource /\ handoff' = NewHandoff
    /\ batch' = <<>> /\ pipe' = NewPipe
    /\ stream' = [i \in Starts |-> [buf |-> <<>>, open |-> FALSE]]
    /\ writer' = [i \in Starts |-> "none"]
    /\ gaps' = [i \in Starts |-> NoGaps]
    /\ \E torn \in BOOLEAN :
         disk' = [i \in Starts |-> IF i = held.spool /\ ~disk[i].sealed
                                   THEN [disk[i] EXCEPT !.torn = @ \/ torn]
                                   ELSE disk[i]]

-----------------------------------------------------------------------------
StartStep(i) ==
    \/ Start(i) \/ StartPausing(i) \/ Paused(i)
    \/ Blocked(i) \/ Ready(i)
    \/ CreateFails(i) \/ LinkFails(i) \/ Create(i)
    \/ SourceStart(i) \/ SourceFails(i) \/ Begin(i)

CloseStep(i) ==
    \/ StopCapture(i) \/ CloseHandoff(i) \/ FinishPipeline(i) \/ FinishStream(i)
    \/ WriterAwaited(i) \/ GapsAwaited(i) \/ Seal(i) \/ Abandon(i) \/ Discard(i)

WriterStep(w) == ConsumeAudio(w) \/ ConsumeFailure(w) \/ WriterEnds(w)

GapStep(i) == TakeGaps(i) \/ WriteGap(i)

\* What a Swift task or a dispatch queue does once it is ready to run.
MachineStep ==
    \/ \E i \in Starts : CloseStep(i) \/ WriterStep(i) \/ GapStep(i)
    \/ RecordDropped \/ TakeBatch \/ ProcessItem

Step ==
    \/ MachineStep
    \/ \E i \in Starts : StartStep(i)
    \/ Stop \/ EnvironmentLost
    \/ \E t \in Tracks : Skip(t) \/ Deliver(t)
    \/ StreamStops \/ Crash

\* start() tests the phase before it awaits the uploads and sets it afterwards: a
\* call that comes in during another one's pause passes the test as well.
Reenters ==
    \E i, j \in Starts : calls[i] = "pausing" /\ calls[j] = "idle" /\ calls'[j] # "idle"

Next == Step /\ reentered' = (reentered \/ Reenters)

\* ENABLED MachineStep, written out.
Pending ==
    \/ \E i \in Starts :
         \/ closer[i].stage \in {"capture", "drain", "seal", "abandon", "discard"}
         \/ closer[i].stage = "closing" /\ handoff.late = {}
         \/ closer[i].stage = "finishing" /\ batch = <<>> /\ HandoffEmpty
         \/ closer[i].stage = "writer"
            /\ \A w \in Starts : w = closer[i].wait => writer[w] = "done"
         \/ closer[i].stage = "flush"
            /\ \A g \in Starts : g = held.gaps => ~gaps[g].running
         \/ writer[i] = "running" /\ (stream[i].buf # <<>> \/ ~stream[i].open)
         \/ gaps[i].running
    \/ handoff.late # {} \/ handoff.scheduled \/ batch # <<>>

\* Weak fairness of MachineStep, without an ENABLED for TLC to evaluate.
Fairness == []<>~Pending \/ []<><<MachineStep>>_vars

Spec == Init /\ [][Next]_allVars /\ Fairness

-----------------------------------------------------------------------------
Covering(d, t, n) ==
    {k \in 1 .. Len(d.recs[t]) : d.recs[t][k].start <= n
                                 /\ n < d.recs[t][k].start + d.recs[t][k].len}

Missing(d, t, n) ==
    {k \in 1 .. Len(d.journal) : /\ d.journal[k].track = t
                                 /\ d.journal[k].start <= n
                                 /\ n < d.journal[k].start + d.journal[k].len}

Tiled(d) ==
    /\ ~d.torn
    /\ \A t \in Tracks, n \in 0 .. MaxBuffers :
         Cardinality(Covering(d, t, n)) + Cardinality(Missing(d, t, n))
            = IF n < d.ends[t] THEN 1 ELSE 0

\* Every position of the timeline is in a sealed spool exactly once, as audio or
\* as a journalled gap: whichever queue overflowed, however the recording was
\* stopped.  Two exceptions: the pipeline threw away events it had collected, or
\* start() was re-entered, and two recordings shared the coordinator's references.
TilesUnlessThrown ==
    ~reentered => \A i \in Starts : disk[i].sealed /\ ~disk[i].lost => Tiled(disk[i])

\* The same without the exceptions.
SealedTiles == \A i \in Starts : disk[i].sealed => Tiled(disk[i])

StartsDoNotOverlap ==
    \A i, j \in Starts :
        calls[i] \notin {"idle", "done"} /\ calls[j] \notin {"idle", "done"} => i = j

\* The guard on the phase keeps calls of start() apart in every way but one: as
\* long as start() has not been re-entered during its pause, two calls never
\* overlap, whatever stops, failures and crashes came between them.
OverlapNeedsReentry == ~reentered => StartsDoNotOverlap

\* Once the phase says that recording i is over, no task that is still running
\* writes to its spool: the uploader may read what it finds.  A re-entered start()
\* is the exception: its gap task may outlive the other recording's stop.
ClosedIsQuiet ==
    [][~reentered' => \A i \in Starts : closer[i].stage = "closed" => disk'[i] = disk[i]]_vars

\* A stop, whatever began it, comes to an end.
StopEnds == (phase = "stopping") ~> (phase # "stopping")

=============================================================================
