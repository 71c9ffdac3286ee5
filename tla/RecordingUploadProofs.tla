------------------------ MODULE RecordingUploadProofs ------------------------
(***************************************************************************)
(* What RecordingUpload promises for any number of parts, transcripts and  *)
(* faults: nothing the server has committed is taken back, the client's    *)
(* journal and gates are true of the server, and the encrypted original is *)
(* released only when the server holds everything.                         *)
(***************************************************************************)
EXTENDS RecordingUpload, TLAPS

RequestTypes == handlers \subseteq Handler /\ answer \in [Callers -> Answers]

(* A request sent by a caller is a well-typed handler. *)
LEMMA SendType ==
  ASSUME RequestTypes, NEW c \in Callers, NEW call \in Calls,
         NEW v \in Payloads \cup {NoPayload}, Send(c, call, v)
  PROVE  RequestTypes'
BY DEF RequestTypes, Send, FirstStage, Handler, Stages, Answers, Callers

(* So is a handler that moves on to its next stage. *)
LEMMA ProceedType ==
  ASSUME RequestTypes, NEW h \in handlers, NEW s \in Stages, Proceed(h, s)
  PROVE  RequestTypes'
BY DEF RequestTypes, Proceed, Handler

(* A reply reaches the caller that waits for it, if it still does. *)
LEMMA ReplyType ==
  ASSUME RequestTypes, NEW h \in handlers, NEW a \in Answers, Reply(h, a)
  PROVE  RequestTypes'
BY DEF RequestTypes, Reply, Handler

(* Abandoned handlers keep their type. *)
LEMMA AbandonType ==
  ASSUME RequestTypes, NEW C \in SUBSET Callers, Abandon(C)
  PROVE  RequestTypes'
BY DEF RequestTypes, Abandon, Handler, Answers

(* Taking an answer leaves none. *)
LEMMA TakenType ==
  ASSUME RequestTypes, NEW c \in Callers, Taken(c)
  PROVE  RequestTypes'
BY DEF RequestTypes, Taken, Answers

(* What a server step leaves of the request: a reply or a next stage. *)
LEMMA HandlerMoves ==
  ASSUME NEW h \in handlers, ServerStep(h) \/ HandlerFails(h), TypeOK
  PROVE  (\E s \in Stages : Proceed(h, s)) \/ (\E a \in Answers : Reply(h, a))
<1> USE DEF Stages, Answers, TypeOK
<1>1. CASE CreateRecording(h)
  BY <1>1 DEF CreateRecording
<1>2. CASE ReservePart(h)
  BY <1>2 DEF ReservePart, Handler
<1>3. CASE EnsurePartObject(h)
  BY <1>3 DEF EnsurePartObject, Handler
<1>4. CASE FinalizePart(h)
  BY <1>4 DEF FinalizePart, Handler
<1>5. CASE PrepareSeal(h)
  BY <1>5 DEF PrepareSeal, Handler
<1>6. CASE VerifyPcmHashes(h)
  BY <1>6 DEF VerifyPcmHashes, Handler
<1>7. CASE PutManifests(h)
  BY <1>7 DEF PutManifests, Handler
<1>8. CASE FinalizeSeal(h)
  BY <1>8 DEF FinalizeSeal, Handler
<1>9. CASE ReadStatus(h)
  BY <1>9 DEF ReadStatus, Handler
<1>10. CASE ResolveTranscript(h)
  BY <1>10 DEF ResolveTranscript, Handler
<1>11. CASE StoreTranscript(h)
  BY <1>11 DEF StoreTranscript, Handler
<1>12. CASE AcceptLineage(h)
  BY <1>12 DEF AcceptLineage, Handler
<1>13. CASE EnqueueAnalysis(h)
  BY <1>13 DEF EnqueueAnalysis, Handler
<1>14. CASE HandlerFails(h)
  BY <1>14 DEF HandlerFails
<1> QED
  BY <1>1, <1>2, <1>3, <1>4, <1>5, <1>6, <1>7, <1>8, <1>9, <1>10, <1>11, <1>12, <1>13, <1>14 DEF ServerStep

(* A server step keeps the types. *)
LEMMA ServerTypes ==
  ASSUME TypeOK, NEW h \in handlers, ServerStep(h) \/ HandlerFails(h)
  PROVE  TypeOK'
<1> USE RecordingAssumption
<1>1. RequestTypes'
  BY HandlerMoves, ProceedType, ReplyType DEF TypeOK, RequestTypes
<1>2. h \in Handler
  BY DEF TypeOK
<1> USE <1>1, <1>2 DEF TypeOK, RequestTypes, clientVars, serverVars
<1>3. CASE CreateRecording(h)
  BY <1>3 DEF CreateRecording, Handler
<1>4. CASE ReservePart(h)
  BY <1>4 DEF ReservePart, Handler
<1>5. CASE EnsurePartObject(h)
  BY <1>5 DEF EnsurePartObject, Handler
<1>6. CASE FinalizePart(h)
  BY <1>6 DEF FinalizePart, Handler
<1>7. CASE PrepareSeal(h)
  BY <1>7 DEF PrepareSeal, Handler
<1>8. CASE VerifyPcmHashes(h)
  BY <1>8 DEF VerifyPcmHashes, Handler
<1>9. CASE PutManifests(h)
  BY <1>9 DEF PutManifests, Handler
<1>10. CASE FinalizeSeal(h)
  BY <1>10 DEF FinalizeSeal, Handler
<1>11. CASE ReadStatus(h)
  BY <1>11 DEF ReadStatus, Handler
<1>12. CASE ResolveTranscript(h)
  BY <1>12 DEF ResolveTranscript, Handler
<1>13. CASE StoreTranscript(h)
  BY <1>13 DEF StoreTranscript, Handler
<1>14. CASE AcceptLineage(h)
  BY <1>14 DEF AcceptLineage, Handler
<1>15. CASE EnqueueAnalysis(h)
  BY <1>15 DEF EnqueueAnalysis, Handler
<1>16. CASE HandlerFails(h)
  BY <1>16 DEF HandlerFails, Fault
<1> QED
  BY <1>3, <1>4, <1>5, <1>6, <1>7, <1>8, <1>9, <1>10, <1>11, <1>12, <1>13, <1>14, <1>15, <1>16 DEF ServerStep

(* A step of the app keeps the types. *)
LEMMA ClientTypes ==
  ASSUME TypeOK,
         StartPass \/ PipelineStep \/ CoordinatorStep \/ ClearTranscript \/ DiscardStep
           \/ PassInterrupted \/ TranscriptionFails \/ CoordinatorTimesOut \/ Crash
  PROVE  TypeOK'
<1> USE RecordingAssumption
<1> USE DEF TypeOK, RequestTypes, clientVars, serverVars, diskVars, passVars, requestVars,
            Gates, Callers, Calls
<1>1. CASE CreateAccepted
  <2>1. RequestTypes'
    BY <1>1, TakenType DEF CreateAccepted
  <2> QED
    BY <1>1, <2>1 DEF CreateAccepted
<1>2. CASE SendSeal
  <2>1. RequestTypes'
    BY <1>2, SendType DEF SendSeal
  <2> QED
    BY <1>2, <2>1 DEF SendSeal
<1>3. CASE SealAccepted
  <2>1. RequestTypes'
    BY <1>3, TakenType DEF SealAccepted
  <2> QED
    BY <1>3, <2>1 DEF SealAccepted, GatesOf
<1>4. ASSUME NEW p \in Parts, SendPart(p) PROVE TypeOK'
  <2>1. RequestTypes'
    BY <1>4, SendType DEF SendPart
  <2> QED
    BY <1>4, <2>1 DEF SendPart
<1>5. ASSUME NEW p \in Parts, PartAccepted(p) PROVE TypeOK'
  <2>1. RequestTypes'
    BY <1>5, TakenType DEF PartAccepted
  <2> QED
    BY <1>5, <2>1 DEF PartAccepted
<1>6. CASE StatusRead
  <2>1. RequestTypes'
    BY <1>6, TakenType DEF StatusRead
  <2> QED
    BY <1>6, <2>1 DEF StatusRead, GatesOf, Payload
<1>7. CASE SubmitTranscript
  <2>1. RequestTypes'
    BY <1>7, SendType DEF SubmitTranscript
  <2> QED
    BY <1>7, <2>1 DEF SubmitTranscript
<1>8. CASE TranscriptAnswered
  <2>1. RequestTypes'
    BY <1>8, TakenType DEF TranscriptAnswered
  <2> QED
    BY <1>8, <2>1 DEF TranscriptAnswered, GatesOf
<1>9. CASE TranscriptRejected
  <2>1. RequestTypes'
    BY <1>9, TakenType DEF TranscriptRejected
  <2> QED
    BY <1>9, <2>1 DEF TranscriptRejected
<1>10. CASE MarkGates
  BY <1>10 DEF MarkGates
<1>11. CASE Release
  BY <1>11 DEF Release
<1>12. CASE RemoveDirectory
  BY <1>12 DEF RemoveDirectory
<1>13. CASE ResumeTranscription
  BY <1>13 DEF ResumeTranscription, Payload
<1>14. CASE PassFails
  <2>1. RequestTypes'
    BY <1>14, TakenType DEF PassFails
  <2> QED
    BY <1>14, <2>1 DEF PassFails
<1>15. CASE StartPass
  <2>1. RequestTypes'
    BY <1>15, SendType DEF StartPass
  <2> QED
    BY <1>15, <2>1 DEF StartPass
<1>16. ASSUME NEW v \in Payloads, TranscriptionDone(v) PROVE TypeOK'
  <2>1. RequestTypes'
    BY <1>16, SendType DEF TranscriptionDone
  <2> QED
    BY <1>16, <2>1 DEF TranscriptionDone
<1>17. CASE CoordinatorAnswered
  <2>1. RequestTypes'
    BY <1>17, TakenType DEF CoordinatorAnswered
  <2> QED
    BY <1>17, <2>1 DEF CoordinatorAnswered
<1>18. CASE ClearTranscript
  BY <1>18 DEF ClearTranscript
<1>19. CASE DiscardKey
  BY <1>19 DEF DiscardKey
<1>20. CASE DiscardDirectory
  BY <1>20 DEF DiscardDirectory
<1>21. CASE DiscardFinish
  <2>1. RequestTypes'
    BY <1>21, AbandonType DEF DiscardFinish
  <2> QED
    BY <1>21, <2>1 DEF DiscardFinish
<1>22. CASE PassInterrupted
  <2>1. RequestTypes'
    BY <1>22, AbandonType DEF PassInterrupted
  <2> QED
    BY <1>22, <2>1 DEF PassInterrupted, Fault
<1>23. CASE TranscriptionFails
  BY <1>23 DEF TranscriptionFails, Fault
<1>24. CASE CoordinatorTimesOut
  <2>1. RequestTypes'
    BY <1>24, AbandonType DEF CoordinatorTimesOut
  <2> QED
    BY <1>24, <2>1 DEF CoordinatorTimesOut, Fault
<1>25. CASE Crash
  <2>1. RequestTypes'
    BY <1>25, AbandonType DEF Crash
  <2> QED
    BY <1>25, <2>1 DEF Crash, Fault
<1> QED
  BY <1>1, <1>2, <1>3, <1>4, <1>5, <1>6, <1>7, <1>8, <1>9, <1>10, <1>11, <1>12, <1>13,
     <1>14, <1>15, <1>16, <1>17, <1>18, <1>19, <1>20, <1>21, <1>22, <1>23, <1>24, <1>25
  DEF PipelineStep, CoordinatorStep, DiscardStep

(* Every step keeps the types. *)
LEMMA TypeStep == TypeOK /\ [Next]_recordingVars => TypeOK'
<1> SUFFICES ASSUME TypeOK, [Next]_recordingVars PROVE TypeOK'
  OBVIOUS
<1>1. CASE UNCHANGED recordingVars
  BY <1>1 DEF TypeOK, recordingVars
<1>2. CASE \E h \in handlers : ServerStep(h) \/ HandlerFails(h)
  BY <1>2, ServerTypes
<1> QED
  BY <1>1, <1>2, ClientTypes DEF Next, Faults

-----------------------------------------------------------------------------
(* The inductive invariant.                                                 *)

\* The server's rows agree with its objects and with each other.
StoreInv ==
  /\ \A p \in Parts : part[p] = "stored" => p \in objects
  /\ SealedIsComplete
  /\ transcript # NoPayload => transcript \in Acceptable /\ state = "stored"
  /\ lineage => transcript # NoPayload

\* What a handler has behind it, at the stage where it stands, is done and
\* cannot be undone - also when nobody waits for it any more.
HandlerOK(h) ==
  /\ h.call \in Parts /\ h.stage = "finalize" => h.call \in objects
  /\ h.call = "seal" /\ h.stage \in {"verify", "manifest", "commit"} =>
       state \in {"sealing", "stored"}
  /\ h.call = "seal" /\ h.stage = "commit" => "manifest" \in objects
  /\ h.call = "transcript" /\ h.stage \in {"store", "accept", "enqueue"} =>
       h.payload \in Acceptable /\ state = "stored"
  /\ h.call = "transcript" /\ h.stage \in {"accept", "enqueue"} => transcript # NoPayload
  /\ h.call = "transcript" /\ h.stage = "enqueue" => lineage

\* What the client has been told is true.
AnswerOK(a) ==
  /\ a \in Parts => part[a] = "stored"
  /\ a \in {"audio", "both"} => state = "stored"
  /\ a = "both" => lineage

\* What a pass is about to mark is true; only a spool that is shredded is
\* removed.
PassInv ==
  /\ found.audio => state = "stored"
  /\ found.lineage => lineage
  /\ pc = "remove" => spool # "present"

UploadInv ==
  /\ TypeOK
  /\ StoreInv
  /\ \A h \in handlers : HandlerOK(h)
  /\ \A c \in Callers : AnswerOK(answer[c])
  /\ PassInv
  /\ JournalIsTrue
  /\ NeverLost

-----------------------------------------------------------------------------
\* What no step takes back.
Kept ==
  /\ \A p \in Parts : part[p] = "stored" => part'[p] = "stored"
  /\ objects \subseteq objects'
  /\ state = "stored" => state' = "stored"
  /\ state \in {"sealing", "stored"} => state' \in {"sealing", "stored"}
  /\ transcript # NoPayload => transcript' = transcript
  /\ lineage => lineage'

\* What a server step is answerable for.
Sound(h) ==
  \/ \E s \in Stages : Proceed(h, s) /\ HandlerOK([h EXCEPT !.stage = s])'
  \/ \E a \in Answers : Reply(h, a) /\ AnswerOK(a)'

(* A server step takes nothing back, keeps the rows consistent, and what it
   answers or leaves behind is true: one case per transaction. *)
LEMMA ServerSound ==
  ASSUME TypeOK, StoreInv, NEW h \in handlers, HandlerOK(h),
         ServerStep(h) \/ HandlerFails(h)
  PROVE  Kept /\ StoreInv' /\ Sound(h)
<1>0. h \in Handler /\ h.call \in Calls
  BY DEF TypeOK, Handler
<1> USE <1>0, RecordingAssumption
<1> USE DEF TypeOK, StoreInv, SealedIsComplete, HandlerOK, AnswerOK, Kept, Sound, Stages,
            Answers, serverVars
<1>1. CASE CreateRecording(h)
  <2>1. Kept
    BY <1>1 DEF CreateRecording
  <2>2. StoreInv'
    BY <1>1 DEF CreateRecording
  <2>3. Sound(h)
    BY <1>1 DEF CreateRecording, Handler
  <2> QED
    BY <2>1, <2>2, <2>3
<1>2. CASE ReservePart(h)
  <2>1. Kept
    BY <1>2 DEF ReservePart
  <2>2. StoreInv'
    BY <1>2 DEF ReservePart
  <2>3. Sound(h)
    BY <1>2 DEF ReservePart, Handler
  <2> QED
    BY <2>1, <2>2, <2>3
<1>3. CASE EnsurePartObject(h)
  <2>1. Kept
    BY <1>3 DEF EnsurePartObject
  <2>2. StoreInv'
    BY <1>3 DEF EnsurePartObject
  <2>3. Sound(h)
    BY <1>3 DEF EnsurePartObject, Handler
  <2> QED
    BY <2>1, <2>2, <2>3
<1>4. CASE FinalizePart(h)
  <2>1. Kept
    BY <1>4 DEF FinalizePart
  <2>2. StoreInv'
    BY <1>4 DEF FinalizePart
  <2>3. Sound(h)
    BY <1>4 DEF FinalizePart, Handler
  <2> QED
    BY <2>1, <2>2, <2>3
<1>5. CASE PrepareSeal(h)
  <2>1. Kept
    BY <1>5 DEF PrepareSeal
  <2>2. StoreInv'
    BY <1>5 DEF PrepareSeal
  <2>3. Sound(h)
    BY <1>5 DEF PrepareSeal, Handler
  <2> QED
    BY <2>1, <2>2, <2>3
<1>6. CASE VerifyPcmHashes(h)
  <2>1. Kept
    BY <1>6 DEF VerifyPcmHashes
  <2>2. StoreInv'
    BY <1>6 DEF VerifyPcmHashes
  <2>3. Sound(h)
    BY <1>6 DEF VerifyPcmHashes, Handler
  <2> QED
    BY <2>1, <2>2, <2>3
<1>7. CASE PutManifests(h)
  <2>1. Kept
    BY <1>7 DEF PutManifests
  <2>2. StoreInv'
    BY <1>7 DEF PutManifests
  <2>3. Sound(h)
    BY <1>7 DEF PutManifests, Handler
  <2> QED
    BY <2>1, <2>2, <2>3
<1>8. CASE FinalizeSeal(h)
  <2>1. Kept
    BY <1>8 DEF FinalizeSeal
  <2>2. StoreInv'
    BY <1>8 DEF FinalizeSeal
  <2>3. Sound(h)
    BY <1>8 DEF FinalizeSeal, Handler
  <2> QED
    BY <2>1, <2>2, <2>3
<1>9. CASE ReadStatus(h)
  <2>1. Kept
    BY <1>9 DEF ReadStatus
  <2>2. StoreInv'
    BY <1>9 DEF ReadStatus
  <2>3. Sound(h)
    BY <1>9 DEF ReadStatus, Handler
  <2> QED
    BY <2>1, <2>2, <2>3
<1>10. CASE ResolveTranscript(h)
  <2>1. Kept
    BY <1>10 DEF ResolveTranscript
  <2>2. StoreInv'
    BY <1>10 DEF ResolveTranscript
  <2>3. Sound(h)
    BY <1>10 DEF ResolveTranscript, Handler
  <2> QED
    BY <2>1, <2>2, <2>3
<1>11. CASE StoreTranscript(h)
  <2>1. Kept
    BY <1>11 DEF StoreTranscript
  <2>2. StoreInv'
    BY <1>11 DEF StoreTranscript
  <2>3. Sound(h)
    BY <1>11 DEF StoreTranscript, Handler
  <2> QED
    BY <2>1, <2>2, <2>3
<1>12. CASE AcceptLineage(h)
  <2>1. Kept
    BY <1>12 DEF AcceptLineage
  <2>2. StoreInv'
    BY <1>12 DEF AcceptLineage
  <2>3. Sound(h)
    BY <1>12 DEF AcceptLineage, Handler
  <2> QED
    BY <2>1, <2>2, <2>3
<1>13. CASE EnqueueAnalysis(h)
  <2>1. Kept
    BY <1>13 DEF EnqueueAnalysis
  <2>2. StoreInv'
    BY <1>13 DEF EnqueueAnalysis
  <2>3. Sound(h)
    BY <1>13 DEF EnqueueAnalysis, Handler
  <2> QED
    BY <2>1, <2>2, <2>3
<1>14. CASE HandlerFails(h)
  <2>1. Kept
    BY <1>14 DEF HandlerFails
  <2>2. StoreInv'
    BY <1>14 DEF HandlerFails
  <2>3. Sound(h)
    BY <1>14 DEF HandlerFails, Handler
  <2> QED
    BY <2>1, <2>2, <2>3
<1> QED
  BY <1>1, <1>2, <1>3, <1>4, <1>5, <1>6, <1>7, <1>8, <1>9, <1>10, <1>11, <1>12, <1>13,
     <1>14 DEF ServerStep

(* Facts that no step takes back carry a handler's past over the step. *)
LEMMA HandlerCarries ==
  ASSUME Kept, NEW g, HandlerOK(g)
  PROVE  HandlerOK(g)'
BY DEF Kept, HandlerOK

(* And the truth of an answer. *)
LEMMA AnswerCarries ==
  ASSUME Kept, NEW a, AnswerOK(a)
  PROVE  AnswerOK(a)'
BY DEF Kept, AnswerOK

\* The two quantified parts of UploadInv.
RequestInv ==
  /\ \A h \in handlers : HandlerOK(h)
  /\ \A c \in Callers : AnswerOK(answer[c])

(* A sound server step keeps the requests sound. *)
LEMMA ServerRequests ==
  ASSUME TypeOK, RequestInv, Kept, NEW h \in handlers, Sound(h)
  PROVE  RequestInv'
<1>1. \A g \in handlers : HandlerOK(g)'
  BY HandlerCarries DEF RequestInv
<1>2. \A c \in Callers : AnswerOK(answer[c])'
  <2> SUFFICES ASSUME NEW c \in Callers PROVE AnswerOK(answer[c])'
    OBVIOUS
  <2>0. answer \in [Callers -> Answers] /\ h \in Handler
    BY DEF TypeOK
  <2>1. \A a \in Answers : AnswerOK(a) => AnswerOK(a)'
    BY AnswerCarries
  <2>2. ASSUME NEW s \in Stages, Proceed(h, s) PROVE AnswerOK(answer[c])'
    BY <2>0, <2>1, <2>2 DEF Proceed, RequestInv, AnswerOK
  <2>3. ASSUME NEW a \in Answers, Reply(h, a), AnswerOK(a)' PROVE AnswerOK(answer[c])'
    BY <2>0, <2>1, <2>3 DEF Reply, RequestInv, AnswerOK
  <2> QED
    BY <2>2, <2>3 DEF Sound
<1>3. \A g \in handlers' : HandlerOK(g)'
  BY <1>1 DEF Sound, Proceed, Reply
<1> QED
  BY <1>2, <1>3 DEF RequestInv

(* The app leaves the server's rows and objects alone, and sends, abandons
   and takes nothing that is not sound. *)
LEMMA ClientRequests ==
  ASSUME TypeOK, RequestInv, UNCHANGED serverVars,
         \/ UNCHANGED requestVars
         \/ \E c \in Callers, call \in Calls, v \in Payloads \cup {NoPayload} : Send(c, call, v)
         \/ \E C \in SUBSET Callers : Abandon(C)
         \/ \E c \in Callers : Taken(c)
  PROVE  RequestInv' /\ Kept
<1> USE RecordingAssumption
<1>0. Kept
  BY DEF Kept, serverVars
<1>1. /\ \A g \in handlers : HandlerOK(g)'
      /\ \A a \in Answers : AnswerOK(a) => AnswerOK(a)'
  BY <1>0, HandlerCarries, AnswerCarries DEF RequestInv
<1>2. AnswerOK("none")' /\ AnswerOK("waiting")'
  BY DEF AnswerOK
<1>3. answer \in [Callers -> Answers] /\ handlers \subseteq Handler
  BY DEF TypeOK
<1>4. CASE UNCHANGED requestVars
  <2>1. handlers' = handlers /\ answer' = answer
    BY <1>4 DEF requestVars
  <2>2. \A g \in handlers' : HandlerOK(g)'
    BY <1>1, <2>1
  <2>3. \A d \in Callers : AnswerOK(answer[d])'
    BY <1>1, <1>3, <2>1 DEF RequestInv, AnswerOK
  <2> QED
    BY <1>0, <2>2, <2>3 DEF RequestInv
<1>5. ASSUME NEW c \in Callers, NEW call \in Calls, NEW v \in Payloads \cup {NoPayload},
             Send(c, call, v)
      PROVE  RequestInv'
  <2>1. \A g \in handlers' : HandlerOK(g)'
    BY <1>1, <1>5 DEF Send, FirstStage, HandlerOK, Calls
  <2>2. \A d \in Callers : AnswerOK(answer[d])'
    BY <1>1, <1>2, <1>3, <1>5 DEF Send, RequestInv, AnswerOK
  <2> QED
    BY <2>1, <2>2 DEF RequestInv
<1>6. ASSUME NEW C \in SUBSET Callers, Abandon(C) PROVE RequestInv'
  <2>1. \A g \in handlers' : HandlerOK(g)'
    <3> SUFFICES ASSUME NEW g \in handlers' PROVE HandlerOK(g)'
      OBVIOUS
    <3>1. PICK f \in handlers : g = IF f.caller \in C THEN [f EXCEPT !.caller = "nobody"] ELSE f
      BY <1>6 DEF Abandon
    <3>2. g.call = f.call /\ g.stage = f.stage /\ g.payload = f.payload
      BY <3>1, <1>3 DEF Handler
    <3> QED
      BY <3>2, <1>1 DEF HandlerOK
  <2>2. \A d \in Callers : AnswerOK(answer[d])'
    BY <1>1, <1>2, <1>3, <1>6 DEF Abandon, RequestInv, AnswerOK
  <2> QED
    BY <2>1, <2>2 DEF RequestInv
<1>7. ASSUME NEW c \in Callers, Taken(c) PROVE RequestInv'
  BY <1>1, <1>2, <1>3, <1>7 DEF Taken, RequestInv, AnswerOK
<1> QED
  BY <1>0, <1>4, <1>5, <1>6, <1>7

\* The app's side of UploadInv.
ClientInv == PassInv /\ JournalIsTrue /\ NeverLost

(* What the app relies on stays true while the server works. *)
LEMMA ServerClient ==
  ASSUME TypeOK, ClientInv, Kept, UNCHANGED clientVars
  PROVE  ClientInv'
<1> USE DEF TypeOK, Kept, clientVars
<1>1. PassInv'
  BY DEF ClientInv, PassInv
<1>2. JournalIsTrue'
  BY DEF ClientInv, JournalIsTrue
<1>3. NeverLost'
  BY RecordingAssumption DEF ClientInv, NeverLost
<1> QED
  BY <1>1, <1>2, <1>3 DEF ClientInv

\* How a step of the app may treat its requests.
RequestStep ==
  \/ UNCHANGED requestVars
  \/ \E c \in Callers, call \in Calls, v \in Payloads \cup {NoPayload} : Send(c, call, v)
  \/ \E C \in SUBSET Callers : Abandon(C)
  \/ \E c \in Callers : Taken(c)

(* A step of the app changes nothing on the server, and marks, journals and
   deletes only on facts: one case per step. *)
LEMMA ClientSound ==
  ASSUME TypeOK, StoreInv, RequestInv, ClientInv,
         StartPass \/ PipelineStep \/ CoordinatorStep \/ ClearTranscript \/ DiscardStep
           \/ PassInterrupted \/ TranscriptionFails \/ CoordinatorTimesOut \/ Crash
  PROVE  UNCHANGED serverVars /\ RequestStep /\ ClientInv'
<1> USE RecordingAssumption
<1>0. AnswerOK(answer["pipeline"])
  BY DEF RequestInv, Callers
<1> USE DEF TypeOK, ClientInv, PassInv, JournalIsTrue, NeverLost, RequestStep, Callers,
            Calls, clientVars, serverVars, diskVars, passVars, requestVars, Gates
<1>1. CASE CreateAccepted
  <2>1. UNCHANGED serverVars /\ RequestStep
    BY <1>1 DEF CreateAccepted
  <2>2. ClientInv'
    BY <1>1 DEF CreateAccepted
  <2> QED
    BY <2>1, <2>2
<1>2. CASE SendSeal
  <2>1. UNCHANGED serverVars /\ RequestStep
    BY <1>2 DEF SendSeal
  <2>2. ClientInv'
    BY <1>2 DEF SendSeal
  <2> QED
    BY <2>1, <2>2
<1>3. CASE SealAccepted
  <2>1. UNCHANGED serverVars /\ RequestStep
    BY <1>3 DEF SealAccepted
  <2>2. ClientInv'
    BY <1>3, <1>0 DEF SealAccepted, GatesOf, AnswerOK
  <2> QED
    BY <2>1, <2>2
<1>4. ASSUME NEW p \in Parts, SendPart(p)
      PROVE  UNCHANGED serverVars /\ RequestStep /\ ClientInv'
  <2>1. UNCHANGED serverVars /\ RequestStep
    BY <1>4 DEF SendPart
  <2>2. ClientInv'
    BY <1>4 DEF SendPart
  <2> QED
    BY <2>1, <2>2
<1>5. ASSUME NEW p \in Parts, PartAccepted(p)
      PROVE  UNCHANGED serverVars /\ RequestStep /\ ClientInv'
  <2>1. UNCHANGED serverVars /\ RequestStep
    BY <1>5 DEF PartAccepted
  <2>2. ClientInv'
    BY <1>5, <1>0 DEF PartAccepted, AnswerOK
  <2> QED
    BY <2>1, <2>2
<1>6. CASE StatusRead
  <2>1. UNCHANGED serverVars /\ RequestStep
    BY <1>6 DEF StatusRead
  <2>2. ClientInv'
    BY <1>6, <1>0 DEF StatusRead, GatesOf, AnswerOK
  <2> QED
    BY <2>1, <2>2
<1>7. CASE SubmitTranscript
  <2>1. UNCHANGED serverVars /\ RequestStep
    BY <1>7 DEF SubmitTranscript
  <2>2. ClientInv'
    BY <1>7 DEF SubmitTranscript
  <2> QED
    BY <2>1, <2>2
<1>8. CASE TranscriptAnswered
  <2>1. UNCHANGED serverVars /\ RequestStep
    BY <1>8 DEF TranscriptAnswered
  <2>2. ClientInv'
    BY <1>8, <1>0 DEF TranscriptAnswered, GatesOf, AnswerOK
  <2> QED
    BY <2>1, <2>2
<1>9. CASE TranscriptRejected
  <2>1. UNCHANGED serverVars /\ RequestStep
    BY <1>9 DEF TranscriptRejected
  <2>2. ClientInv'
    BY <1>9 DEF TranscriptRejected
  <2> QED
    BY <2>1, <2>2
<1>10. CASE MarkGates
  <2>1. UNCHANGED serverVars /\ RequestStep
    BY <1>10 DEF MarkGates
  <2>2. ClientInv'
    BY <1>10 DEF MarkGates, StoreInv
  <2> QED
    BY <2>1, <2>2
<1>11. CASE Release
  <2>1. UNCHANGED serverVars /\ RequestStep
    BY <1>11 DEF Release
  <2>2. ClientInv'
    BY <1>11 DEF Release, StoreInv, SealedIsComplete
  <2> QED
    BY <2>1, <2>2
<1>12. CASE RemoveDirectory
  <2>1. UNCHANGED serverVars /\ RequestStep
    BY <1>12 DEF RemoveDirectory
  <2>2. ClientInv'
    BY <1>12 DEF RemoveDirectory
  <2> QED
    BY <2>1, <2>2
<1>13. CASE ResumeTranscription
  <2>1. UNCHANGED serverVars /\ RequestStep
    BY <1>13 DEF ResumeTranscription
  <2>2. ClientInv'
    BY <1>13 DEF ResumeTranscription
  <2> QED
    BY <2>1, <2>2
<1>14. CASE PassFails
  <2>1. UNCHANGED serverVars /\ RequestStep
    BY <1>14 DEF PassFails
  <2>2. ClientInv'
    BY <1>14 DEF PassFails
  <2> QED
    BY <2>1, <2>2
<1>15. CASE StartPass
  <2>1. UNCHANGED serverVars /\ RequestStep
    BY <1>15 DEF StartPass
  <2>2. ClientInv'
    BY <1>15 DEF StartPass
  <2> QED
    BY <2>1, <2>2
<1>16. ASSUME NEW v \in Payloads, TranscriptionDone(v)
      PROVE  UNCHANGED serverVars /\ RequestStep /\ ClientInv'
  <2>1. UNCHANGED serverVars /\ RequestStep
    BY <1>16 DEF TranscriptionDone
  <2>2. ClientInv'
    BY <1>16 DEF TranscriptionDone
  <2> QED
    BY <2>1, <2>2
<1>17. CASE CoordinatorAnswered
  <2>1. UNCHANGED serverVars /\ RequestStep
    BY <1>17 DEF CoordinatorAnswered
  <2>2. ClientInv'
    BY <1>17 DEF CoordinatorAnswered
  <2> QED
    BY <2>1, <2>2
<1>18. CASE ClearTranscript
  <2>1. UNCHANGED serverVars /\ RequestStep
    BY <1>18 DEF ClearTranscript
  <2>2. ClientInv'
    BY <1>18 DEF ClearTranscript
  <2> QED
    BY <2>1, <2>2
<1>19. CASE DiscardKey
  <2>1. UNCHANGED serverVars /\ RequestStep
    BY <1>19 DEF DiscardKey
  <2>2. ClientInv'
    BY <1>19 DEF DiscardKey
  <2> QED
    BY <2>1, <2>2
<1>20. CASE DiscardDirectory
  <2>1. UNCHANGED serverVars /\ RequestStep
    BY <1>20 DEF DiscardDirectory
  <2>2. ClientInv'
    BY <1>20 DEF DiscardDirectory
  <2> QED
    BY <2>1, <2>2
<1>21. CASE DiscardFinish
  <2>1. UNCHANGED serverVars /\ RequestStep
    BY <1>21 DEF DiscardFinish
  <2>2. ClientInv'
    BY <1>21 DEF DiscardFinish
  <2> QED
    BY <2>1, <2>2
<1>22. CASE PassInterrupted
  <2>1. UNCHANGED serverVars /\ RequestStep
    BY <1>22 DEF PassInterrupted
  <2>2. ClientInv'
    BY <1>22 DEF PassInterrupted
  <2> QED
    BY <2>1, <2>2
<1>23. CASE TranscriptionFails
  <2>1. UNCHANGED serverVars /\ RequestStep
    BY <1>23 DEF TranscriptionFails
  <2>2. ClientInv'
    BY <1>23 DEF TranscriptionFails
  <2> QED
    BY <2>1, <2>2
<1>24. CASE CoordinatorTimesOut
  <2>1. UNCHANGED serverVars /\ RequestStep
    BY <1>24 DEF CoordinatorTimesOut
  <2>2. ClientInv'
    BY <1>24 DEF CoordinatorTimesOut
  <2> QED
    BY <2>1, <2>2
<1>25. CASE Crash
  <2>1. UNCHANGED serverVars /\ RequestStep
    BY <1>25 DEF Crash
  <2>2. ClientInv'
    BY <1>25 DEF Crash
  <2> QED
    BY <2>1, <2>2
<1> QED
  BY <1>1, <1>2, <1>3, <1>4, <1>5, <1>6, <1>7, <1>8, <1>9, <1>10, <1>11, <1>12, <1>13,
     <1>14, <1>15, <1>16, <1>17, <1>18, <1>19, <1>20, <1>21, <1>22, <1>23, <1>24, <1>25
  DEF PipelineStep, CoordinatorStep, DiscardStep

-----------------------------------------------------------------------------
(* A freshly sealed spool satisfies the invariant. *)
LEMMA UploadInit == Init => UploadInv
<1> SUFFICES ASSUME Init PROVE UploadInv
  OBVIOUS
<1> USE RecordingAssumption DEF Init
<1>1. TypeOK
  <2>1. gates \in Gates /\ found \in Gates
    BY DEF Gates
  <2>2. answer \in [Callers -> Answers] /\ handlers \subseteq Handler
    BY DEF Answers
  <2>3. faults \in 0..MaxFaults
    OBVIOUS
  <2>4. part \in [Parts -> {"absent", "reserved", "stored"}]
    OBVIOUS
  <2> QED
    BY <2>1, <2>2, <2>3, <2>4 DEF TypeOK
<1>2. StoreInv
  BY DEF StoreInv, SealedIsComplete
<1>3. \A c \in Callers : AnswerOK(answer[c])
  BY DEF AnswerOK
<1>4. PassInv /\ JournalIsTrue /\ NeverLost
  BY DEF PassInv, JournalIsTrue, NeverLost
<1> QED
  BY <1>1, <1>2, <1>3, <1>4 DEF UploadInv

(* Every step keeps the invariant and takes nothing back. *)
LEMMA UploadStep == UploadInv /\ [Next]_recordingVars => UploadInv' /\ Kept
<1> SUFFICES ASSUME UploadInv, [Next]_recordingVars PROVE UploadInv' /\ Kept
  OBVIOUS
<1>0. TypeOK /\ StoreInv /\ RequestInv /\ ClientInv
  BY DEF UploadInv, RequestInv, ClientInv
<1>1. TypeOK'
  BY <1>0, TypeStep
<1>2. ASSUME NEW h \in handlers, ServerStep(h) \/ HandlerFails(h)
      PROVE  StoreInv' /\ RequestInv' /\ ClientInv' /\ Kept
  <2>1. HandlerOK(h)
    BY <1>0 DEF RequestInv
  <2>2. Kept /\ StoreInv' /\ Sound(h)
    BY <1>0, <1>2, <2>1, ServerSound
  <2>3. UNCHANGED clientVars
    BY <1>2 DEF ServerStep, HandlerFails, CreateRecording, ReservePart, EnsurePartObject,
      FinalizePart, PrepareSeal, VerifyPcmHashes, PutManifests, FinalizeSeal, ReadStatus,
      ResolveTranscript, StoreTranscript, AcceptLineage, EnqueueAnalysis
  <2> QED
    BY <1>0, <2>2, <2>3, ServerRequests, ServerClient
<1>3. CASE \/ StartPass \/ PipelineStep \/ CoordinatorStep \/ ClearTranscript \/ DiscardStep
           \/ PassInterrupted \/ TranscriptionFails \/ CoordinatorTimesOut \/ Crash
  <2>1. UNCHANGED serverVars /\ RequestStep /\ ClientInv'
    BY <1>0, <1>3, ClientSound
  <2>2. RequestInv' /\ Kept
    BY <1>0, <2>1, ClientRequests DEF RequestStep
  <2>3. StoreInv'
    BY <1>0, <2>1 DEF StoreInv, SealedIsComplete, serverVars
  <2> QED
    BY <1>1, <2>1, <2>2, <2>3 DEF UploadInv, RequestInv, ClientInv
<1>4. CASE UNCHANGED recordingVars
  <2>1. /\ UNCHANGED serverVars /\ UNCHANGED requestVars /\ UNCHANGED clientVars
    BY <1>4 DEF recordingVars, serverVars, requestVars, clientVars
  <2>2. RequestInv' /\ Kept
    BY <1>0, <2>1, ClientRequests
  <2>3. ClientInv'
    BY <1>0, <2>1, <2>2, ServerClient
  <2>4. StoreInv'
    BY <1>0, <2>1 DEF StoreInv, SealedIsComplete, serverVars
  <2> QED
    BY <1>1, <2>2, <2>3, <2>4 DEF UploadInv, RequestInv, ClientInv
<1> QED
  BY <1>1, <1>2, <1>3, <1>4 DEF Next, Faults, UploadInv, RequestInv, ClientInv

(* The strengthened invariant holds of every recording. *)
THEOREM UploadInvariant == Spec => []UploadInv
<1>1. UploadInv /\ [Next]_recordingVars => UploadInv'
  BY UploadStep
<1> QED
  BY UploadInit, <1>1, PTL DEF Spec

(* Every variable keeps its type: the journal lists only parts of the spool,
   the release gates stay two Booleans, faults stay within their bound. *)
THEOREM RecordingTypes == Spec => []TypeOK
<1>1. UploadInv => TypeOK
  BY DEF UploadInv
<1> QED
  BY UploadInvariant, <1>1, PTL

(* The server seals only what is whole (prepare_seal, finalize_seal), with
   any number of abandoned part uploads still running. *)
THEOREM SealsAreComplete == Spec => []SealedIsComplete
<1>1. UploadInv => SealedIsComplete
  BY DEF UploadInv, StoreInv
<1> QED
  BY UploadInvariant, <1>1, PTL

(* The app never journals a part or opens a gate the server does not back. *)
THEOREM JournalsAreTrue == Spec => []JournalIsTrue
<1>1. UploadInv => JournalIsTrue
  BY DEF UploadInv
<1> QED
  BY UploadInvariant, <1>1, PTL

(* The encrypted original is destroyed only by the user or when the server
   has the whole recording and its transcript (releaseIfEligible). *)
THEOREM NoRecordingIsLost == Spec => []NeverLost
<1>1. UploadInv => NeverLost
  BY DEF UploadInv
<1> QED
  BY UploadInvariant, <1>1, PTL

(* A stored recording, its transcript and its accepted lineage are final. *)
THEOREM RecordingsAreFinal == Spec => StoredIsFinal
<1>1. UploadInv /\ [Next]_recordingVars =>
        [/\ state = "stored" => state' = "stored"
         /\ transcript # NoPayload => transcript' = transcript
         /\ lineage => lineage']_recordingVars
  BY UploadStep DEF Kept
<1> QED
  BY UploadInvariant, <1>1, PTL DEF Spec, StoredIsFinal

-----------------------------------------------------------------------------
(* The refinement of RecordingCustody.                                      *)

\* A discard begins with the key, so its traces are only found without it.
DiscardInv == discard # "no" => spool # "present"

(* The key never comes back, and no discard is recorded before it is gone. *)
LEMMA DiscardStart == Spec => []DiscardInv
<1>1. Init => DiscardInv
  BY DEF Init, DiscardInv
<1>2. ASSUME DiscardInv, [Next]_recordingVars PROVE DiscardInv'
  <2> USE <1>2 DEF DiscardInv
  <2>1. ASSUME NEW h \in handlers, ServerStep(h) \/ HandlerFails(h) PROVE DiscardInv'
    BY <2>1 DEF ServerStep, HandlerFails, CreateRecording, ReservePart, EnsurePartObject,
      FinalizePart, PrepareSeal, VerifyPcmHashes, PutManifests, FinalizeSeal, ReadStatus,
      ResolveTranscript, StoreTranscript, AcceptLineage, EnqueueAnalysis, clientVars
  <2>2. CASE PipelineStep
    BY <2>2 DEF PipelineStep, CreateAccepted, SendSeal, SealAccepted, SendPart, PartAccepted,
      StatusRead, SubmitTranscript, TranscriptAnswered, TranscriptRejected, MarkGates, Release,
      RemoveDirectory, ResumeTranscription, PassFails, clientVars, diskVars, passVars
  <2>3. CASE StartPass \/ CoordinatorStep \/ ClearTranscript \/ PassInterrupted
             \/ TranscriptionFails \/ CoordinatorTimesOut \/ Crash
    BY <2>3 DEF StartPass, CoordinatorStep, TranscriptionDone, CoordinatorAnswered,
      ClearTranscript, PassInterrupted, TranscriptionFails, CoordinatorTimesOut, Crash, diskVars,
      passVars
  <2>4. CASE DiscardStep
    BY <2>4 DEF DiscardStep, DiscardKey, DiscardDirectory, DiscardFinish, diskVars
  <2>5. CASE UNCHANGED recordingVars
    BY <2>5 DEF recordingVars
  <2> QED
    BY <2>1, <2>2, <2>3, <2>4, <2>5 DEF Next, Faults
<1> QED
  BY <1>1, <1>2, PTL DEF Spec

(* A server step stores the audio, accepts a transcript, or changes nothing
   of the custody. *)
LEMMA CustodyServer ==
  ASSUME UploadInv, NEW h \in handlers, ServerStep(h) \/ HandlerFails(h)
  PROVE  [Custody!Next]_(Custody!custodyVars)
<1> USE DEF Custody!custodyVars
<1>0. /\ lineage => transcript # NoPayload /\ state = "stored"
      /\ HandlerOK(h) /\ Kept /\ lineage \in BOOLEAN
  BY UploadStep, ServerSound DEF UploadInv, StoreInv, TypeOK
<1>1. CASE FinalizeSeal(h)
  BY <1>0, <1>1 DEF FinalizeSeal, clientVars, Custody!Next, Custody!Store
<1>2. CASE AcceptLineage(h)
  <2>1. transcript \in Acceptable /\ state = "stored" /\ transcript # NoPayload
    BY <1>0, <1>2 DEF AcceptLineage, HandlerOK, UploadInv, StoreInv
  <2>2. CASE lineage
    BY <1>2, <2>2 DEF AcceptLineage, clientVars
  <2>3. CASE ~lineage
    <3>1. Custody!Accept(transcript)
      BY <1>2, <2>1, <2>3 DEF AcceptLineage, clientVars, Custody!Accept
    <3> QED
      BY <2>1, <3>1 DEF Custody!Next
  <2> QED
    BY <2>2, <2>3
<1>3. CASE StoreTranscript(h)
  BY <1>0, <1>3 DEF StoreTranscript, clientVars, Kept
<1>4. CASE CreateRecording(h) \/ ReservePart(h) \/ FinalizePart(h) \/ PrepareSeal(h)
  <2>1. UNCHANGED <<transcript, lineage, spool, discard>>
    BY <1>4 DEF CreateRecording, ReservePart, FinalizePart, PrepareSeal, clientVars
  <2>2. state' # "stored" <=> state # "stored"
    BY <1>0, <1>4 DEF CreateRecording, ReservePart, FinalizePart, PrepareSeal, Kept
  <2> QED
    BY <2>1, <2>2
<1>5. CASE \/ EnsurePartObject(h) \/ VerifyPcmHashes(h) \/ PutManifests(h) \/ ReadStatus(h)
           \/ ResolveTranscript(h) \/ EnqueueAnalysis(h) \/ HandlerFails(h)
  BY <1>5 DEF EnsurePartObject, VerifyPcmHashes, PutManifests, ReadStatus, ResolveTranscript,
    EnqueueAnalysis, HandlerFails, serverVars, clientVars
<1> QED
  BY <1>1, <1>2, <1>3, <1>4, <1>5 DEF ServerStep

(* A step of the app releases the original, discards it, or leaves it. *)
LEMMA CustodyClient ==
  ASSUME UploadInv, DiscardInv,
         \/ StartPass \/ PipelineStep \/ CoordinatorStep \/ ClearTranscript \/ DiscardStep
         \/ PassInterrupted \/ TranscriptionFails \/ CoordinatorTimesOut \/ Crash
  PROVE  [Custody!Next]_(Custody!custodyVars)
<1> USE DEF Custody!custodyVars
<1>0. UNCHANGED <<state, transcript, lineage>>
  <2>1. RequestInv /\ ClientInv /\ TypeOK /\ StoreInv
    BY DEF UploadInv, RequestInv, ClientInv
  <2> QED
    BY <2>1, ClientSound DEF serverVars
<1>1. CASE Release
  <2>1. gates.audio /\ gates.lineage =>
          state = "stored" /\ lineage /\ transcript # NoPayload
    BY DEF UploadInv, JournalIsTrue
  <2> QED
    BY <1>0, <1>1, <2>1 DEF Release, Custody!Next, Custody!Release
<1>2. CASE DiscardKey
  BY <1>0, <1>2 DEF DiscardKey, DiscardInv, Custody!Next, Custody!Discard
<1>3. CASE DiscardDirectory \/ DiscardFinish
  BY <1>0, <1>3 DEF DiscardDirectory, DiscardFinish, DiscardInv, diskVars
<1>4. CASE RemoveDirectory
  BY <1>0, <1>4 DEF RemoveDirectory, UploadInv, PassInv
<1>5. CASE \/ CreateAccepted \/ SendSeal \/ SealAccepted
           \/ (\E p \in Parts : SendPart(p) \/ PartAccepted(p))
           \/ StatusRead \/ SubmitTranscript \/ TranscriptAnswered \/ TranscriptRejected
           \/ MarkGates \/ ResumeTranscription \/ PassFails
  BY <1>0, <1>5 DEF CreateAccepted, SendSeal, SealAccepted, SendPart, PartAccepted, StatusRead,
    SubmitTranscript, TranscriptAnswered, TranscriptRejected, MarkGates, ResumeTranscription,
    PassFails, clientVars, diskVars
<1>6. CASE StartPass \/ CoordinatorStep \/ ClearTranscript \/ PassInterrupted
           \/ TranscriptionFails \/ CoordinatorTimesOut
  BY <1>0, <1>6 DEF StartPass, CoordinatorStep, TranscriptionDone, CoordinatorAnswered,
    ClearTranscript, PassInterrupted, TranscriptionFails, CoordinatorTimesOut, diskVars
<1>7. CASE Crash
  BY <1>0, <1>7 DEF Crash, diskVars
<1> QED
  BY <1>1, <1>2, <1>3, <1>4, <1>5, <1>6, <1>7 DEF PipelineStep, DiscardStep

(* The exchange of requests, retries, journals and crashes implements the
   custody of the recording: no step loses it and none takes it back. *)
THEOREM UploadImplementsCustody == Spec => ImplementsCustody
<1>1. Init => Custody!Init
  BY RecordingAssumption DEF Init, Custody!Init
<1>2. UploadInv /\ DiscardInv /\ [Next]_recordingVars => [Custody!Next]_(Custody!custodyVars)
  <2> SUFFICES ASSUME UploadInv, DiscardInv, [Next]_recordingVars
               PROVE  [Custody!Next]_(Custody!custodyVars)
    OBVIOUS
  <2>1. CASE UNCHANGED recordingVars
    BY <2>1 DEF recordingVars, Custody!custodyVars
  <2>2. CASE Next
    BY <2>2, CustodyServer, CustodyClient DEF Next, Faults
  <2> QED
    BY <2>1, <2>2
<1> QED
  BY UploadInvariant, DiscardStart, <1>1, <1>2, PTL DEF Spec, ImplementsCustody, Custody!Spec
=============================================================================
