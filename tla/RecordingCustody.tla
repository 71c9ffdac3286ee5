--------------------------- MODULE RecordingCustody ---------------------------
(***************************************************************************)
(* What the app and the server promise about a recording together, without *)
(* requests, retries or journals: who holds it.  The Mac holds the         *)
(* original until the server has the audio and has accepted a transcript   *)
(* of it, or until the learner discards it; what the server has, it keeps. *)
(* RecordingUpload implements this (RecordingUpload!ImplementsCustody).    *)
(***************************************************************************)
CONSTANTS Transcripts, NoTranscript

VARIABLES
  original,   \* is the original still readable on the Mac
  audio,      \* has the server stored the audio
  accepted,   \* the transcript the server accepted
  discarded   \* has the learner discarded the recording

custodyVars == <<original, audio, accepted, discarded>>

Init ==
  /\ original = TRUE /\ audio = FALSE
  /\ accepted = NoTranscript /\ discarded = FALSE

\* the seal of the whole upload commits
Store ==
  /\ ~audio /\ audio' = TRUE
  /\ UNCHANGED <<original, accepted, discarded>>

\* one transcript, of stored audio, for good
Accept(t) ==
  /\ audio /\ accepted = NoTranscript /\ accepted' = t
  /\ UNCHANGED <<original, audio, discarded>>

\* both release gates are open
Release ==
  /\ original /\ audio /\ accepted # NoTranscript
  /\ original' = FALSE
  /\ UNCHANGED <<audio, accepted, discarded>>

\* a discard takes the original, if it is still there
Discard ==
  /\ ~discarded /\ discarded' = TRUE
  /\ original' = FALSE
  /\ UNCHANGED <<audio, accepted>>

Next == Store \/ (\E t \in Transcripts : Accept(t)) \/ Release \/ Discard

Spec == Init /\ [][Next]_custodyVars
===============================================================================
