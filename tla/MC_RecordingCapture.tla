------------------------ MODULE MC_RecordingCapture ------------------------
(* Model-checking instance of RecordingCapture. *)
EXTENDS RecordingCapture, TLC
=============================================================================
