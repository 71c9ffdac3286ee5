------------------------ MODULE MC_RecordingUpload ------------------------
(* RecordingUpload for TLC: two parts, so that one may be stored while the  *)
(* other is in flight, two transcripts the server takes, so that they may   *)
(* conflict, and one whose body it rejects.                                 *)
EXTENDS RecordingUpload, TLC

CONSTANTS p1, p2, v1, v2, bad, none

MCParts == {p1, p2}
MCPayloads == {v1, v2, bad}
MCAcceptable == {v1, v2}

\* A transcription that computes the same transcript every time.
MCOnePart == {p1}
MCOnePayload == {v1}
MCTwoPayloads == {v1, bad}

\* Parts are alike, and so are acceptable transcripts.
MCSymmetry == Permutations(MCParts) \cup Permutations(MCAcceptable)
===========================================================================
