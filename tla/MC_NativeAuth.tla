---------------------------- MODULE MC_NativeAuth ----------------------------
(* A small instance of NativeAuth: attempts are interchangeable. *)
EXTENDS NativeAuth, TLC

AttemptSymmetry == Permutations(Attempts)
=============================================================================
