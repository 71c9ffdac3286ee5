-------------------------- MODULE MC_Deliverables --------------------------
(* Model-checking instance of Deliverables. *)
EXTENDS Deliverables, TLC
=============================================================================
