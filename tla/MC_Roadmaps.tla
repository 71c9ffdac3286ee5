---------------------------- MODULE MC_Roadmaps ----------------------------
(* Model-checking instance of Roadmaps. *)
EXTENDS Roadmaps, TLC

CONSTANTS r1, r2, k1, k2, plan, rival, next, broken

\* "rival" has the program key of "plan"; "next" rests on the second date.
MCProgramKey == [p \in Packages |-> IF p = next THEN "two" ELSE "one"]
MCRest == [p \in Packages |-> IF p = next THEN {2} ELSE {}]

Symmetric == Permutations(Requests) \cup Permutations(IdKeys)
=============================================================================
