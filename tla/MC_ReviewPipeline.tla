------------------------- MODULE MC_ReviewPipeline -------------------------
EXTENDS ReviewPipeline
CONSTANTS a1, a2
MCKindOf == [k \in Keys |-> "claude_review"]
MCKindsOf == [w \in Workers |-> {"claude_review"}]
MCPriorityOf == [k \in Keys |-> 40]
MCMaxAttempts == [k \in Keys |-> IF k = a1 THEN 2 ELSE 1]
=============================================================================
