---------------------------- MODULE MC_JobQueue ----------------------------
EXTENDS JobQueue
CONSTANTS k1, k2, w1, w2
MCKindOf == [k \in Keys |-> "speech_analysis"]
MCKindsOf == [w \in Workers |-> {"speech_analysis"}]
MCPriorityOf == [k \in Keys |-> IF k = k1 THEN 60 ELSE 40]
MCMaxAttempts == [k \in Keys |-> IF k = k1 THEN 3 ELSE 2]
=============================================================================
