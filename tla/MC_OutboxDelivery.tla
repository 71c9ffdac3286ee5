------------------------- MODULE MC_OutboxDelivery -------------------------
EXTENDS OutboxDelivery
\* The first event was stamped after all others, which share a stamp.
MCOccurredAt == [e \in Ids |-> IF e = 1 THEN 2 ELSE 1]
=============================================================================
