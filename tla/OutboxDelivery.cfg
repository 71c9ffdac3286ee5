SPECIFICATION FairSpec
CONSTANTS
  LastId = 4
  OccurredAt <- MCOccurredAt
  Notifiable = {1, 4}
  BatchLimit = 2
  PageLimit = 2
INVARIANTS
  NotifiedOnce
  SeenInOrder
PROPERTIES
  CommittedIsReached
