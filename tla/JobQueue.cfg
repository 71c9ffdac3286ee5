SPECIFICATION FairSpec
CONSTANTS
  k1 = k1
  k2 = k2
  w1 = w1
  w2 = w2
  Keys = {k1, k2}
  Workers = {w1, w2}
  NoWorker = NoWorker
  NoJob = NoJob
  KindOf <- MCKindOf
  KindsOf <- MCKindsOf
  PriorityOf <- MCPriorityOf
  MaxAttempts <- MCMaxAttempts
  LeaseLength = 1
  LeaseCap = 2
  BackoffBase = 3
  DelayCap = 1
  RetryCap = 2
  RetryAfter = {0, 2}
  ReclaimLimit = 1
INVARIANTS
  TypeOK
  QueuedIsClaimable
  LifecycleCoherent
  EventsNeverCollide
PROPERTIES
  FencedTransition
  UpdatesAccepted
  JobsEnd
CHECK_DEADLOCK FALSE
