SPECIFICATION FairReviewSpec
CONSTANTS
  a1 = a1
  a2 = a2
  Reviewer = Reviewer
  Keys = {a1, a2}
  Workers = {Reviewer}
  NoWorker = NoWorker
  NoJob = NoJob
  KindOf <- MCKindOf
  KindsOf <- MCKindsOf
  PriorityOf <- MCPriorityOf
  MaxAttempts <- MCMaxAttempts
  LeaseLength = 1
  LeaseCap = 1
  BackoffBase = 3
  DelayCap = 1
  RetryCap = 2
  RetryAfter = {}
  ReclaimLimit = 2
  JobsPerStep = 2
INVARIANTS
  ReviewedIsReady
  SucceededHasReview
  RecordedIsInLedger
PROPERTIES
  ImplementsQueue
  ReviewSettles
