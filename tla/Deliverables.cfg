SPECIFICATION Spec
CONSTANTS
    Records = {d1}
    Answers = {p1}
    MaxPeriod = 1
    MaxTexts = 2
    MaxRevisions = 3
    MaxJobs = 2
    MaxAsks = 2
    Workers = {w1, w2}
    MaxAttempts = 2
    MaxFaults = 1
INVARIANTS SucceededIsStored MailedPerAttempt
PROPERTIES RowNeverRegresses RequestsSettle
CHECK_DEADLOCK FALSE
