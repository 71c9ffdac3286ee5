SPECIFICATION FairSpec
CONSTANTS
  p1 = p1
  p2 = p2
  v1 = v1
  v2 = v2
  bad = bad
  none = none
  Parts <- MCOnePart
  Payloads <- MCOnePayload
  Acceptable <- MCOnePayload
  NoPayload = none
  MaxFaults = 1
CHECK_DEADLOCK FALSE
PROPERTY AnalysisFollowsTranscript
