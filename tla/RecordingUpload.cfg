SPECIFICATION Spec
CONSTANTS
  p1 = p1
  p2 = p2
  v1 = v1
  v2 = v2
  bad = bad
  none = none
  Parts <- MCParts
  Payloads <- MCPayloads
  Acceptable <- MCAcceptable
  NoPayload = none
  MaxFaults = 2
CHECK_DEADLOCK FALSE
INVARIANTS SealedIsComplete NeverLost JournalIsTrue
PROPERTIES StoredIsFinal ImplementsCustody
SYMMETRY MCSymmetry
