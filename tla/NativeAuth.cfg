SPECIFICATION Spec
CONSTANTS
  MaxPairs = 3
  Attempts = {a1, a2}
  FlowCapacity = 1
  MaxRotations = 1
  MaxSignOuts = 1
  MaxFaults = 2
SYMMETRY AttemptSymmetry
INVARIANTS
  TypeOK
  OneLiveToken
  StoredIsKept
  HandedOutIsCurrent
CHECK_DEADLOCK FALSE
