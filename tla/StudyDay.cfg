SPECIFICATION Spec
CONSTANTS
  Devices = {d1, d2}
  Activities = {a1, a2}
  Required = {a1, a2}
  MaxGap = 2
  DayLimit = 3
  Minute = 2
  MaxCommands = 4
  MaxTime = 2
  MaxFaults = 1
SYMMETRY DaySymmetry
INVARIANTS
  FocusIsMeasured
  ClosedDayIsQuiet
  SeenWasTrue
  NoFalseConflict
CHECK_DEADLOCK FALSE
