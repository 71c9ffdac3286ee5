SPECIFICATION Spec
CONSTANTS
    MaxStarts = 1
    MaxBuffers = 2
    Second = 2
    StartupInputs = 2
    HandoffCapacity = 1
    StreamCapacity = 1
    MaxFaults = 1
INVARIANTS SealedTiles
CHECK_DEADLOCK FALSE
