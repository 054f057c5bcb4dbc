SPECIFICATION Spec
CONSTANTS
    MaxLogouts = 2
    MaxCheckpoints = 1
INVARIANTS
    SkippedSaveIsRedundant
CHECK_DEADLOCK FALSE
