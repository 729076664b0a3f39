\* A frame of fewer partitions than the damaged one before it.
CONSTANTS
    W = 2
    H = 2
    MaxPartitions = 2
    InitBytes = 0
    Files <- StaleFiles
    MaxReopened = 1
    MaxFailures = 1
SPECIFICATION Spec
INVARIANTS
    FailsIfDamaged
