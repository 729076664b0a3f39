\* A frame however its bytes arrive, and one decoded after it was left
\* anywhere; coders that need bytes to start.
CONSTANTS
    W = 3
    H = 4
    MaxPartitions = 2
    InitBytes = 3
    Files <- ResumeFiles
    MaxReopened = 1
    MaxFailures = 1
SPECIFICATION Spec
INVARIANTS
    ParsedInStep
    FilterFollows
    FinalRowsStay
    FailsIfDamaged
