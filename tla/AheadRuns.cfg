\* Options that change, and files that are reopened, under a run in progress.
CONSTANTS
    Settings = {s1, s2}
    ThreadOptions = {1, 2, 3}
    MaxSlots = 3
    Files <- MCFiles
    MaxChunks = 7
SPECIFICATION FairSpec
INVARIANT
    RingInStep
PROPERTIES
    PoolUsedAsMeant
    Transparent
    PictureReturns
