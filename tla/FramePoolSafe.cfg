\* Two and three threads, three frames a run, spawns that may fail.
CONSTANTS
    Thread = {t1, t2, t3, t4}
    Threads = {2, 3}
    MaxSlots = 3
    MaxJobs = 3
SYMMETRY Symmetry
SPECIFICATION Spec
INVARIANTS
    TypeOK
    ThreadBudget
    LentForAFrameInProgress
    EachFrameInOnePlace
    ThreadsCounted
    NoLostWakeup
    NoThreadOutlivesThePool
PROPERTY
    KeepsItsPromise
