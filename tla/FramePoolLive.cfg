\* Under fair scheduling: calls return, frames are taken, threads leave.
CONSTANTS
    Thread = {t1, t2, t3}
    Threads = {2}
    MaxSlots = 2
    MaxJobs = 3
SPECIFICATION FairSpec
PROPERTIES
    CallsReturn
    FramesAreTaken
    ThreadsLeave
