\* Three steps and three buffers, across threads and on one.
CONSTANTS
    N = 3
    B = 3
    Threads = {3, 4}
    MaxPass = 7
SPECIFICATION FairSpec
INVARIANTS
    InOrder
    WholeOnReturn
PROPERTIES
    TurnedAwayOnlyAtTheEnd
    CallsReturn
