\* The three schedules, on as many threads as each has steps beside its
\* producer; the frame has more rows than there are buffers.
CONSTANTS
    B = 4
    MaxPass = 10
    Rows = 6
SPECIFICATION Spec
PROPERTY AsOnOneThread
