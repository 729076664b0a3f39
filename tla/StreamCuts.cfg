\* Sixteen small files, and every way to cut them into calls.
CONSTANTS
    Files <- AllFiles
    Threshold = 4
    Junk = 1
SPECIFICATION Spec
CHECK_DEADLOCK FALSE
INVARIANTS
    FileKept
    ShownAsWhole
PROPERTIES
    NothingSkipped
    SameVerdict
