\* A still whose size is not the canvas's.
CONSTANTS
    Files <- ConflictingFiles
    Threshold = 4
    Junk = 1
SPECIFICATION Spec
CHECK_DEADLOCK FALSE
PROPERTY ConflictRefused
