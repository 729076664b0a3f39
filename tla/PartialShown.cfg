\* A lossless still that may fail; the caller leaves the format alone.
CONSTANTS
    Stills <- LosslessStills
    Formats = {"native"}
    Strip = 4
    MayFail = {"lossless"}
    Switches = FALSE
    MaxChanges = 0
SPECIFICATION Spec
INVARIANT ValidRowsAreFinal
CHECK_DEADLOCK FALSE
