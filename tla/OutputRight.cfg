\* The other parts' constants are in MCOutput.  A part stops when its picture is
\* out.
CONSTANTS
    Inputs <- LentInputs
    Planes <- LentPlanes
    Images <- LentImages
    OutFormats = {"packed", "planar"}
    MaxOwners = 2
INIT OutputInit
NEXT OutputNext
INVARIANTS
    ValidRowsAreFinal
    CanvasAsComposed
    HandleSafe
    OutputRight
CHECK_DEADLOCK FALSE
