\* Streams around the margins of Fast, symbols at the ends of their lengths; the
\* other parts' constants are in MCCodecs.  A part stops when its input is
\* decoded or has failed.
CONSTANTS
    Calls <- SplitCalls
    Sizes = {3, 9, 28, 32}
    Growing = {32}
    MinFirst = 30
    HeaderReads = {1, 24}
    HeaderCodes = {7}
    CodeLengths = {0, 15}
    PackedLengths = {1, 8}
    LengthExtras = {0, 10}
    DistanceExtras = {0, 18}
    FastMargin = 24
    TailMargin = 12
    MaxHeader = 25
INIT CodecsInit
NEXT CodecsNext
INVARIANTS
    StillAsWhole
    AlphaRight
    ReadInOrder
    LosslessRight
    PiecesRunOnce
    CodersAgree
    MacroblocksRight
    LossyRight
CHECK_DEADLOCK FALSE
