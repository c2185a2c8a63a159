SPECIFICATION AloneSpec
CHECK_DEADLOCK FALSE
CONSTANTS
    Pieces <- MCPieces
    MaxStream = 1
    Length = 7
    nBufSize = 4
    nRewind = 2
    ShortReads = TRUE
INVARIANTS
    RewindKept
