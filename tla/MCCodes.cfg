SPECIFICATION CodesSpec
CHECK_DEADLOCK FALSE
CONSTANTS
    Alphabet = {"a", "b", "c"}
    EoF = "eof"
    MaxFreq = 3
    MaxText = 2
    Pads = {0, 2}
    Word = 64
    Budgets = {1, 2, 3, 5, 7}
    Parts = {2, 3, 4}
    Byte = 2
    KeyBits = 6
    MinRandom = 2
    IsFullyValid <- MCIsFullyValid
    Decimals = 3
    MaxWhole = 2
    nSize = 4
    PortByte = 4
    IntWidth = 64
    Ports = {0, 1, 3, 4, 7, 15}
    Octet = 8
    MAX_SIZE = 4200
    Block = 2
    VarLimit = 4096
    MaxForeign = 4
    Foreign = {0, 1, 2, 5, 6, 7}
    Pieces <- MCPieces
    MaxStream = 3
    Length = 7
    nBufSize = 4
    nRewind = 2
    ShortReads = TRUE
INVARIANTS
    TextsHold
    Optimal
    CarriersHold
    UtilitiesHold
    BitsHold
    FormatHolds
    BufferedReadsTrue
PROPERTIES
    CarrierCodingEnds
    StreamIsQueue
