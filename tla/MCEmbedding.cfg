SPECIFICATION BothSpec
CHECK_DEADLOCK FALSE
CONSTANTS
    Lengths <- MCLengths
    InputCounts = {1, 30, 60}
    Surplus = {0, 3, 10}
    SuffixBits = 1
    KeyBits = 4
    MaxKeys = 2
    SeqBits = 1
    NullBits = 3
    MaxScriptHash = 3
    LBound = 2
    FeeRate = 4
    FeeUnit = 10
    Word = 256
    TxSize = 1
    InSize = 1
    SigSize = 1
    KeySize = 1
    OutSize = 1
    NullSize = 2
    EmbeddableBitsInValues <- MCInValues
    EmbeddableBitsInPermutation <- MCInPermutation
    Claims <- MCClaims
INVARIANTS
    TypeOK
    MessageArrives
    FeesPaid
    NumbersHold
PROPERTIES
    EmbeddingEnds
