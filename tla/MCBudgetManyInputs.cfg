SPECIFICATION Spec
CHECK_DEADLOCK FALSE
CONSTANTS
    Lengths = {80200}
    InputCounts = {100}
    Surplus = {0}
    SuffixBits = 8
    KeyBits = 250
    MaxKeys = 11
    SeqBits = 32
    NullBits = 320
    MaxScriptHash = 14
    LBound = 546
    FeeRate = 10000
    FeeUnit = 1000
    Word <- MCWord
    TxSize = 10
    InSize = 41
    SigSize = 82
    KeySize = 34
    OutSize = 32
    NullSize = 51
    EmbeddableBitsInValues <- MCInValues
    EmbeddableBitsInPermutation <- MCInPermutation
    Claims <- MCClaims
INVARIANTS
    MinimumBudgetSuffices
