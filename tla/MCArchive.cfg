SPECIFICATION ArchiveSpec
CHECK_DEADLOCK FALSE
CONSTANTS
    p1 = p1  p2 = p2  c1 = c1  c2 = c2  c3 = c3
    Writers <- TwoWriters
    Coins <- ThreeCoins
    Amount <- Amounts
    ChainLengths = {2, 5}
    Fee = 1
    Margin = 1
    MaxMessages = 3
    MaxTogether = 2
    MaxCrashes = 1
    Failures = TRUE
    Spending = FALSE
    Patient = FALSE
    NumMessages = 2
    nBlocks = 2
    MaxBlocks = 3
    MaxOthers = 1
INVARIANTS
    SessionsReadable
    NothingStrandedAlone
    StateSurvives
    StateAdvances
    RecordedIsSent
    ReadsHold
    ForwardCollectsAll
PROPERTIES
    KeepsArchive
    ReadingEnds
