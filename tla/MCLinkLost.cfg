SPECIFICATION Spec
CHECK_DEADLOCK FALSE
CONSTANTS
    p1 = p1  p2 = p2  c1 = c1  c2 = c2  c3 = c3
    Writers <- OneWriter
    Coins <- ThreeCoins
    Amount <- Amounts
    ChainLengths = {2, 3}
    Fee = 1
    Margin = 2
    MaxMessages = 3
    MaxCrashes = 0
    Failures = FALSE
    Spending = FALSE
    Patient = FALSE
INVARIANTS
    ChainReadable
