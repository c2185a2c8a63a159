SPECIFICATION ProcessSpec
CHECK_DEADLOCK FALSE
CONSTANTS
    Program = {p1, p2}
    SuffixBits = {1, 2}
    Chunks = 2
    MaxEdits = 1
    MaxStarts = 3
    Daemon = {"info", "exception", "throw", "abort"}
    Object = {1, 2, 3}
    None = 0
    Addr <- MCAddr
    Size <- MCSize
    page_size = 4
    MayRefuse = TRUE
    fNameLookup = TRUE
    Destinations <- MCDestinations
    Names = {1, 200}
    Thread = {1, 2}
    Section = {"a", "b", "c"}
    NoThread = 0
    MaxNested = 3
    Waiter = {1, 2, 3, 4}
    Permits = 2
INVARIANTS
    StartsHold
    PagesHold
    ConnectionsHold
    LocksHold
PROPERTIES
    ProcessGoesOn
