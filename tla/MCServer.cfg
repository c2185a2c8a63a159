SPECIFICATION ServerSpec
CHECK_DEADLOCK FALSE
CONSTANTS
    IntBits = 7
    Unit = 10
    Base = 10
    RightMargin = 9
    MaxTokens = 4
    MaxCharacters = 4
    Tokens <- MCTokens
    Characters <- MCCharacters
    CodePoints <- MCCodePoints
    Indices = {0, 1, 2}
    Keys <- MCKeys
    Elements <- MCElements
    Procedures <- MCProcedures
    Requests <- MCRequests
    Auths = {"none", "grants", "refuses"}
    Strays <- MCStrays
    UriChars = {37, 46, 47, 48, 50, 102}
    PatternChars = {97, 47, 42, 36, 124, 63}
    HeadChars = {10, 13, 97, 1}
    MaxUri = 6
    MaxPattern = 4
    MaxHead = 6
    LastYear = 2030
    MG_BUF_LEN = 5
    Message <- MCMessage
    File <- MCFile
    BufSize = 4
    IntMax = 7
    LongMax = 31
    NoLength = NoLength
    showSpec = FALSE
    Worker = {1, 2}
    Socket = {1, 2, 3, 4}
    Denied = {2}
    QueueSize = 1
    MayFail = TRUE
INVARIANTS
    JsonHolds
    CallsHold
    MessagesHold
    RequestsHold
    ThreadsHold
PROPERTIES
    ResizeKeeps
    
