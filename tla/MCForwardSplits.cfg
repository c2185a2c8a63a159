SPECIFICATION Spec
CHECK_DEADLOCK FALSE
CONSTANTS
    Messages <- ShortShapes
    NumMessages = 2
    nBlocks = 2
    MaxBlocks = 3
    MaxOthers = 1
INVARIANTS
    ForwardReads
