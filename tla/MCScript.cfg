SPECIFICATION ScriptSpec
CHECK_DEADLOCK FALSE
CONSTANTS
    Byte = 8
    nMaxNumSize = 2
    MaxOps = 21
    MaxStack = 10
    MaxKeys = 4
    MAX_SCRIPT_ELEMENT_SIZE = 16
    MaxScriptSize = 44
    ShortPush = 5
    KeySize = 3
    HashSize = 3
    SignatureSize = 4
    Instructions <- MCInstructions
    MaxScript = 4
    MAX_OP_RETURN_RELAY = 3
    Party = {1, 2}
    Store <- MCStore
    Asked <- MCAsked
    HashTypes <- MCHashTypes
    Sizes <- MCSizes
    MaxChanges = 1
    StoredByte = 16
    MAX_SIZE = 4200
    Block = 2
    VarLimit = 4096
    Written = {1}
    Types = {}
    MaxForeign = 0
    Foreign = {}
    HashLen = 2
    KeyLen = 2
    OP_DUP = 3
    OP_HASH160 = 4
    OP_EQUAL = 5
    OP_EQUALVERIFY = 6
    OP_CHECKSIG = 7
    MaxExponent = 5
    MAX_MONEY = 15
    Tx <- MCTx
    MaxTx = 5
    Amounts <- MCAmounts
    Scripts <- MCScripts
    Heights = {0, 1, 9}
    Versions = {0, 2}
INVARIANTS
    ScriptsHold
    SpendingHolds
    StoredIsRead
