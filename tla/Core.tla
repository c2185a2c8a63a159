---------------------------------- MODULE Core ---------------------------------
(***************************************************************************)
(* Transactions and blocks as they are stored: core.h, core.cpp and the    *)
(* compressor of script.h.  Scripts are bytes here, and the lengths of     *)
(* hashes and keys are parameters.  The points of the curve are external:  *)
(* an x has a y of each parity if its first byte is not zero.              *)
(***************************************************************************)
EXTENDS Serialize

CONSTANTS
    HashLen, KeyLen,        \* bytes of a hash in an address (20) and of a coordinate (32)
    OP_DUP, OP_HASH160, OP_EQUAL, OP_EQUALVERIFY, OP_CHECKSIG,
    MaxExponent,            \* powers of ten that are taken out of an amount (9)
    MAX_MONEY

(* The fields of IMPLEMENT_SERIALIZE. *)
COutPoint == Flat(HashLen + 1)
CScriptType == VectorOf(IntType(1))
CTxIn == Tuple(<<COutPoint, CScriptType, IntType(1)>>)
CTxOut == Tuple(<<IntType(2), CScriptType>>)
CTransaction == Tuple(<<IntType(1), VectorOf(CTxIn), VectorOf(CTxOut), IntType(1)>>)
CBlockHeader ==
    Tuple(<<IntType(1), Flat(HashLen), Flat(HashLen), IntType(1), IntType(1), IntType(1)>>)
CBlock == Tuple(<<CBlockHeader, VectorOf(CTransaction)>>)

--------------------------------------------------------------------------------
Least(a, b) == IF a < b THEN a ELSE b

(* Amounts: trailing zeros are told by their number, and the last digit, which is *)
(* not zero, is kept apart.                                                       *)

RECURSIVE Zeros(_, _)
Zeros(n, e) == IF n % 10 = 0 /\ e < MaxExponent THEN Zeros(n \div 10, e + 1) ELSE e
Pack(m, d, e) == 1 + (m * 9 + d - 1) * 10 + e
CompressAmount(n) ==
    LET e == Zeros(n, 0)
        m == n \div 10 ^ e
    IN IF n = 0 THEN 0
       ELSE IF e < MaxExponent THEN Pack(m \div 10, m % 10, e)
       ELSE 1 + (m - 1) * 10 + MaxExponent
DecompressAmount(x) ==
    LET e == (x - 1) % 10
        y == (x - 1) \div 10
        n == IF e < MaxExponent THEN (y \div 9) * 10 + (y % 9) + 1 ELSE y + 1
    IN IF x = 0 THEN 0 ELSE n * 10 ^ e

MoneyRange(n) == n >= 0 /\ n <= MAX_MONEY
Fits(value, sum) == MoneyRange(value) /\ MoneyRange(sum + value)
\* The sum, or -1 for an exception.
RECURSIVE ValueOut(_, _)
ValueOut(values, sum) ==
    IF values = <<>> THEN sum
    ELSE IF ~ Fits(Head(values), sum) THEN -1
    ELSE ValueOut(Tail(values), sum + Head(values))
GetValueOut(values) == ValueOut(values, 0)

\* IsNewerThan, of the sequence numbers of the same inputs; SequenceMax is UINT_MAX.
SequenceMax == Byte - 1
NewerTurn(s, pair) ==
    LET new == pair[1]
        old == pair[2]
        first == IF new <= s.lowest THEN [newer |-> FALSE, lowest |-> new] ELSE s
    IN IF new = old THEN s
       ELSE IF old < first.lowest THEN [newer |-> TRUE, lowest |-> old] ELSE first
IsNewerThan(news, olds) ==
    FoldLeft(NewerTurn, [newer |-> FALSE, lowest |-> SequenceMax],
             [x \in DOMAIN news |-> <<news[x], olds[x]>>]).newer

--------------------------------------------------------------------------------
(* Scripts of known forms take a byte that names the form. *)

ToKeyID(h) == <<OP_DUP, OP_HASH160, HashLen>> \o h \o <<OP_EQUALVERIFY, OP_CHECKSIG>>
ToScriptID(h) == <<OP_HASH160, HashLen>> \o h \o <<OP_EQUAL>>
ToPubKey(key) == <<Len(key)>> \o key \o <<OP_CHECKSIG>>
IsToKeyID(s) == Len(s) = HashLen + 5 /\ s = ToKeyID(SubSeq(s, 4, HashLen + 3))
IsToScriptID(s) == Len(s) = HashLen + 3 /\ s = ToScriptID(SubSeq(s, 3, HashLen + 2))

OnCurve(x) == x[1] # 0
Y(x, odd) == [x EXCEPT ![KeyLen] = (@ - (@ % 2)) + odd]
X(key) == SubSeq(key, 2, KeyLen + 1)
IsFullyValid(key) ==
    LET y == SubSeq(key, KeyLen + 2, 2 * KeyLen + 1)
    IN OnCurve(X(key)) /\ y = Y(X(key), Last(key) % 2)
Valid(key) == IsFullyValid(key)

IsToPubKey(s) ==
    \/ Len(s) = KeyLen + 3 /\ s[1] = KeyLen + 1 /\ Last(s) = OP_CHECKSIG /\ s[2] \in {2, 3}
    \/ /\ Len(s) = 2 * KeyLen + 3 /\ s[1] = 2 * KeyLen + 1 /\ Last(s) = OP_CHECKSIG /\ s[2] = 4
       /\ Valid(SubSeq(s, 2, 2 * KeyLen + 2))

\* The byte that names the form and what comes after it; nothing for another script.
Compress(s) ==
    CASE IsToKeyID(s) -> <<0>> \o SubSeq(s, 4, HashLen + 3)
      [] IsToScriptID(s) -> <<1>> \o SubSeq(s, 3, HashLen + 2)
      [] IsToPubKey(s) ->
           LET key == SubSeq(s, 2, Len(s) - 1)
           IN <<IF key[1] = 4 THEN 4 + (Last(key) % 2) ELSE key[1]>> \o X(key)
      [] OTHER -> <<>>
GetSpecialSize(code) == IF code <= 1 THEN HashLen ELSE KeyLen
Decompress(code, b) ==
    CASE code = 0 -> Read(ToKeyID(b), <<>>)
      [] code = 1 -> Read(ToScriptID(b), <<>>)
      [] code \in {2, 3} -> Read(ToPubKey(<<code>> \o b), <<>>)
      [] code \in {4, 5} ->
           IF OnCurve(b) THEN Read(ToPubKey(<<4>> \o b \o Y(b, code - 4)), <<>>) ELSE Failure

nSpecialScripts == 6
SerializeScript(s) ==
    IF Compress(s) # <<>> THEN Compress(s) ELSE WriteVarInt(Len(s) + nSpecialScripts) \o s
SizeOfScript(s) ==
    IF Compress(s) # <<>> THEN Len(Compress(s)) ELSE Len(s) + GetSizeOfVarInt(Len(s) + nSpecialScripts)
\* A point that is not on the curve leaves the script as it was before: empty.
UnserializeScript(b) ==
    LET code == ReadVarInt(b)
        n == IF code.value < nSpecialScripts THEN GetSpecialSize(code.value)
             ELSE code.value - nSpecialScripts
        data == SubSeq(code.rest, 1, n)
    IN IF ~ code.ok THEN Failure
       ELSE IF Len(code.rest) < n THEN Failure
       ELSE IF code.value >= nSpecialScripts THEN Read(data, Rest(code.rest, n))
       ELSE LET script == Decompress(code.value, data)
            IN Read(IF script.ok THEN script.value ELSE <<>>, Rest(code.rest, n))

\* CTxOutCompressor and CTxInUndo: the version is there for the last output only, whose
\* height is told.
SerializeOut(out) == WriteVarInt(CompressAmount(out.nValue)) \o SerializeScript(out.script)
UnserializeOut(b) ==
    LET n == ReadVarInt(b)
        s == UnserializeScript(n.rest)
    IN IF ~ n.ok THEN Failure ELSE IF ~ s.ok THEN Failure
       ELSE Read([nValue |-> DecompressAmount(n.value), script |-> s.value], s.rest)
SerializeUndo(u) ==
    WriteVarInt(u.nHeight * 2 + (IF u.fCoinBase THEN 1 ELSE 0))
        \o (IF u.nHeight > 0 THEN WriteVarInt(u.nVersion) ELSE <<>>) \o SerializeOut(u.txout)
UnserializeUndo(b) ==
    LET code == ReadVarInt(b)
        known == code.value >= 2
        version == IF known THEN ReadVarInt(code.rest) ELSE Read(0, code.rest)
        out == UnserializeOut(version.rest)
    IN IF ~ code.ok THEN Failure ELSE IF ~ version.ok THEN Failure ELSE IF ~ out.ok THEN Failure
       ELSE Read([nHeight |-> code.value \div 2, fCoinBase |-> code.value % 2 = 1,
                  nVersion |-> version.value, txout |-> out.value], out.rest)

--------------------------------------------------------------------------------
(* The hash tree of a block.  A hash of two is the pair of them. *)

CONSTANTS
    Tx,             \* the transactions that blocks are made of, each told by a number, which
                    \* is also the value of its output and the sequence number of its input
    MaxTx,          \* and how many a block has
    Amounts,        \* what is compressed
    Scripts,
    Heights, Versions

VARIABLES
    vtx,            \* the transactions of a block
    vMerkleTree,    \* the tree that it keeps
    amount, script  \* an output

block == <<vtx, vMerkleTree, amount, script>>

CoreInit ==
    vtx = <<>> /\ vMerkleTree = <<>> /\ amount \in Amounts /\ script \in Scripts

\* A slip: a last one that has no other is taken up as it is.
PairsLone(level) ==
    [x \in 1 .. (Len(level) + 1) \div 2 |->
        IF 2 * x <= Len(level) THEN <<level[2 * x - 1], level[2 * x]>> ELSE level[2 * x - 1]]
\* A last one is paired with itself.
Pairs(level) ==
    [x \in 1 .. (Len(level) + 1) \div 2 |-> <<level[2 * x - 1], level[Least(2 * x, Len(level))]>>]
RECURSIVE Levels(_)
Levels(level) == level \o (IF Len(level) <= 1 THEN <<>> ELSE Levels(Pairs(level)))
Leaves(txs) == [x \in DOMAIN txs |-> <<txs[x]>>]
Tree(txs) == Levels(Leaves(txs))
Root(tree) == IF tree = <<>> THEN <<>> ELSE Last(tree)

AddTx(t) ==
    /\ Len(vtx) < MaxTx
    /\ vtx' = Append(vtx, t)
    /\ UNCHANGED <<vMerkleTree, amount, script>>
BuildMerkleTree == vMerkleTree' = Tree(vtx) /\ UNCHANGED <<vtx, amount, script>>

\* The other one of each pair on the way up; n is counted from zero, and so are the places.
Other(n) == IF n % 2 = 0 THEN n + 1 ELSE n - 1
RECURSIVE Branch(_, _, _, _)
Branch(tree, n, nSize, j) ==
    IF nSize <= 1 THEN <<>>
    ELSE <<tree[j + Least(Other(n), nSize - 1) + 1]>>
            \o Branch(tree, n \div 2, (nSize + 1) \div 2, j + nSize)
\* The tree is built if there is none, and left as it is if there is one.
GetMerkleBranch(n) ==
    Branch(IF vMerkleTree = <<>> THEN Tree(vtx) ELSE vMerkleTree, n, Len(vtx), 0)
RECURSIVE CheckMerkleBranch(_, _, _)
CheckMerkleBranch(hash, branch, n) ==
    IF branch = <<>> THEN hash
    ELSE CheckMerkleBranch(IF n % 2 = 1 THEN <<Head(branch), hash>> ELSE <<hash, Head(branch)>>,
                           Tail(branch), n \div 2)

CoreNext == BuildMerkleTree \/ \E t \in Tx : AddTx(t)

--------------------------------------------------------------------------------

\* Whatever is compressed is the same after it, its size is what was said, and what
\* follows it stays (CTxOutCompressor, CScriptCompressor, CTxInUndo).
CompressedIsRead ==
    LET out == [nValue |-> amount, script |-> script]
        more == <<0, 1>>
    IN /\ DecompressAmount(CompressAmount(amount)) = amount
       /\ amount < VarLimit /\ (amount - 1) % 10 <= MaxExponent =>
            CompressAmount(DecompressAmount(amount)) = amount
       /\ SizeOfScript(script) = Len(SerializeScript(script))
       /\ CompressAmount(amount) < VarLimit => UnserializeOut(SerializeOut(out) \o more) = Read(out, more)
       /\ CompressAmount(amount) < VarLimit =>
            \A h \in Heights, c \in BOOLEAN, v \in Versions :
                LET u == [nHeight |-> h, fCoinBase |-> c, nVersion |-> v, txout |-> out]
                IN UnserializeUndo(SerializeUndo(u) \o more)
                    = Read([u EXCEPT !.nVersion = IF h = 0 THEN 0 ELSE v], more)

\* A branch leads from its transaction to the root, and from no other one, whatever the
\* number of transactions; a tree that is older than the transactions is not kept up
\* (GetMerkleBranch, CheckMerkleBranch).
BranchProves ==
    vMerkleTree \in {<<>>, Tree(vtx)} =>
        \A n \in 0 .. Len(vtx) - 1 : \A t \in Tx :
            CheckMerkleBranch(<<t>>, GetMerkleBranch(n), n) = Root(Tree(vtx)) <=>
                t = vtx[n + 1]

\* A transaction is newer than another one of the same inputs if the lowest sequence number
\* that differs is the other one's, never both (IsNewerThan).
NewerIsOrder ==
    Len(vtx) <= 3 /\ (\A x \in DOMAIN vtx : vtx[x] >= 0) =>
        \A olds \in [DOMAIN vtx -> Tx \cap Nat] :
            LET differ == {x \in DOMAIN vtx : vtx[x] # olds[x]}
            IN IsNewerThan(vtx, olds) <=> \E x \in differ : \A y \in differ : olds[x] < vtx[y]

\* The values of outputs are added as long as each, and their sum, is in range, and their
\* order does not matter (GetValueOut).
SumInRange ==
    LET sum == FoldLeft(LAMBDA a, b : a + b, 0, vtx)
    IN GetValueOut(vtx) =
        IF sum <= MAX_MONEY /\ \A x \in DOMAIN vtx : vtx[x] >= 0 THEN sum ELSE -1
================================================================================
