-------------------------------- MODULE MCScript --------------------------------
(* Small instances of scripts that run, of outputs that are spent by what two    *)
(* parties sign while the transaction is changed, and of what is stored of       *)
(* transactions and blocks.  A behaviour is one of one of these parts, and the   *)
(* other ones stay as they are at first.                                         *)
EXTENDS Signing

CONSTANTS
    StoredByte, MAX_SIZE, Block, VarLimit, Written, Types, MaxForeign, Foreign,
    HashLen, KeyLen, OP_DUP, OP_HASH160, OP_EQUAL, OP_EQUALVERIFY, OP_CHECKSIG, MaxExponent,
    MAX_MONEY, Tx, MaxTx, Amounts, Scripts, Heights, Versions

VARIABLES
    part,   \* what the behaviour is of
    written, foreign, vtx, vMerkleTree, amount, output

Stored == INSTANCE Core WITH Byte <- StoredByte, script <- output

ASSUME ScriptAssumption

--------------------------------------------------------------------------------
\* A script of four instructions: small and wide numbers, a number that is not written
\* the shortest way, a key, the longest data that may be pushed (three of these make a
\* script too large) and longer data, branches within branches, and what fails, moves, or
\* checks.
Sevens(n) == Push(Bytes([x \in 1 .. n |-> 7]))
MCInstructions ==
    {Small(2), OP_0, Push(Bytes(<<0, 4>>)), Sevens(2), Push(Key(1)),
     Sevens(MAX_SCRIPT_ELEMENT_SIZE), Sevens(MAX_SCRIPT_ELEMENT_SIZE + 1)}
      \cup {Op(name) : name \in Branching}
      \cup {Op(name) : name \in {"OP_CAT", "OP_VERIF", "truncated", "OP_VERIFY",
               "OP_TOALTSTACK", "OP_FROMALTSTACK", "OP_RETURN",
               "OP_CHECKMULTISIG", "OP_3DUP"}}

\* Outputs to keys, hashes of keys, several keys, hashes of scripts, nested and too long
\* to be pushed as well, and to nobody; two parties that have a key or some scripts each.
Multi == SetMultisig(2, <<1, 2, 3>>)
Long == SetMultisig(1, <<1, 1, 1, 1>>)
ToHashOf(s) == SetDestination(ScriptID(HashOf(Code(s))))
Plain == <<Push(Key(1)), Op("OP_CHECKSIG")>>
MCAsked ==
    {Plain, SetDestination(KeyID(HashOf(Key(1)))), Multi,
     ToHashOf(Multi), ToHashOf(Plain), ToHashOf(ToHashOf(Plain)), ToHashOf(Long),
     SetMultisig(3, <<1, 3>>),
     <<Op("OP_RETURN"), Op("OP_DUP")>>}
MCStore ==
    1 :> KeyStore({1}, {Multi, ToHashOf(Plain), Plain, Long}) @@ 2 :> KeyStore({3}, {Multi})
MCHashTypes ==
    {[base |-> "ALL", anyone |-> FALSE], [base |-> "NONE", anyone |-> TRUE],
     [base |-> "SINGLE", anyone |-> FALSE]}
MCSizes == {<<2, 1>>}

\* Every output that the compressor knows, and others; amounts around the powers of ten.
MCScripts ==
    LET Hash == [1 .. 2 -> {0, 1, 7}]
    IN {<<>>, <<4>>, <<1, 2, 3, 4, 5, 6, 7, 0, 1>>}
         \cup {Stored!ToKeyID(h) : h \in Hash} \cup {Stored!ToScriptID(h) : h \in Hash}
         \cup {Stored!ToPubKey(<<c>> \o h) : c \in {2, 3, 4}, h \in Hash}
         \cup {Stored!ToPubKey(<<4>> \o h \o g) : h, g \in Hash}
MCAmounts == 0 .. 130 \cup {1000, 1230, 100000, 1000000000, 2000000000}
\* Each amount goes with a few scripts, and each script with a few amounts.
FewAmounts == {0, 15, 130}
FewScripts == {<<>>, <<4>>}
MCTx == {-1, 1, 15}

--------------------------------------------------------------------------------
block == <<vtx, vMerkleTree, amount, output>>
serialized == <<written, foreign>>
allvars == <<part, machine, signing, block, serialized>>

NoOutput == vtx = <<>> /\ vMerkleTree = <<>> /\ amount = 0 /\ output = <<>>

ScriptPartsInit ==
    /\ part \in {"machine", "signing", "outputs", "block"}
    /\ part # "signing" => asked = Plain
    /\ MachineInit /\ SigningInit /\ Stored!SerializeInit
    /\ IF part = "outputs" THEN Stored!CoreInit ELSE NoOutput
    /\ amount \in FewAmounts \/ output \in FewScripts

ScriptPartsNext ==
    \/ part = "machine" /\ MachineNext /\ UNCHANGED <<part, signing, block, serialized>>
    \/ part = "signing" /\ SigningNext /\ UNCHANGED <<part, machine, block, serialized>>
    \/ part = "block" /\ Stored!CoreNext /\ UNCHANGED <<part, machine, signing, serialized>>

ScriptSpec == ScriptPartsInit /\ [][ScriptPartsNext]_allvars

--------------------------------------------------------------------------------
\* Scripts: a branch that is not taken does nothing, opcodes agree with each other on any
\* stack, and numbers are read as they are written (EvalScript, getvch, CastToBool).
ScriptsHold == part = "machine" => BranchesChoose /\ OpcodesAgree /\ NumbersRead

\* Spending: IsMine tells what can be signed, what was signed verifies until something is
\* changed that its hash type covers, and combining loses no signature, with the exceptions
\* of the code (IsMine, SignSignature, SignatureHash, CombineSignatures).
SpendingHolds ==
    part = "signing" =>
        /\ MineSigns /\ SignedVerifies /\ ChangesTold /\ CombineKeeps /\ AddressesRead

\* Outputs and blocks: what is compressed is read again, a branch of the tree proves its
\* transaction and no other place, and sums and orders hold (CTxOutCompressor,
\* CBlock::GetMerkleBranch, CTransaction::GetValueOut, CTransaction::IsNewerThan).
StoredIsRead ==
    part \in {"outputs", "block"} =>
        /\ Stored!CompressedIsRead /\ Stored!BranchProves
        /\ Stored!NewerIsOrder /\ Stored!SumInRange
================================================================================
